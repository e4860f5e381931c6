------------------------- MODULE BatchDriver_proofs -------------------------
(* Proofs about BatchDriver, for any number of rows, batch sizes, runs and *)
(* forward contexts, and about the contingency analysis that keeps such a  *)
(* driver from one run() to the next (ContingencyAnalysis).                *)
EXTENDS BatchDriver, ContingencyEngine, Sequences, FiniteSetTheorems, SequenceTheorems,
        WellFoundedInduction, TLAPS

(***************************************************************************)
(* Compaction.  The rows of a batch, in ascending order, are numbered      *)
(* 0 .. n - 1 without gap or repetition: RowAt(A, .) is a bijection.       *)
(***************************************************************************)
LEMMA RowsCounted == IsFiniteSet(Row) /\ Cardinality(Row) = NumRows
BY FS_Interval, BatchAssumption DEF Row

LEMMA RowSet ==
  ASSUME NEW A \in SUBSET Row
  PROVE  /\ IsFiniteSet(A) /\ Cardinality(A) \in Nat /\ Cardinality(A) <= NumRows
         /\ Cardinality(A) = NumRows => A = Row
BY RowsCounted, FS_Subset, FS_CardinalityType

Below(A, r) == {q \in A : q < r}
Rank(A, r)  == Cardinality(Below(A, r))

LEMMA RankBounds ==
  ASSUME NEW A \in SUBSET Row, NEW r \in A
  PROVE  Rank(A, r) \in 0 .. Cardinality(A) - 1
<1>1. IsFiniteSet(A) /\ Cardinality(A) \in Nat
  BY RowSet
<1>2. Below(A, r) \in SUBSET A /\ r \notin Below(A, r)
  BY DEF Below, Row
<1>3. IsFiniteSet(Below(A, r)) /\ Cardinality(Below(A, r)) \in Nat
  BY <1>1, <1>2, FS_Subset, FS_CardinalityType
<1>4. Cardinality(Below(A, r)) <= Cardinality(A) /\ Cardinality(Below(A, r)) # Cardinality(A)
  BY <1>1, <1>2, FS_Subset
<1>5. QED
  BY <1>1, <1>3, <1>4 DEF Rank

LEMMA RankGrows ==
  ASSUME NEW A \in SUBSET Row, NEW p \in A, NEW r \in A, p < r
  PROVE  Rank(A, p) < Rank(A, r)
<1>1. Below(A, p) \in SUBSET Below(A, r) /\ p \in Below(A, r) /\ p \notin Below(A, p)
  <2>1. \A q \in A : q \in Int
    BY DEF Row
  <2>2. \A q \in A : q < p => q < r
    BY <2>1
  <2>3. Below(A, p) \subseteq Below(A, r)
    BY <2>2 DEF Below
  <2>4. QED
    BY <2>1, <2>3 DEF Below
<1>2. Below(A, r) \in SUBSET Row /\ Below(A, p) \in SUBSET Row
  BY DEF Below
<1>3. IsFiniteSet(Below(A, r))
  BY <1>2, RowSet
<1>4. Rank(A, p) <= Rank(A, r) /\ Rank(A, p) # Rank(A, r)
  BY <1>1, <1>3, FS_Subset DEF Rank
<1>5. Rank(A, p) \in Nat /\ Rank(A, r) \in Nat
  BY <1>2, RowSet DEF Rank
<1>6. QED
  BY <1>4, <1>5

LEMMA RankOnto ==
  ASSUME NEW A \in SUBSET Row, NEW s \in 0 .. Cardinality(A) - 1
  PROVE  \E r \in A : Rank(A, r) = s
<1>. DEFINE n == Cardinality(A)
            f == [r \in A |-> Rank(A, r)]
<1>1. IsFiniteSet(A) /\ n \in Nat
  BY RowSet
<1>2. f \in [A -> 0 .. n - 1]
  BY RankBounds
<1>3. \A p, r \in A : f[p] = f[r] => p = r
  <2>. SUFFICES ASSUME NEW p \in A, NEW r \in A, p # r PROVE Rank(A, p) # Rank(A, r)
    OBVIOUS
  <2>1. p \in Int /\ r \in Int
    BY DEF Row
  <2>2. p < r \/ r < p
    BY <2>1
  <2>3. Rank(A, p) \in Int /\ Rank(A, r) \in Int
    BY RankBounds
  <2>4. QED
    BY <2>2, <2>3, RankGrows
<1>4. f \in Injection(A, 0 .. n - 1)
  BY <1>2, <1>3 DEF Injection, IsInjective
<1>5. IsFiniteSet(0 .. n - 1) /\ Cardinality(0 .. n - 1) = n
  BY <1>1, FS_Interval
<1>6. f \in Surjection(A, 0 .. n - 1)
  BY <1>4, <1>5, FS_Injection
<1>7. QED
  BY <1>6 DEF Surjection

LEMMA RowAtNumbers ==
  ASSUME NEW A \in SUBSET Row, NEW s \in 0 .. Cardinality(A) - 1
  PROVE  RowAt(A, s) \in A /\ Rank(A, RowAt(A, s)) = s
BY RankOnto DEF RowAt, Rank, Below

LEMMA RowAtOfRank ==
  ASSUME NEW A \in SUBSET Row, NEW r \in A
  PROVE  RowAt(A, Rank(A, r)) = r
<1>. DEFINE p == RowAt(A, Rank(A, r))
<1>1. p \in A /\ Rank(A, p) = Rank(A, r)
  BY RankBounds, RowAtNumbers
<1>. HIDE DEF p
<1>2. p \in Int /\ r \in Int
  BY <1>1 DEF Row
<1>3. Rank(A, r) \in Int
  BY RankBounds
<1>4. ~(p < r) /\ ~(r < p)
  BY <1>1, <1>3, RankGrows
<1>5. p = r
  BY <1>2, <1>4
<1>6. QED
  BY <1>5 DEF p

LEMMA RowAtDiffers ==
  ASSUME NEW A \in SUBSET Row, NEW s \in 0 .. Cardinality(A) - 1,
         NEW t \in 0 .. Cardinality(A) - 1, RowAt(A, s) = RowAt(A, t)
  PROVE  s = t
BY RowAtNumbers

(* With every row kept, compaction is the identity, which is why           *)
(* d_result_map() may leave the map out.                                   *)
LEMMA RowAtAll ==
  ASSUME NEW s \in Row
  PROVE  RowAt(Row, s) = s
<1>1. Below(Row, s) = 0 .. s - 1
  BY BatchAssumption DEF Below, Row
<1>2. Rank(Row, s) = s
  BY <1>1, FS_Interval DEF Rank, Row
<1>3. QED
  BY <1>2, RowAtOfRank

LEMMA ResultRowIsRowAt ==
  ASSUME active \in SUBSET Row, NEW s \in 0 .. NumActive - 1
  PROVE  ResultRow(s) = RowAt(active, s)
<1>1. CASE NumActive < NumRows
  BY <1>1 DEF ResultRow
<1>2. CASE ~(NumActive < NumRows)
  <2>1. active = Row /\ NumActive = NumRows
    BY <1>2, RowSet, BatchAssumption DEF NumActive
  <2>2. s \in Row
    BY <2>1 DEF Row
  <2>3. QED
    BY <1>2, <2>1, <2>2, RowAtAll DEF ResultRow
<1>3. QED
  BY <1>1, <1>2

(***************************************************************************)
(* Chunks.                                                                 *)
(***************************************************************************)
(* CeilDiv(n, c) chunks of c slots hold n rows, and no fewer do.           *)
LEMMA CeilDivCovers ==
  ASSUME NEW n \in Nat, NEW c \in Nat \ {0}
  PROVE  /\ CeilDiv(n, c) \in Nat
         /\ n <= CeilDiv(n, c) * c
         /\ CeilDiv(n, c) * c < n + c
<1>1. ASSUME NEW a \in Nat PROVE a \div c \in Nat /\ (a \div c) * c <= a /\ a < (a \div c) * c + c
  OBVIOUS
<1>2. n + c - 1 \in Nat
  OBVIOUS
<1>. DEFINE m == (n + c - 1) \div c
<1>3. m \in Nat /\ m * c <= n + c - 1 /\ n + c - 1 < m * c + c
  BY <1>1, <1>2
<1>4. m * c \in Int
  BY <1>3
<1>. HIDE DEF m
<1>5. m \in Nat /\ n <= m * c /\ m * c < n + c
  BY <1>3, <1>4
<1>6. QED
  BY <1>5 DEF m, CeilDiv

LEMMA CeilDivLeast ==
  ASSUME NEW n \in Nat, NEW c \in Nat \ {0}, NEW k \in Nat, n <= k * c
  PROVE  CeilDiv(n, c) <= k
<1>. DEFINE m == CeilDiv(n, c)
<1>1. m \in Nat /\ m * c < n + c
  BY CeilDivCovers
<1>2. SUFFICES ASSUME k < m PROVE FALSE
  BY <1>1
<1>. HIDE DEF m
<1>3. m = (k + 1) + (m - k - 1) /\ m - k - 1 \in Nat
  BY <1>1, <1>2
<1>4. ASSUME NEW d \in Nat PROVE ((k + 1) + d) * c = k * c + c + d * c /\ d * c >= 0
  OBVIOUS
<1>5. m * c >= k * c + c
  BY <1>3, <1>4, <1>1
<1>6. QED
  BY <1>1, <1>5

LEMMA CeilDivSmall ==
  ASSUME NEW n \in Nat, NEW c \in Nat \ {0}
  PROVE  /\ CeilDiv(n, c) <= n
         /\ CeilDiv(n, c) <= 1 <=> n <= c
         /\ CeilDiv(n, c) = 0 <=> n = 0
<1>. DEFINE m == CeilDiv(n, c)
<1>1. m \in Nat /\ n <= m * c
  BY CeilDivCovers
<1>2. n <= n * c /\ CeilDiv(n, c) <= n
  BY CeilDivLeast
<1>3. n <= c => CeilDiv(n, c) <= 1
  BY CeilDivLeast
<1>4. n = 0 => CeilDiv(n, c) <= 0
  BY CeilDivLeast
<1>. HIDE DEF m
<1>5. (m <= 1 => n <= c) /\ (m = 0 => n = 0)
  <2>1. CASE m = 0
    BY <1>1, <2>1
  <2>2. CASE m = 1
    BY <1>1, <2>2
  <2>3. QED
    BY <1>1, <2>1, <2>2
<1>6. (n <= c => m <= 1) /\ (n = 0 => m <= 0) /\ m <= n
  BY <1>2, <1>3, <1>4 DEF m
<1>7. QED
  BY <1>1, <1>5, <1>6 DEF m

(* The evened-out capacity needs no more chunks than batch_size does.      *)
LEMMA BalancedFits ==
  ASSUME NEW A \in SUBSET Row, batchSize \in Nat \ {0}
  PROVE  Balanced(A) \in Nat \ {0} /\ Chunks(A, Balanced(A)) <= Chunks(A, batchSize)
<1>. DEFINE n == Cardinality(A)
            k == CeilDiv(n, batchSize)
<1>1. n \in Nat
  BY RowSet
<1>. HIDE DEF n
<1>2. k \in Nat /\ (k = 0 <=> n = 0)
  BY <1>1, CeilDivCovers, CeilDivSmall
<1>. HIDE DEF k
<1>3. CASE k = 0
  <2>1. Balanced(A) = 1
    BY <1>3 DEF Balanced, Chunks, k, n
  <2>2. CeilDiv(n, 1) <= k
    BY <1>2, <1>3, CeilDivSmall
  <2>3. QED
    BY <2>1, <2>2 DEF Chunks, k, n
<1>4. CASE k # 0
  <2>1. Balanced(A) = CeilDiv(n, k)
    BY <1>4 DEF Balanced, Chunks, k, n
  <2>2. CeilDiv(n, k) \in Nat \ {0} /\ n <= CeilDiv(n, k) * k
    BY <1>1, <1>2, <1>4, CeilDivCovers, CeilDivSmall
  <2>3. n <= k * CeilDiv(n, k)
    BY <1>2, <2>2
  <2>4. CeilDiv(n, CeilDiv(n, k)) <= k
    BY <1>1, <1>2, <2>2, <2>3, CeilDivLeast
  <2>5. QED
    BY <2>1, <2>2, <2>4 DEF Chunks, k, n
<1>5. QED
  BY <1>3, <1>4

(***************************************************************************)
(* Slots.  What a chunk computes in a slot that holds a row.               *)
(***************************************************************************)
LEMMA DriverTypes ==
  TypeOK => /\ active \in SUBSET Row /\ cap \in Nat /\ chunk \in Nat /\ batchSize \in Nat \ {0}
            /\ NumActive \in Nat /\ NumActive <= NumRows
            /\ cap > 0 => NumChunks \in Nat /\ NumChunks <= NumRows
<1>. SUFFICES ASSUME TypeOK
     PROVE  /\ active \in SUBSET Row /\ cap \in Nat /\ chunk \in Nat /\ batchSize \in Nat \ {0}
            /\ NumActive \in Nat /\ NumActive <= NumRows
            /\ cap > 0 => NumChunks \in Nat /\ NumChunks <= NumRows
  OBVIOUS
<1>1. active \in SUBSET Row /\ cap \in Nat /\ chunk \in Nat /\ batchSize \in Nat \ {0}
  BY BatchAssumption DEF TypeOK, FlagTypes, DataTypes
<1>2. NumActive \in Nat /\ NumActive <= NumRows
  BY <1>1, RowSet DEF NumActive
<1>3. ASSUME cap > 0 PROVE NumChunks \in Nat /\ NumChunks <= NumActive
  BY <1>1, <1>2, <1>3, CeilDivCovers, CeilDivSmall DEF NumChunks
<1>4. QED
  BY <1>1, <1>2, <1>3, BatchAssumption

(* The slots of a chunk that hold a row are the first Actual(k) ones.      *)
LEMMA ActualSlots ==
  ASSUME TypeOK, NEW k \in Nat, NEW l \in Nat
  PROVE  /\ k * cap \in Nat
         /\ l < Actual(k) <=> l < cap /\ k * cap + l < NumActive
<1>1. cap \in Nat /\ NumActive \in Nat
  BY DriverTypes
<1>2. k * cap \in Nat
  BY <1>1
<1>3. QED
  BY <1>1, <1>2 DEF Actual

LEMMA SlotOfRow ==
  ASSUME TypeOK, NEW k \in Nat, NEW l \in Nat, l < Actual(k), NEW final
  PROVE  InSlot(k, l, final) =
           [kind |-> "computed", patches |-> RowAt(active, k * cap + l),
            sbus |-> RowAt(active, k * cap + l), run |-> runs, final |-> final]
<1>1. l < cap /\ k * cap + l < NumActive /\ builtFor = cap
  BY ActualSlots DEF TypeOK, FlagTypes, DataTypes
<1>2. PatchedRow(k, l) = RowAt(active, k * cap + l)
  BY <1>1 DEF PatchedRow
<1>3. InjectedRow(k, l) = RowAt(active, k * cap + l)
  BY DEF InjectedRow
<1>4. QED
  BY <1>2, <1>3 DEF InSlot

LEMMA SlotType ==
  ASSUME TypeOK, runs > 0, NEW k \in Nat, NEW l \in Nat, NEW final \in BOOLEAN
  PROVE  InSlot(k, l, final) \in Value
<1>1. cap \in Nat /\ builtFor = cap /\ active \in SUBSET Row /\ k * cap + l \in Nat /\ NumActive \in Nat
  BY DriverTypes, ActualSlots, SMTT(20) DEF TypeOK, FlagTypes, DataTypes
<1>2. k * cap + l < NumActive => RowAt(active, k * cap + l) \in Row
  BY <1>1, RowAtNumbers DEF NumActive
<1>3. PatchedRow(k, l) \in Row \cup {Base}
  BY <1>1, <1>2 DEF PatchedRow
<1>4. InjectedRow(k, l) \in Row \cup {Base}
  BY <1>1, <1>2, ActualSlots DEF InjectedRow
<1>5. runs \in 1 .. MaxRuns
  BY BatchAssumption DEF TypeOK, FlagTypes, DataTypes
<1>6. QED
  BY <1>3, <1>4, <1>5 DEF InSlot, Value, Computed

(* What SolveChunk stores: the values of its slots at their rows, whether  *)
(* rows are mapped or not, and nothing else.                               *)
LEMMA ChunkResults ==
  ASSUME TypeOK, SolveChunk
  PROVE  /\ \A s \in 0 .. NumActive - 1 :
              /\ chunk * cap <= s /\ s < chunk * cap + cap =>
                    results'[RowAt(active, s)] = OwnValue(RowAt(active, s), runs)
              /\ s < chunk * cap => results'[RowAt(active, s)] = results[RowAt(active, s)]
         /\ \A r \in Row \ active : results'[r] = results[r]
<1>. DEFINE first == chunk * cap
            Slots == 0 .. Actual(chunk) - 1
            SlotOf(r) == CHOOSE l \in Slots : ResultRow(first + l) = r
<1>1. /\ active \in SUBSET Row /\ cap \in Nat /\ chunk \in Nat /\ NumActive \in Nat
      /\ first \in Nat
  BY DriverTypes, ActualSlots
<1>2. \A r \in Row : results'[r] = IF \E l \in Slots : ResultRow(first + l) = r
                                     THEN InSlot(chunk, SlotOf(r), TRUE) ELSE results[r]
  BY DEF SolveChunk
<1>. HIDE DEF first
<1>3. ASSUME NEW l \in Slots
      PROVE  /\ l \in Nat /\ l < cap /\ first + l \in 0 .. NumActive - 1
             /\ ResultRow(first + l) = RowAt(active, first + l)
  <2>1. l \in Nat /\ l < Actual(chunk)
    BY <1>1 DEF Actual, first
  <2>2. l < cap /\ first + l < NumActive
    BY <1>1, <2>1, ActualSlots DEF first
  <2>3. QED
    BY <1>1, <2>1, <2>2, ResultRowIsRowAt
<1>4. ASSUME NEW s \in 0 .. NumActive - 1, first <= s, s < first + cap
      PROVE  results'[RowAt(active, s)] = OwnValue(RowAt(active, s), runs)
  <2>. DEFINE r == RowAt(active, s)
              l == SlotOf(r)
  <2>1. r \in Row
    BY <1>1, RowAtNumbers DEF NumActive
  <2>2. s - first \in Nat /\ s - first < cap /\ first + (s - first) = s
    BY <1>1, <1>4
  <2>3. s - first < Actual(chunk)
    BY <1>1, <2>2, ActualSlots DEF first
  <2>4. s - first \in Slots
    BY <1>1, <2>2, <2>3 DEF Actual, first
  <2>5. ResultRow(first + (s - first)) = r
    BY <1>3, <2>2, <2>4
  <2>6. l \in Slots /\ ResultRow(first + l) = r
    BY <2>4, <2>5
  <2>. HIDE DEF l
  <2>7. first + l \in 0 .. NumActive - 1 /\ RowAt(active, first + l) = RowAt(active, s)
    BY <1>3, <2>6
  <2>8. first + l = s
    BY <1>1, <2>7, RowAtDiffers DEF NumActive
  <2>9. l \in Nat /\ l < Actual(chunk)
    BY <1>1, <2>6 DEF Actual, first
  <2>10. InSlot(chunk, l, TRUE) = OwnValue(r, runs)
    BY <1>1, <2>8, <2>9, SlotOfRow DEF OwnValue, first
  <2>11. results'[r] = InSlot(chunk, l, TRUE)
    BY <1>2, <2>1, <2>4, <2>5 DEF l
  <2>12. QED
    BY <2>10, <2>11
<1>5. ASSUME NEW s \in 0 .. NumActive - 1, s < first
      PROVE  results'[RowAt(active, s)] = results[RowAt(active, s)]
  <2>1. RowAt(active, s) \in Row
    BY <1>1, RowAtNumbers DEF NumActive
  <2>2. ASSUME NEW l \in Slots PROVE ResultRow(first + l) # RowAt(active, s)
    <3>1. l \in Nat /\ first + l \in 0 .. NumActive - 1 /\ ResultRow(first + l) = RowAt(active, first + l)
      BY <1>3
    <3>2. first + l # s
      BY <1>1, <1>5, <3>1
    <3>3. QED
      BY <1>1, <3>1, <3>2, RowAtDiffers DEF NumActive
  <2>3. QED
    BY <1>2, <2>1, <2>2
<1>6. ASSUME NEW r \in Row \ active PROVE results'[r] = results[r]
  <2>1. ASSUME NEW l \in Slots PROVE ResultRow(first + l) # r
    BY <1>1, <1>3, RowAtNumbers DEF NumActive
  <2>2. QED
    BY <1>2, <2>1
<1>7. QED
  BY <1>4, <1>5, <1>6 DEF first

(* A value stored in the results is one of this chunk or an older one.     *)
LEMMA ChunkResultsType ==
  ASSUME TypeOK, runs > 0, cap > 0, SolveChunk
  PROVE  results' \in [Row -> Value] /\ jac' \in [0 .. cap - 1 -> Value]
<1>1. chunk \in Nat /\ results \in [Row -> Value] /\ keepJ \in BOOLEAN /\ cap \in Nat
  BY DriverTypes DEF TypeOK, FlagTypes, DataTypes
<1>2. \A l \in Nat : InSlot(chunk, l, TRUE) \in Value /\ InSlot(chunk, l, keepJ) \in Value
  BY <1>1, SlotType
<1>3. \A l \in 0 .. Actual(chunk) - 1 : l \in Nat
  OBVIOUS
<1>4. jac' \in [0 .. cap - 1 -> Value]
  <2>1. jac' = [l \in 0 .. cap - 1 |-> InSlot(chunk, l, keepJ)]
    BY DEF SolveChunk
  <2>2. \A l \in 0 .. cap - 1 : l \in Nat
    OBVIOUS
  <2>3. QED
    BY <1>2, <2>1, <2>2
<1>5. ASSUME NEW r \in Row, \E l \in 0 .. Actual(chunk) - 1 : ResultRow(chunk * cap + l) = r
      PROVE  InSlot(chunk, CHOOSE l \in 0 .. Actual(chunk) - 1 : ResultRow(chunk * cap + l) = r,
                    TRUE) \in Value
  <2>. DEFINE k == CHOOSE l \in 0 .. Actual(chunk) - 1 : ResultRow(chunk * cap + l) = r
  <2>1. k \in 0 .. Actual(chunk) - 1
    BY <1>5
  <2>. HIDE DEF k
  <2>2. InSlot(chunk, k, TRUE) \in Value
    BY <1>2, <1>3, <2>1
  <2>3. QED
    BY <2>2 DEF k
<1>6. QED
  BY <1>1, <1>4, <1>5 DEF SolveChunk

(***************************************************************************)
(* Type correctness, with the counters that bound the numbers in it.       *)
(***************************************************************************)
LEMMA NewDriverTypes ==
  ASSUME TypeOK, NewDriver
  PROVE  /\ cap' \in Nat \ {0} /\ builtFor' = cap' /\ builtWith' \in Nat \X BOOLEAN
         /\ active' \in SUBSET Row /\ uncounted' = FALSE /\ nSolves' = 0 /\ sources' = sources + 1
         /\ results' \in [Row -> Value] /\ jac' \in [0 .. cap' - 1 -> Value]
         /\ adjoint' = NoAdjoint
<1>1. kept \in SUBSET Row /\ batchSize \in Nat \ {0} /\ fixedCap \in BOOLEAN
  BY DriverTypes DEF TypeOK, FlagTypes, DataTypes
<1>2. cap' = (IF fixedCap THEN batchSize ELSE Balanced(kept)) /\ builtFor' = cap'
  BY DEF NewDriver
<1>3. cap' \in Nat \ {0}
  BY <1>1, <1>2, BalancedFits
<1>4. results' = [r \in Row |-> Unset] /\ jac' = [l \in 0 .. cap' - 1 |-> Unset]
  BY DEF NewDriver
<1>5. Unset \in Value
  BY DEF Value
<1>6. QED
  BY <1>1, <1>2, <1>3, <1>4, <1>5 DEF NewDriver

LEMMA TypeNext == TypeOK /\ CountersInv /\ [Next]_vars => TypeOK' /\ CountersInv'
<1>. SUFFICES ASSUME TypeOK, CountersInv, [Next]_vars PROVE TypeOK' /\ CountersInv'
  OBVIOUS
<1>. USE DEF CountersInv, stageVars, driverVars
<1>. FlagTypes /\ DataTypes
  BY DEF TypeOK
<1>1. ASSUME NEW A \in SUBSET Row, Stage(A) PROVE TypeOK' /\ CountersInv'
  <2>1. FlagTypes'
    BY <1>1 DEF Stage, FlagTypes
  <2>2. DataTypes' /\ CountersInv'
    BY <1>1 DEF Stage, DataTypes
  <2>3. QED
    BY <2>1, <2>2 DEF TypeOK
<1>2. CASE \/ \E b \in BatchSizes : SetBatchSize(b)
           \/ \E v \in BOOLEAN : SetFixedBatchCapacity(v) \/ SetKeepFinalJacobian(v)
  <2>1. FlagTypes'
    BY <1>2 DEF SetBatchSize, SetFixedBatchCapacity, SetKeepFinalJacobian, Configured, FlagTypes
  <2>2. DataTypes' /\ CountersInv'
    BY <1>2 DEF SetBatchSize, SetFixedBatchCapacity, SetKeepFinalJacobian, Configured, DataTypes
  <2>3. QED
    BY <2>1, <2>2 DEF TypeOK
<1>3. CASE RunCold \/ RunWarmRebuilds
  <2>1. EnterRun /\ NewDriver /\ pc' = "ready" /\ UNCHANGED chunk
    BY <1>3 DEF RunCold, RunWarmRebuilds
  <2>2. /\ cap' \in Nat \ {0} /\ builtFor' = cap' /\ builtWith' \in Nat \X BOOLEAN
        /\ active' \in SUBSET Row /\ uncounted' = FALSE /\ nSolves' = 0 /\ sources' = sources + 1
        /\ results' \in [Row -> Value] /\ jac' \in [0 .. cap' - 1 -> Value]
        /\ adjoint' = NoAdjoint
    BY <2>1, NewDriverTypes
  <2>3. /\ adjoint' = [factors |-> adjoint'.factors, for |-> adjoint'.for, torn |-> adjoint'.torn]
        /\ adjoint'.for = -1 /\ adjoint'.torn = FALSE
    BY <2>2 DEF NoAdjoint
  <2>4. FlagTypes'
    BY <2>1, <2>2, <2>3 DEF EnterRun, FlagTypes
  <2>5. runs' = runs + 1 /\ runs < MaxRuns /\ runs \in Nat /\ sources \in Nat /\ MaxRuns \in Nat
    BY <2>1, BatchAssumption DEF EnterRun, DataTypes
  <2>6. CountersInv'
    BY <2>1, <2>2, <2>5
  <2>7. DataTypes'
    <3>1. /\ kept' = kept /\ batchSize' = batchSize /\ chunk' = chunk /\ pc' = "ready"
      BY <2>1 DEF EnterRun
    <3>2. /\ nSolves' \in 0 .. MaxRuns /\ runs' \in 0 .. MaxRuns /\ sources' \in 0 .. MaxRuns
          /\ -1 \in (-1) .. nSolves'
      BY <2>2, <2>5, <2>6
    <3>3. QED
      BY <2>2, <2>3, <3>1, <3>2 DEF DataTypes
  <2>8. QED
    BY <2>4, <2>6, <2>7 DEF TypeOK
<1>4. CASE RunWarm \/ RunFailsInNewSource
  <2>1. EnterRun /\ Warm /\ UNCHANGED <<cap, builtWith, nSolves, results, jac, chunk>>
        /\ active' = kept /\ builtFor' = cap /\ uncounted' \in BOOLEAN
        /\ pc' \in {"ready", "idle"}
    BY <1>4 DEF RunWarm, RunFailsInNewSource, ReplaceSource, LiveLayout, EnterRun
  <2>2. adjoint' = [adjoint EXCEPT !.for = -1] \/ adjoint' = adjoint
    BY <1>4 DEF RunWarm, RunFailsInNewSource, ReplaceSource
  <2>3. sources' \in {sources, sources + 1}
    BY <1>4 DEF RunWarm, RunFailsInNewSource, ReplaceSource
  <2>4. /\ adjoint' = [factors |-> adjoint'.factors, for |-> adjoint'.for, torn |-> adjoint'.torn]
        /\ adjoint'.for = -1 \/ adjoint'.for = adjoint.for
        /\ adjoint'.torn = adjoint.torn
    BY <2>2 DEF DataTypes
  <2>5. cap > 0
    BY <2>1 DEF Warm, Cold, DataTypes
  <2>6. FlagTypes'
    BY <2>1, <2>4 DEF EnterRun, FlagTypes
  <2>7. runs' = runs + 1 /\ runs < MaxRuns /\ runs \in Nat /\ sources \in Nat /\ MaxRuns \in Nat
        /\ nSolves \in Nat /\ sources <= runs /\ nSolves <= runs
    BY <2>1, BatchAssumption DEF EnterRun, DataTypes
  <2>8. CountersInv'
    BY <2>1, <2>3, <2>7
  <2>9. DataTypes'
    BY <2>1, <2>3, <2>4, <2>5, <2>7, <2>8 DEF EnterRun, DataTypes
  <2>10. QED
    BY <2>6, <2>8, <2>9 DEF TypeOK
<1>5. CASE RunFailsToBuild
  <2>1. EnterRun /\ cap' = 0 /\ builtFor' = 0 /\ active' = {} /\ nSolves' = 0 /\ uncounted' = FALSE
        /\ adjoint' = NoAdjoint /\ UNCHANGED <<builtWith, sources, pc, chunk>>
    BY <1>5 DEF RunFailsToBuild
  <2>2. /\ adjoint' = [factors |-> adjoint'.factors, for |-> adjoint'.for, torn |-> adjoint'.torn]
        /\ adjoint'.for = -1 /\ adjoint'.torn = FALSE
    BY <2>1 DEF NoAdjoint
  <2>3. FlagTypes'
    BY <2>1, <2>2 DEF EnterRun, FlagTypes
  <2>4. runs' = runs + 1 /\ runs < MaxRuns /\ runs \in Nat /\ sources \in Nat /\ MaxRuns \in Nat
    BY <2>1, BatchAssumption DEF EnterRun, DataTypes
  <2>5. CountersInv'
    BY <2>1, <2>4 DEF EnterRun
  <2>6. DataTypes'
    BY <2>1, <2>2, <2>4, <2>5 DEF EnterRun, DataTypes
  <2>7. QED
    BY <2>3, <2>5, <2>6 DEF TypeOK
<1>6. CASE RunRefused \/ RunHot
  <2>1. EnterRun /\ UNCHANGED <<driverVars, nSolves, results, jac, sources, adjoint, chunk>>
        /\ (pc' = "ready" => cap > 0) /\ pc' \in {"ready", "idle"}
    BY <1>6 DEF RunRefused, RunHot, EnterRun, Cold, DataTypes
  <2>2. FlagTypes'
    BY <2>1 DEF EnterRun, FlagTypes
  <2>3. runs' = runs + 1 /\ runs < MaxRuns /\ runs \in Nat /\ sources \in Nat /\ MaxRuns \in Nat
        /\ nSolves \in Nat /\ sources <= runs /\ nSolves <= runs
    BY <2>1, BatchAssumption DEF EnterRun, DataTypes
  <2>4. CountersInv'
    BY <2>1, <2>3
  <2>5. DataTypes'
    BY <2>1, <2>3, <2>4 DEF EnterRun, DataTypes
  <2>6. QED
    BY <2>2, <2>4, <2>5 DEF TypeOK
<1>7. CASE RunFails \/ SolveEnds \/ RunLeaves
  <2>1. FlagTypes'
    BY <1>7 DEF RunFails, SolveEnds, RunLeaves, FlagTypes
  <2>2. DataTypes' /\ CountersInv'
    BY <1>7 DEF RunFails, SolveEnds, RunLeaves, DataTypes
  <2>3. QED
    BY <2>1, <2>2 DEF TypeOK
<1>8. CASE SolveRefused
  <2>1. FlagTypes'
    BY <1>8 DEF SolveRefused, FlagTypes
  <2>2. DataTypes' /\ CountersInv'
    BY <1>8, BatchAssumption DEF SolveRefused, DataTypes
  <2>3. QED
    BY <2>1, <2>2 DEF TypeOK
<1>9. CASE SolveBegins
  <2>1. FlagTypes'
    BY <1>9 DEF SolveBegins, FlagTypes
  <2>2. results' \in [Row -> Value]
    BY <1>9 DEF SolveBegins, Prefill, DataTypes, Value
  <2>3. DataTypes' /\ CountersInv'
    BY <1>9, <2>2, BatchAssumption DEF SolveBegins, DataTypes
  <2>4. QED
    BY <2>1, <2>3 DEF TypeOK
<1>10. CASE SolveChunk
  <2>1. FlagTypes'
    BY <1>10 DEF SolveChunk, FlagTypes
  <2>2. runs > 0 /\ cap > 0
    BY <1>10 DEF SolveChunk, DataTypes
  <2>3. results' \in [Row -> Value] /\ jac' \in [0 .. cap - 1 -> Value]
    BY <1>10, <2>2, ChunkResultsType
  <2>4. chunk' = chunk + 1 /\ chunk < NumChunks /\ NumChunks \in Nat /\ NumChunks <= NumRows
    BY <1>10, <2>2, DriverTypes DEF SolveChunk
  <2>5. chunk' \in 0 .. NumRows
    BY <2>4, BatchAssumption DEF DataTypes
  <2>6. DataTypes' /\ CountersInv'
    BY <1>10, <2>3, <2>5 DEF SolveChunk, DataTypes
  <2>7. QED
    BY <2>1, <2>6 DEF TypeOK
<1>11. CASE SolveChunkFails
  <2>1. FlagTypes'
    BY <1>11 DEF SolveChunkFails, FlagTypes
  <2>2. runs > 0 /\ cap \in Nat /\ chunk \in Nat
    BY <1>11 DEF SolveChunkFails, DataTypes
  <2>3. ASSUME NEW l \in 0 .. cap - 1 PROVE InSlot(chunk, l, FALSE) \in Value
    <3>1. l \in Nat
      OBVIOUS
    <3>2. QED
      BY <2>2, <3>1, SlotType
  <2>4. jac' \in [0 .. cap - 1 -> Value]
    BY <1>11, <2>3 DEF SolveChunkFails
  <2>5. DataTypes' /\ CountersInv'
    BY <1>11, <2>4 DEF SolveChunkFails, DataTypes
  <2>6. QED
    BY <2>1, <2>5 DEF TypeOK
<1>12. CASE \E snapshot \in BOOLEAN : ForwardReturns(snapshot)
  <2>1. FlagTypes'
    BY <1>12 DEF ForwardReturns, FlagTypes
  <2>2. DataTypes' /\ CountersInv'
    BY <1>12 DEF ForwardReturns, DataTypes
  <2>3. QED
    BY <2>1, <2>2 DEF TypeOK
<1>13. CASE \E c \in contexts : Forget(c)
  <2>1. FlagTypes'
    BY <1>13 DEF Forget, FlagTypes
  <2>2. DataTypes' /\ CountersInv'
    BY <1>13 DEF Forget, DataTypes
  <2>3. QED
    BY <2>1, <2>2 DEF TypeOK
<1>14. ASSUME NEW c \in contexts, Backward(c) \/ BackwardFails(c) PROVE TypeOK' /\ CountersInv'
  <2>1. \/ /\ adjoint' = [factors |-> adjoint'.factors, for |-> adjoint'.for, torn |-> adjoint'.torn]
           /\ adjoint'.for \in {nSolves, -1} /\ adjoint'.torn = FALSE
        \/ adjoint' = adjoint
        \/ adjoint' = [adjoint EXCEPT !.factors = [l \in 0 .. cap - 1 |-> Unset], !.torn = TRUE]
    BY <1>14 DEF Backward, BackwardFails
  <2>2. /\ adjoint' = [factors |-> adjoint'.factors, for |-> adjoint'.for, torn |-> adjoint'.torn]
        /\ adjoint'.for \in {nSolves, -1, adjoint.for}
        /\ adjoint'.torn \in {TRUE, FALSE, adjoint.torn}
    BY <2>1 DEF DataTypes
  <2>3. /\ UNCHANGED <<stageVars, dirty, driverVars, nSolves, results, jac, keptJ, runs, sources,
                       contexts, pc, chunk>>
        /\ pc = "idle"
    BY <1>14 DEF Backward, BackwardFails
  <2>4. FlagTypes'
    BY <2>2, <2>3 DEF FlagTypes
  <2>5. DataTypes' /\ CountersInv'
    BY <2>2, <2>3 DEF DataTypes
  <2>6. QED
    BY <2>4, <2>5 DEF TypeOK
<1>15. CASE UNCHANGED vars
  <2>1. FlagTypes'
    BY <1>15 DEF vars, FlagTypes
  <2>2. DataTypes' /\ CountersInv'
    BY <1>15 DEF vars, DataTypes
  <2>3. QED
    BY <2>1, <2>2 DEF TypeOK
<1>16. QED
  BY <1>1, <1>2, <1>3, <1>4, <1>5, <1>6, <1>7, <1>8, <1>9, <1>10, <1>11, <1>12, <1>13, <1>14,
     <1>15 DEF Next

LEMMA TypeInit == Init => TypeOK /\ CountersInv
<1>. SUFFICES ASSUME Init PROVE TypeOK /\ CountersInv
  OBVIOUS
<1>1. /\ adjoint = [factors |-> adjoint.factors, for |-> adjoint.for, torn |-> adjoint.torn]
      /\ adjoint.for = -1 /\ adjoint.torn = FALSE
  BY DEF Init, NoAdjoint
<1>2. FlagTypes
  BY <1>1 DEF Init, FlagTypes
<1>3. DataTypes
  BY <1>1, BatchAssumption DEF Init, DataTypes
<1>4. CountersInv
  BY DEF Init, CountersInv
<1>5. QED
  BY <1>2, <1>3, <1>4 DEF TypeOK

(* Every number stays in its bounds, and the source of a live driver is    *)
(* laid out for the chunks the driver runs.                                *)
THEOREM TypeCorrect == Spec => [](TypeOK /\ CountersInv)
BY TypeInit, TypeNext, PTL DEF Spec

(***************************************************************************)
(* Results.  ResultsAreOwn speaks of the return only; ResultsInv says how  *)
(* far the loop over the chunks has come.                                  *)
(***************************************************************************)
(* Only the steps of solve() lead to the loop or out of it.                *)
LEMMA OutsideLoop ==
  ASSUME [Next]_vars, ~SolveBegins, ~SolveChunk, ~SolveEnds, pc' \in {"chunks", "return"}
  PROVE  UNCHANGED vars
<1>. USE DEF stageVars, driverVars
<1>1. CASE \/ \E A \in SUBSET Row : Stage(A)
           \/ \E b \in BatchSizes : SetBatchSize(b)
           \/ \E v \in BOOLEAN : SetFixedBatchCapacity(v) \/ SetKeepFinalJacobian(v)
  BY <1>1 DEF Stage, SetBatchSize, SetFixedBatchCapacity, SetKeepFinalJacobian, Configured
<1>2. CASE \/ RunCold \/ RunWarm \/ RunWarmRebuilds \/ RunHot
           \/ RunRefused \/ RunFailsToBuild \/ RunFailsInNewSource \/ RunFails
  BY <1>2
     DEF RunCold, RunWarm, RunWarmRebuilds, RunHot, RunRefused, RunFailsToBuild,
         RunFailsInNewSource, RunFails, EnterRun
<1>3. CASE SolveRefused \/ SolveChunkFails \/ RunLeaves
  BY <1>3 DEF SolveRefused, SolveChunkFails, RunLeaves
<1>4. CASE \/ \E snapshot \in BOOLEAN : ForwardReturns(snapshot)
           \/ \E c \in contexts : Forget(c) \/ Backward(c) \/ BackwardFails(c)
  BY <1>4 DEF ForwardReturns, Forget, Backward, BackwardFails
<1>5. QED
  BY <1>1, <1>2, <1>3, <1>4 DEF Next

LEMMA ResultsNext ==
  TypeOK /\ CountersInv /\ ResultsInv /\ [Next]_vars => ResultsInv'
<1>. SUFFICES ASSUME TypeOK, CountersInv, ResultsInv, [Next]_vars,
                     pc' \in {"chunks", "return"}
     PROVE  ResultsInv'
  BY DEF ResultsInv
<1>. USE DEF driverVars
<1>1. CASE SolveBegins
  <2>1. /\ UNCHANGED <<active, cap, runs>> /\ chunk' = 0 /\ pc' = "chunks" /\ cap > 0
        /\ active \in SUBSET Row /\ NumChunks \in Nat /\ NumActive \in Nat /\ cap \in Nat
    BY <1>1, DriverTypes DEF SolveBegins, TypeOK, DataTypes
  <2>2. NumActive' = NumActive /\ NumChunks' = NumChunks
    BY <2>1 DEF NumActive, NumChunks
  <2>3. ASSUME NEW r \in Row \ active PROVE results'[r] = NaN
    <3>1. NumActive < NumRows
      BY <2>1, RowSet, BatchAssumption DEF NumActive
    <3>2. QED
      BY <1>1, <3>1 DEF SolveBegins, Prefill
  <2>4. chunk' * cap' = 0 /\ chunk' <= NumChunks'
    BY <2>1, <2>2
  <2>5. \A s \in 0 .. NumActive' - 1 : ~(s < chunk' * cap')
    BY <2>4
  <2>6. QED
    BY <2>1, <2>3, <2>4, <2>5 DEF ResultsInv
<1>2. CASE SolveChunk
  <2>1. /\ UNCHANGED <<active, cap, runs, pc>> /\ chunk' = chunk + 1 /\ pc = "chunks" /\ cap > 0
        /\ active \in SUBSET Row /\ NumActive \in Nat /\ cap \in Nat /\ chunk \in Nat
        /\ NumChunks \in Nat /\ chunk < NumChunks
    BY <1>2, DriverTypes DEF SolveChunk, TypeOK, DataTypes
  <2>2. NumActive' = NumActive /\ NumChunks' = NumChunks
    BY <2>1 DEF NumActive, NumChunks
  <2>3. chunk' * cap' = chunk * cap + cap /\ chunk * cap \in Nat
    BY <2>1
  <2>4. ASSUME NEW s \in 0 .. NumActive - 1, s < chunk * cap + cap
        PROVE  results'[RowAt(active, s)] = OwnValue(RowAt(active, s), runs)
    <3>1. CASE s < chunk * cap
      <4>1. results[RowAt(active, s)] = OwnValue(RowAt(active, s), runs)
        BY <2>1, <3>1 DEF ResultsInv
      <4>2. QED
        BY <1>2, <3>1, <4>1, ChunkResults
    <3>2. CASE chunk * cap <= s
      BY <1>2, <2>4, <3>2, ChunkResults
    <3>3. QED
      BY <2>3, <3>1, <3>2
  <2>5. \A r \in Row \ active : results'[r] = NaN
    BY <1>2, <2>1, ChunkResults DEF ResultsInv
  <2>6. chunk' <= NumChunks' /\ pc' = "chunks"
    BY <2>1, <2>2
  <2>7. \A s \in 0 .. NumActive' - 1 :
           s < chunk' * cap' => results'[RowAt(active', s)] = OwnValue(RowAt(active', s), runs')
    BY <2>1, <2>2, <2>3, <2>4
  <2>8. QED
    BY <2>1, <2>5, <2>6, <2>7 DEF ResultsInv
<1>3. CASE SolveEnds
  BY <1>3 DEF SolveEnds, ResultsInv, NumActive, NumChunks
<1>4. CASE UNCHANGED vars
  BY <1>4 DEF vars, ResultsInv, NumActive, NumChunks
<1>5. QED
  BY <1>1, <1>2, <1>3, <1>4, OutsideLoop

(* The results of a run() that returns are, row by row, this run's solve   *)
(* of that row's own patches and injections, and NaN for the rows left     *)
(* out, for any compaction and any number of chunks.                       *)
THEOREM ResultsCorrect == Spec => []ResultsAreOwn
<1>1. Init => ResultsInv
  BY DEF Init, ResultsInv
<1>2. TypeOK /\ CountersInv /\ ResultsInv /\ [Next]_vars => ResultsInv'
  BY ResultsNext
<1>3. TypeOK /\ ResultsInv => ResultsAreOwn
  <2>. SUFFICES ASSUME TypeOK, ResultsInv, pc = "return"
       PROVE  results = [r \in Row |-> IF r \in active THEN OwnValue(r, runs) ELSE NaN]
    BY DEF ResultsAreOwn
  <2>1. /\ active \in SUBSET Row /\ cap \in Nat \ {0} /\ NumActive \in Nat
        /\ results \in [Row -> Value]
    BY DriverTypes DEF TypeOK, DataTypes
  <2>2. NumActive <= chunk * cap
    BY <2>1, CeilDivCovers DEF ResultsInv, NumChunks
  <2>3. ASSUME NEW r \in active PROVE results[r] = OwnValue(r, runs)
    <3>1. Rank(active, r) \in 0 .. NumActive - 1 /\ RowAt(active, Rank(active, r)) = r
      BY <2>1, RankBounds, RowAtOfRank DEF NumActive
    <3>2. Rank(active, r) < chunk * cap
      <4>1. chunk * cap \in Int
        BY <2>1, DriverTypes
      <4>2. QED
        BY <2>1, <2>2, <3>1, <4>1
    <3>3. QED
      BY <3>1, <3>2 DEF ResultsInv
  <2>4. \A r \in Row \ active : results[r] = NaN
    BY DEF ResultsInv
  <2>5. QED
    BY <2>1, <2>3, <2>4
<1>4. QED
  BY <1>1, <1>2, <1>3, TypeCorrect, PTL DEF Spec

(***************************************************************************)
(* Capacity.  What a driver kept alive was measured against.               *)
(***************************************************************************)
LEMMA NewDriverFits ==
  ASSUME TypeOK, NewDriver
  PROVE  /\ Chunks(active', cap') <= Chunks(active', batchSize)
         /\ Chunks(active', cap') \in Nat /\ Chunks(active', batchSize) \in Nat
         /\ builtWith' = <<batchSize, fixedCap>> /\ (fixedCap => cap' = batchSize)
<1>1. /\ active' = kept /\ kept \in SUBSET Row /\ batchSize \in Nat \ {0}
      /\ builtWith' = <<batchSize, fixedCap>>
      /\ cap' = (IF fixedCap THEN batchSize ELSE Balanced(kept))
  BY DriverTypes DEF NewDriver, TypeOK, DataTypes
<1>2. cap' \in Nat \ {0}
  BY NewDriverTypes
<1>3. \A c \in Nat \ {0} : Chunks(kept, c) \in Nat
  BY <1>1, RowSet, CeilDivCovers DEF Chunks
<1>4. Chunks(kept, cap') <= Chunks(kept, batchSize)
  <2>1. CASE fixedCap
    <3>1. cap' = batchSize
      BY <1>1, <2>1
    <3>2. QED
      BY <1>1, <1>3, <3>1
  <2>2. CASE ~fixedCap
    BY <1>1, <2>2, BalancedFits
  <2>3. QED
    BY <2>1, <2>2
<1>5. QED
  BY <1>1, <1>2, <1>3, <1>4

LEMMA CapacityNext ==
  TypeOK /\ CapacityInv /\ [Next]_vars => CapacityInv'
<1>. SUFFICES ASSUME TypeOK, CapacityInv, [Next]_vars PROVE CapacityInv'
  OBVIOUS
<1>. USE DEF stageVars, driverVars
<1>1. CASE RunCold \/ RunWarmRebuilds
  <2>1. /\ NewDriver /\ pc' = "ready" /\ UNCHANGED <<batchSize, fixedCap, keepJ, dirty>>
        /\ batchSize \in BatchSizes /\ fixedCap \in BOOLEAN
    BY <1>1 DEF RunCold, RunWarmRebuilds, EnterRun, TypeOK, DataTypes, FlagTypes
  <2>2. NumChunks' = Chunks(active', cap')
    BY DEF NumChunks, NumActive, Chunks
  <2>3. /\ NumChunks' <= Chunks(active', batchSize)
        /\ NumChunks' \in Nat /\ Chunks(active', batchSize) \in Nat
        /\ builtWith' = <<batchSize, fixedCap>> /\ (fixedCap => cap' = batchSize)
    BY <2>1, <2>2, NewDriverFits
  <2>4. builtWith'[1] = batchSize /\ builtWith'[2] = fixedCap
    BY <2>3
  <2>5. NumChunks' <= 2 * Chunks(active', builtWith'[1])
    BY <2>3, <2>4
  <2>6. NumChunks' > 1 => Chunks(active', batchSize') > 1
    BY <2>1, <2>3
  <2>7. QED
    BY <2>1, <2>3, <2>4, <2>5, <2>6 DEF CapacityInv
<1>2. CASE RunWarm
  <2>1. /\ active' = kept /\ pc' = "ready"
        /\ UNCHANGED <<batchSize, fixedCap, keepJ, dirty, cap, builtWith>>
        /\ ~Cold /\ (fixedCap \/ ~TooManyChunks)
    BY <1>2 DEF RunWarm, EnterRun, ReplaceSource, Warm
  <2>2. cap \in Nat \ {0} /\ builtWith = <<batchSize, fixedCap>> /\ kept \in SUBSET Row
        /\ batchSize \in Nat \ {0}
    BY <2>1, DriverTypes DEF Cold, TypeOK, DataTypes
  <2>3. builtWith[1] = batchSize /\ builtWith[2] = fixedCap
    BY <2>2
  <2>4. NumChunks' = Chunks(kept, cap)
    BY <2>1 DEF NumChunks, NumActive, Chunks
  <2>5. Chunks(kept, cap) \in Nat /\ Chunks(kept, batchSize) \in Nat
    BY <2>2, RowSet, CeilDivCovers DEF Chunks
  <2>6. /\ Chunks(kept, cap) <= 2 * Chunks(kept, batchSize)
        /\ keepJ /\ Chunks(kept, cap) > 1 => Chunks(kept, batchSize) > 1
    <3>1. CASE fixedCap
      <4>1. cap = batchSize
        BY <2>2, <2>3, <3>1 DEF CapacityInv
      <4>2. QED
        BY <2>5, <4>1
    <3>2. CASE ~TooManyChunks
      BY <2>5, <3>2 DEF TooManyChunks
    <3>3. QED
      BY <2>1, <3>1, <3>2
  <2>7. QED
    BY <2>1, <2>2, <2>3, <2>4, <2>6 DEF CapacityInv
<1>3. CASE RunFailsInNewSource
  <2>1. /\ pc' = "idle" /\ dirty' /\ UNCHANGED <<cap, builtWith>>
    BY <1>3 DEF RunFailsInNewSource, EnterRun, Warm
  <2>2. QED
    BY <2>1 DEF CapacityInv
<1>4. CASE RunFailsToBuild
  BY <1>4 DEF RunFailsToBuild, EnterRun, CapacityInv
<1>5. CASE RunHot \/ RunRefused
  <2>1. /\ UNCHANGED <<batchSize, fixedCap, keepJ, dirty, cap, builtWith, active>>
        /\ pc = "idle"
        /\ pc' = "idle" \/ (pc' = "ready" /\ ~dirty /\ builtWith = <<batchSize, fixedCap>>)
    BY <1>5 DEF RunHot, RunRefused, EnterRun, Cold
  <2>2. NumChunks' = NumChunks
    BY <2>1 DEF NumChunks, NumActive
  <2>3. QED
    BY <2>1, <2>2 DEF CapacityInv
<1>6. CASE \/ \E A \in SUBSET Row : Stage(A)
           \/ \E b \in BatchSizes : SetBatchSize(b)
           \/ \E v \in BOOLEAN : SetFixedBatchCapacity(v) \/ SetKeepFinalJacobian(v)
  <2>1. UNCHANGED <<cap, builtWith, active>> /\ pc' = "idle" /\ (dirty' = dirty \/ dirty' = TRUE)
    BY <1>6 DEF Stage, SetBatchSize, SetFixedBatchCapacity, SetKeepFinalJacobian, Configured
  <2>2. NumChunks' = NumChunks
    BY <2>1 DEF NumChunks, NumActive
  <2>3. QED
    BY <2>1, <2>2 DEF CapacityInv
<1>7. CASE SolveRefused
  <2>1. /\ UNCHANGED <<batchSize, fixedCap, keepJ, dirty, cap, builtWith, active>>
        /\ pc = "ready" /\ pc' = "refused" /\ keepJ /\ NumChunks > 1
    BY <1>7 DEF SolveRefused, RefusesChunks
  <2>2. NumChunks' = NumChunks
    BY <2>1 DEF NumChunks, NumActive
  <2>3. QED
    BY <2>1, <2>2 DEF CapacityInv
<1>8. CASE SolveBegins \/ SolveChunk \/ SolveChunkFails \/ SolveEnds \/ RunLeaves \/ RunFails
  <2>1. /\ UNCHANGED <<batchSize, fixedCap, keepJ, cap, builtWith, active>>
        /\ pc # "idle" /\ pc' \notin {"ready", "refused"}
    BY <1>8 DEF SolveBegins, SolveChunk, SolveChunkFails, SolveEnds, RunLeaves, RunFails
  <2>2. NumChunks' = NumChunks
    BY <2>1 DEF NumChunks, NumActive
  <2>3. QED
    BY <2>1, <2>2 DEF CapacityInv
<1>9. CASE \/ \E snapshot \in BOOLEAN : ForwardReturns(snapshot)
           \/ \E c \in contexts : Forget(c) \/ Backward(c) \/ BackwardFails(c)
           \/ UNCHANGED vars
  <2>1. /\ UNCHANGED <<batchSize, fixedCap, keepJ, dirty, cap, builtWith, active>>
        /\ pc' = "idle" \/ pc' = pc
        /\ pc' # "idle" => pc # "idle"
        /\ pc' = "idle" => pc \in {"idle", "return"}
    BY <1>9 DEF ForwardReturns, Forget, Backward, BackwardFails, vars
  <2>2. NumChunks' = NumChunks
    BY <2>1 DEF NumChunks, NumActive
  <2>3. QED
    BY <2>1, <2>2 DEF CapacityInv
<1>10. QED
  BY <1>1, <1>2, <1>3, <1>4, <1>5, <1>6, <1>7, <1>8, <1>9 DEF Next

(* A live driver's capacity fits the batch: it never needs more than twice *)
(* the chunks of one made for it, and a changed batch is refused for       *)
(* keep_final_jacobian only when batch_size is too small for it.           *)
THEOREM CapacityCorrect == Spec => []CapacityFitsBatch
<1>1. Init => CapacityInv
  BY DEF Init, CapacityInv
<1>2. TypeOK /\ CapacityInv /\ [Next]_vars => CapacityInv'
  BY CapacityNext
<1>3. CapacityInv => CapacityFitsBatch
  <2>. SUFFICES ASSUME CapacityInv PROVE CapacityFitsBatch
    OBVIOUS
  <2>1. pc # "idle" => builtWith[1] = batchSize
    BY DEF CapacityInv
  <2>2. ChunksBounded
    BY <2>1 DEF CapacityInv, ChunksBounded
  <2>3. RebuildsBeforeRefusing
    BY DEF CapacityInv, RebuildsBeforeRefusing
  <2>4. QED
    BY <2>2, <2>3 DEF CapacityFitsBatch
<1>4. QED
  BY <1>1, <1>2, <1>3, TypeCorrect, PTL DEF Spec

(***************************************************************************)
(* The kept Jacobians, the factors and the forward contexts.               *)
(***************************************************************************)
RunEnters ==
    \/ RunCold \/ RunWarm \/ RunWarmRebuilds \/ RunHot
    \/ RunRefused \/ RunFailsToBuild \/ RunFailsInNewSource

LEMMA RunEntersAfresh ==
  ASSUME RunEnters
  PROVE  EnterRun /\ pc' \in {"idle", "ready"} /\ keptJ' = FALSE /\ gradient' = NoGradient
BY DEF RunEnters, RunCold, RunWarm, RunWarmRebuilds, RunHot, RunRefused, RunFailsToBuild,
       RunFailsInNewSource, EnterRun

(* What neither enters a run(), solves nor reads J.                        *)
Aside ==
    \/ \E A \in SUBSET Row : Stage(A)
    \/ \E b \in BatchSizes : SetBatchSize(b)
    \/ \E v \in BOOLEAN : SetFixedBatchCapacity(v) \/ SetKeepFinalJacobian(v)
    \/ RunFails \/ RunLeaves \/ UNCHANGED vars
    \/ \E snapshot \in BOOLEAN : ForwardReturns(snapshot)
    \/ \E c \in contexts : Forget(c)

LEMMA AsideKeeps ==
  ASSUME Aside
  PROVE  /\ UNCHANGED <<driverVars, nSolves, results, jac, keptJ, runs, sources, adjoint, chunk>>
         /\ \/ pc' = "idle" \/ UNCHANGED <<pc, keepJ>>
BY DEF Aside, Stage, SetBatchSize, SetFixedBatchCapacity, SetKeepFinalJacobian, Configured,
       RunFails, RunLeaves, ForwardReturns, Forget, vars, stageVars, driverVars

LEMMA StepsByKind ==
  ASSUME [Next]_vars
  PROVE  \/ RunEnters \/ Aside
         \/ SolveRefused \/ SolveBegins \/ SolveChunk \/ SolveChunkFails \/ SolveEnds
         \/ \E c \in contexts : Backward(c) \/ BackwardFails(c)
BY DEF Next, RunEnters, Aside

LEMMA JacobianNext ==
  TypeOK /\ CountersInv /\ JacobianInv /\ [Next]_vars => JacobianInv'
<1>. SUFFICES ASSUME TypeOK, CountersInv, JacobianInv, [Next]_vars PROVE JacobianInv'
  OBVIOUS
<1>. USE DEF driverVars, KeptJacobianCoversBatch
<1>1. CASE RunEnters
  BY <1>1, RunEntersAfresh DEF JacobianInv
<1>2. CASE Aside
  <2>1. /\ UNCHANGED <<active, cap, nSolves, jac, keptJ, runs, adjoint, chunk>>
        /\ pc' = "idle" \/ UNCHANGED <<pc, keepJ>>
    BY <1>2, AsideKeeps
  <2>2. NumActive' = NumActive /\ NumChunks' = NumChunks
    BY <2>1 DEF NumActive, NumChunks
  <2>3. QED
    BY <2>1, <2>2 DEF JacobianInv
<1>3. CASE SolveRefused
  BY <1>3 DEF SolveRefused, JacobianInv
<1>4. CASE SolveBegins
  <2>1. /\ ~keptJ' /\ pc' = "chunks" /\ chunk' = 0 /\ UNCHANGED <<keepJ, active, cap>>
        /\ ~RefusesChunks /\ cap > 0
    BY <1>4 DEF SolveBegins, JacobianInv, stageVars, TypeOK, DataTypes
  <2>2. NumChunks' = NumChunks /\ NumChunks \in Nat
    BY <2>1, DriverTypes DEF NumActive, NumChunks
  <2>3. keepJ => NumChunks <= 1
    BY <2>1, <2>2 DEF RefusesChunks
  <2>4. QED
    BY <2>1, <2>2, <2>3 DEF JacobianInv
<1>5. CASE SolveChunk
  <2>1. /\ ~keptJ' /\ pc = "chunks" /\ chunk' = chunk + 1 /\ chunk \in Nat
        /\ UNCHANGED <<keepJ, active, cap, runs, pc>>
        /\ chunk < NumChunks /\ cap \in Nat \ {0} /\ NumActive \in Nat
        /\ jac' = [l \in 0 .. cap - 1 |-> InSlot(chunk, l, keepJ)]
    BY <1>5, DriverTypes DEF SolveChunk, JacobianInv, stageVars, TypeOK, DataTypes
  <2>2. NumChunks' = NumChunks /\ NumActive' = NumActive /\ NumChunks \in Nat
    BY <2>1, DriverTypes DEF NumActive, NumChunks
  <2>3. ASSUME keepJ, NEW s \in 0 .. NumActive - 1
        PROVE  jac'[s] = OwnValue(RowAt(active, s), runs)
    <3>1. NumChunks <= 1 /\ chunk = 0
      BY <2>1, <2>2, <2>3 DEF JacobianInv
    <3>2. NumActive <= cap
      BY <2>1, <3>1, CeilDivSmall DEF NumChunks
    <3>3. s \in Nat /\ s < cap /\ s < NumActive
      BY <2>1, <3>2
    <3>4. 0 * cap + s = s
      BY <2>1, <3>3
    <3>5. s < Actual(0)
      BY <3>3, <3>4, ActualSlots
    <3>6. keepJ = TRUE
      BY <2>3 DEF TypeOK, FlagTypes
    <3>7. InSlot(0, s, keepJ) = OwnValue(RowAt(active, s), runs)
      <4>1. InSlot(0, s, keepJ) =
              [kind |-> "computed", patches |-> RowAt(active, 0 * cap + s),
               sbus |-> RowAt(active, 0 * cap + s), run |-> runs, final |-> keepJ]
        BY <3>3, <3>5, SlotOfRow
      <4>2. RowAt(active, 0 * cap + s) = RowAt(active, s)
        BY <3>4
      <4>3. QED
        BY <3>6, <4>1, <4>2 DEF OwnValue
    <3>8. s \in 0 .. cap - 1
      BY <2>1, <3>3
    <3>9. QED
      BY <2>1, <3>1, <3>7, <3>8
  <2>4. keepJ => NumChunks <= 1
    BY <2>1 DEF JacobianInv
  <2>5. QED
    BY <2>1, <2>2, <2>3, <2>4 DEF JacobianInv
<1>6. CASE SolveChunkFails
  BY <1>6 DEF SolveChunkFails, JacobianInv
<1>7. CASE SolveEnds
  <2>1. /\ keptJ' = keepJ /\ pc = "chunks" /\ pc' = "return" /\ chunk = NumChunks
        /\ UNCHANGED <<keepJ, active, cap, runs, chunk, jac, adjoint, nSolves>>
        /\ cap \in Nat \ {0} /\ NumActive \in Nat /\ NumChunks \in Nat
    BY <1>7, DriverTypes DEF SolveEnds, stageVars, TypeOK, DataTypes
  <2>2. NumChunks' = NumChunks /\ NumActive' = NumActive
    BY <2>1 DEF NumActive, NumChunks
  <2>3. ASSUME keepJ, NEW s \in 0 .. NumActive - 1
        PROVE  s < cap /\ jac[s] = OwnValue(RowAt(active, s), runs)
    <3>1. NumChunks <= 1
      BY <2>1, <2>3 DEF JacobianInv
    <3>2. NumActive <= cap /\ NumChunks # 0
      BY <2>1, <2>3, <3>1, CeilDivSmall DEF NumChunks
    <3>3. chunk = 1
      BY <2>1, <3>1, <3>2
    <3>4. QED
      BY <2>1, <2>3, <3>2, <3>3 DEF JacobianInv
  <2>4. adjoint.for < nSolves /\ adjoint.for \in Int /\ nSolves \in Int
    BY <2>1 DEF CountersInv, TypeOK, DataTypes
  <2>5. keepJ => NumChunks <= 1
    BY <2>1 DEF JacobianInv
  <2>6. QED
    BY <2>1, <2>2, <2>3, <2>4, <2>5 DEF JacobianInv
<1>8. ASSUME NEW c \in contexts, Backward(c) PROVE JacobianInv'
  <2>1. /\ UNCHANGED <<active, cap, nSolves, jac, keptJ, runs, chunk, pc, keepJ>>
        /\ pc = "idle"
    BY <1>8 DEF Backward, stageVars
  <2>2. NumActive' = NumActive /\ NumChunks' = NumChunks
    BY <2>1 DEF NumActive, NumChunks
  <2>3. \/ adjoint' = adjoint
        \/ adjoint'.for = nSolves /\ adjoint'.factors = jac
        \/ adjoint'.for = -1
    BY <1>8 DEF Backward
  <2>4. nSolves \in Nat
    BY DEF TypeOK, DataTypes
  <2>5. keptJ /\ adjoint'.for = nSolves /\ ~adjoint'.torn => adjoint'.factors = jac
    BY <2>3, <2>4 DEF JacobianInv
  <2>6. QED
    BY <2>1, <2>2, <2>5 DEF JacobianInv
<1>9. ASSUME NEW c \in contexts, BackwardFails(c) PROVE JacobianInv'
  <2>1. /\ UNCHANGED <<active, cap, nSolves, jac, keptJ, runs, chunk, pc, keepJ>>
        /\ pc = "idle" /\ adjoint'.torn
    BY <1>9 DEF BackwardFails, stageVars, TypeOK, DataTypes
  <2>2. NumActive' = NumActive /\ NumChunks' = NumChunks
    BY <2>1 DEF NumActive, NumChunks
  <2>3. QED
    BY <2>1, <2>2 DEF JacobianInv
<1>10. QED
  BY <1>1, <1>2, <1>3, <1>4, <1>5, <1>6, <1>7, <1>8, <1>9, StepsByKind

LEMMA ContextsNext ==
  TypeOK /\ JacobianInv /\ ContextsInv /\ [Next]_vars => ContextsInv'
<1>. SUFFICES ASSUME TypeOK, JacobianInv, ContextsInv, [Next]_vars PROVE ContextsInv'
  OBVIOUS
<1>. USE DEF driverVars
<1>0. runs \in Nat /\ sources \in Nat
  BY DEF TypeOK, DataTypes
<1>1. CASE RunEnters
  <2>1. contexts' = contexts /\ runs' = runs + 1
    BY <1>1, RunEntersAfresh DEF EnterRun
  <2>2. \/ sources' = sources + 1
        \/ sources' = sources /\ (uncounted' \/ cap' = 0 \/ UNCHANGED <<uncounted, cap, active>>)
    BY <1>1
       DEF RunEnters, RunCold, RunWarm, RunWarmRebuilds, RunHot, RunRefused, RunFailsToBuild,
           RunFailsInNewSource, NewDriver, ReplaceSource
  <2>3. ASSUME NEW c \in contexts
        PROVE  /\ c.run \in 0 .. runs' /\ c.source \in 0 .. sources' /\ c.run # runs'
               /\ c.source = sources' /\ ~uncounted' /\ cap' > 0 => c.rows = active'
    <3>1. c.run \in 0 .. runs /\ c.source \in 0 .. sources
      BY DEF ContextsInv
    <3>2. c.source = sources /\ ~uncounted /\ cap > 0 => c.rows = active
      BY DEF ContextsInv
    <3>3. c.source # sources + 1
      BY <1>0, <3>1
    <3>4. c.source \in 0 .. sources'
      BY <1>0, <2>2, <3>1
    <3>5. c.run \in 0 .. runs' /\ c.run # runs'
      BY <1>0, <2>1, <3>1
    <3>6. ASSUME c.source = sources', ~uncounted', cap' > 0 PROVE c.rows = active'
      BY <2>2, <3>2, <3>3, <3>6
    <3>7. QED
      BY <3>4, <3>5, <3>6
  <2>4. QED
    BY <2>1, <2>3 DEF ContextsInv
<1>2. CASE \E snapshot \in BOOLEAN : ForwardReturns(snapshot)
  <2>. PICK snapshot \in BOOLEAN : ForwardReturns(snapshot)
    BY <1>2
  <2>. DEFINE new == [run |-> runs, source |-> sources, rows |-> active,
                      J |-> IF snapshot THEN jac ELSE <<>>]
  <2>1. /\ contexts' = contexts \cup {new} /\ keptJ
        /\ UNCHANGED <<active, cap, uncounted, runs, sources>>
    BY DEF ForwardReturns, Counters
  <2>2. /\ new.run \in 0 .. runs /\ new.source \in 0 .. sources /\ new.rows = active
        /\ new.run = runs /\ active \subseteq Row
    BY <1>0 DEF TypeOK, DataTypes
  <2>3. ~OwnJ(new) => new.J = jac
    BY DEF OwnJ
  <2>4. \A s \in 0 .. Cardinality(active) - 1 : jac[s] = OwnValue(RowAt(active, s), runs)
    BY <2>1 DEF JacobianInv, KeptJacobianCoversBatch, NumActive
  <2>. HIDE DEF new
  <2>5. ASSUME NEW c \in contexts' PROVE c \in contexts \/ c = new
    BY <2>1
  <2>6. QED
    BY <2>1, <2>2, <2>3, <2>4, <2>5 DEF ContextsInv
<1>3. CASE SolveRefused \/ SolveBegins \/ SolveChunk \/ SolveChunkFails \/ SolveEnds
  <2>1. UNCHANGED <<contexts, runs, sources, active, uncounted, cap>>
    BY <1>3 DEF SolveRefused, SolveBegins, SolveChunk, SolveChunkFails, SolveEnds
  <2>2. QED
    BY <2>1 DEF ContextsInv
<1>4. CASE \/ \E A \in SUBSET Row : Stage(A)
           \/ \E b \in BatchSizes : SetBatchSize(b)
           \/ \E v \in BOOLEAN : SetFixedBatchCapacity(v) \/ SetKeepFinalJacobian(v)
           \/ RunFails \/ RunLeaves \/ UNCHANGED vars
  BY <1>4
     DEF Stage, SetBatchSize, SetFixedBatchCapacity, SetKeepFinalJacobian, Configured, RunFails,
         RunLeaves, vars, ContextsInv
<1>5. CASE \E c \in contexts : Forget(c) \/ Backward(c) \/ BackwardFails(c)
  <2>1. contexts' \subseteq contexts /\ UNCHANGED <<runs, sources, active, uncounted, cap>>
    BY <1>5 DEF Forget, Backward, BackwardFails
  <2>2. QED
    BY <2>1 DEF ContextsInv
<1>6. QED
  BY <1>1, <1>2, <1>3, <1>4, <1>5 DEF Next, RunEnters

(* What a backward() returns, when neither its factors nor its source are  *)
(* those of a library call that failed half-way.                           *)
LEMMA BackwardIsOwn ==
  ASSUME TypeOK, JacobianInv, ContextsInv, NEW c \in contexts, Backward(c),
         ~adjoint'.torn, ~uncounted
  PROVE  gradient'.of = c /\
         gradient'.rows = [r \in Row |-> IF r \in c.rows THEN OwnValue(r, c.run) ELSE Unset]
<1>. DEFINE Slots == 0 .. NumActive - 1
            SlotOf(r) == CHOOSE s \in Slots : ResultRow(s) = r
<1>1. /\ active \in SUBSET Row /\ NumActive \in Nat /\ nSolves \in Nat
      /\ cap > 0 /\ BackwardAllowed(c)
  BY DriverTypes DEF Backward, BackwardAllowed, TypeOK, DataTypes
<1>2. c.rows = active
  BY <1>1 DEF BackwardAllowed, ContextIsCurrent, Counters, ContextsInv
<1>3. ASSUME NEW s \in Slots PROVE adjoint'.factors[s] = OwnValue(RowAt(active, s), c.run)
  <2>1. CASE OwnJ(c)
    <3>1. keptJ /\ c.run = runs
      BY <1>1, <2>1 DEF BackwardAllowed, ContextIsCurrent, Counters
    <3>2. adjoint'.factors = jac
      <4>1. CASE NeedsFactors(c)
        BY <2>1, <4>1 DEF Backward
      <4>2. CASE ~NeedsFactors(c)
        <5>1. adjoint' = adjoint /\ adjoint.for = nSolves
          BY <4>2 DEF Backward, NeedsFactors
        <5>2. QED
          BY <3>1, <5>1 DEF JacobianInv
      <4>3. QED
        BY <4>1, <4>2
    <3>3. QED
      BY <3>1, <3>2 DEF JacobianInv, KeptJacobianCoversBatch
  <2>2. CASE ~OwnJ(c)
    <3>1. adjoint'.factors = c.J
      BY <2>2 DEF Backward, NeedsFactors
    <3>2. c.J[s] = OwnValue(RowAt(c.rows, s), c.run)
      BY <1>2, <2>2 DEF ContextsInv, NumActive
    <3>3. QED
      BY <1>2, <3>1, <3>2
  <2>3. QED
    BY <2>1, <2>2
<1>4. /\ gradient'.of = c
      /\ gradient'.rows = [r \in Row |-> IF \E s \in Slots : ResultRow(s) = r
                                           THEN adjoint'.factors[SlotOf(r)] ELSE Unset]
  BY DEF Backward
<1>5. \A s \in Slots : ResultRow(s) = RowAt(active, s)
  BY <1>1, ResultRowIsRowAt
<1>6. ASSUME NEW r \in active
      PROVE  /\ \E s \in Slots : ResultRow(s) = r
             /\ adjoint'.factors[SlotOf(r)] = OwnValue(r, c.run)
  <2>1. Rank(active, r) \in Slots /\ RowAt(active, Rank(active, r)) = r
    BY <1>1, RankBounds, RowAtOfRank DEF NumActive
  <2>2. \E s \in Slots : ResultRow(s) = r
    BY <1>5, <2>1
  <2>3. SlotOf(r) \in Slots /\ ResultRow(SlotOf(r)) = r
    BY <2>2
  <2>. HIDE DEF SlotOf
  <2>4. RowAt(active, SlotOf(r)) = r
    BY <1>5, <2>3
  <2>5. QED
    BY <1>3, <2>2, <2>3, <2>4 DEF SlotOf
<1>7. ASSUME NEW r \in Row \ active PROVE ~\E s \in Slots : ResultRow(s) = r
  BY <1>1, <1>5, RowAtNumbers DEF NumActive
<1>. HIDE DEF SlotOf, Slots
<1>8. gradient'.rows = [r \in Row |-> IF r \in active THEN OwnValue(r, c.run) ELSE Unset]
  BY <1>4, <1>6, <1>7
<1>9. QED
  BY <1>2, <1>4, <1>8

LEMMA GradientNext ==
  TypeOK /\ JacobianInv /\ ContextsInv /\ GradientIsOwnForward /\ [Next]_vars =>
    GradientIsOwnForward'
<1>. SUFFICES ASSUME TypeOK, JacobianInv, ContextsInv, GradientIsOwnForward, [Next]_vars
     PROVE  GradientIsOwnForward'
  OBVIOUS
<1>. USE DEF driverVars, GradientIsOwnForward, GradientsAreOwn
<1>1. CASE gradient' = NoGradient
  BY <1>1 DEF NoGradient
<1>2. CASE UNCHANGED <<gradient, adjoint, uncounted>>
  BY <1>2
<1>3. ASSUME NEW c \in contexts, Backward(c) PROVE GradientIsOwnForward'
  <2>1. UNCHANGED uncounted
    BY <1>3 DEF Backward
  <2>2. ASSUME ~adjoint'.torn, ~uncounted'
        PROVE  gradient'.of = c /\
               gradient'.rows = [r \in Row |-> IF r \in c.rows THEN OwnValue(r, c.run) ELSE Unset]
    BY <1>3, <2>1, <2>2, BackwardIsOwn
  <2>3. QED
    BY <2>2
<1>4. CASE RunEnters
  BY <1>1, <1>4, RunEntersAfresh
<1>5. CASE Aside
  BY <1>1, <1>2, <1>5
     DEF Aside, Stage, SetBatchSize, SetFixedBatchCapacity, SetKeepFinalJacobian, Configured,
         RunFails, RunLeaves, ForwardReturns, Forget, vars
<1>6. CASE SolveRefused \/ SolveBegins \/ SolveChunk \/ SolveChunkFails \/ SolveEnds
  BY <1>2, <1>6 DEF SolveRefused, SolveBegins, SolveChunk, SolveChunkFails, SolveEnds
<1>7. CASE \E c \in contexts : BackwardFails(c)
  BY <1>1, <1>7 DEF BackwardFails
<1>8. QED
  BY <1>3, <1>4, <1>5, <1>6, <1>7, StepsByKind

LEMMA GradientInit ==
  Init => JacobianInv /\ ContextsInv /\ GradientIsOwnForward
BY DEF Init, JacobianInv, KeptJacobianCoversBatch, ContextsInv, GradientIsOwnForward,
       GradientsAreOwn, NoGradient

(* What a backward() reads is of its own forward: the driver's J while it  *)
(* may be read, a snapshot, or the factors of an earlier backward(), with  *)
(* any number of other forwards, new sources and failed runs in between.   *)
THEOREM BackwardCorrect == Spec => []BackwardReadsItsForward
<1>1. TypeOK /\ CountersInv /\ JacobianInv /\ ContextsInv /\ GradientIsOwnForward /\ [Next]_vars
        => JacobianInv' /\ ContextsInv' /\ GradientIsOwnForward'
  BY JacobianNext, ContextsNext, GradientNext
<1>2. JacobianInv /\ GradientIsOwnForward => BackwardReadsItsForward
  BY DEF JacobianInv, BackwardReadsItsForward
<1>3. QED
  BY <1>1, <1>2, GradientInit, TypeCorrect, PTL DEF Spec

-----------------------------------------------------------------------------
(* The contingency analysis: the invariant.                                 *)

(* A session is a record of these fields, its driver one of those.          *)
AnalysisFields ==
  {"built", "data", "list", "hasList", "flags", "mask", "rd", "rdData", "solver", "auto",
   "forced", "gridRef", "refBus", "baseRef", "choice", "newRows", "check", "limits",
   "capacity", "hasViolations", "driver"}
DriverFields == {"alive", "rows", "mask", "rd", "ref", "solver", "solved", "viol"}
IsAnalysis(r) == DOMAIN r = AnalysisFields /\ DOMAIN r.driver = DriverFields

(* A driver whose rows are not marked stale is of the rows, of the slack    *)
(* participants and of the flags of now, errors apart.                      *)
RowsCurrent(r, l) ==
  r.driver.alive /\ ~r.newRows =>
    /\ r.driver.rd = (IF r.rd THEN r.rdData ELSE Null)
    /\ "list" \notin l => r.driver.rows = r.list
    /\ l \cap {"list", "flags"} = {} => r.flags = Engine!Mode(r.driver)

(* A driver has the reference of the base state, and the reference cached   *)
(* is the one the list asks for.                                            *)
ReferenceCurrent(r, l) ==
  /\ r.driver.alive => r.driver.ref = r.baseRef
  /\ "base" \notin l => r.baseRef = r.refBus
  /\ "list" \notin l /\ r.choice # Null => r.choice = Engine!Pick(r)

AnalysisSound(r, l) == IsAnalysis(r) /\ RowsCurrent(r, l) /\ ReferenceCurrent(r, l)

ReferenceAsked(r) ==
  IF r.built = "bridge" /\ ~r.forced /\ r.auto /\ r.mask THEN Engine!Choose(r.list)
  ELSE r.gridRef

RunSettled(r, l) ==
  /\ r.driver.alive /\ ~r.newRows
  /\ r.driver.mask = r.mask /\ r.driver.solver = r.solver
  /\ "list" \notin l => r.refBus = ReferenceAsked(r)

AnalysisInv ==
  AnalysisSound(analysis, lapse) /\ (outcome = "computed" => RunSettled(analysis, lapse))

-----------------------------------------------------------------------------
(* Of a session and of another that differs in no field read here.          *)
SameSource(q, r) ==
  /\ IsAnalysis(q) /\ q.driver = r.driver /\ q.list = r.list /\ q.flags = r.flags
  /\ q.refBus = r.refBus /\ q.baseRef = r.baseRef
  /\ q.gridRef = r.gridRef /\ q.forced = r.forced

LEMMA SameSourceSound ==
  ASSUME NEW r, NEW l, AnalysisSound(r, l), NEW q, SameSource(q, r),
         q.choice = r.choice \/ q.choice = Null,
         q.newRows \/ (~r.newRows /\ q.rd = r.rd /\ q.rdData = r.rdData)
  PROVE  AnalysisSound(q, l)
<1>1. RowsCurrent(q, l)
  BY DEF AnalysisSound, RowsCurrent, SameSource
<1>2. ReferenceCurrent(q, l)
  BY DEF AnalysisSound, ReferenceCurrent, SameSource, Engine!Pick
<1>3. QED
  BY <1>1, <1>2 DEF AnalysisSound, SameSource

(* An error forgotten takes nothing away; only these three are read.       *)
LEMMA FewerLapses ==
  ASSUME NEW r, NEW l, NEW m, l \cap {"list", "base", "flags"} \subseteq m, AnalysisSound(r, l)
  PROVE  AnalysisSound(r, m)
<1>1. RowsCurrent(r, m)
  BY DEF AnalysisSound, RowsCurrent
<1>2. ReferenceCurrent(r, m)
  BY DEF AnalysisSound, ReferenceCurrent
<1>3. QED
  BY <1>1, <1>2 DEF AnalysisSound

(* A call that is not a run() that returned.                               *)
LEMMA NothingComputed ==
  ASSUME NEW q, analysis' = q, AnalysisSound(q, lapse'), outcome' # "computed"
  PROVE  AnalysisInv'
<1>1. AnalysisSound(analysis, lapse)'
  BY DEF AnalysisSound, RowsCurrent, ReferenceCurrent, IsAnalysis
<1>2. QED
  BY <1>1 DEF AnalysisInv

-----------------------------------------------------------------------------
(* Setters: rows, slack data and lists mark the source stale.               *)
LEMMA OptionSetters ==
  ASSUME AnalysisInv,
         \/ \E d \in Data : Engine!SetBranchData(d)
         \/ \E v \in BOOLEAN : Engine!SetHandleDisconnectedGrid(v)
         \/ \E k \in Capacities : Engine!SetCapacity(k)
         \/ \E x \in Solvers : Engine!SetSolver(x)
         \/ \E v \in BOOLEAN : Engine!SetReferenceSlack(v)
         \/ \E v \in BOOLEAN : Engine!SetComputeLimitViolations(v)
         \/ \E l \in Limits : Engine!SetLimits(l)
  PROVE  AnalysisInv'
<1>1. /\ SameSource(analysis', analysis)
      /\ analysis'.choice = analysis.choice \/ analysis'.choice = Null
      /\ analysis'.newRows = analysis.newRows
      /\ analysis'.rd = analysis.rd /\ analysis'.rdData = analysis.rdData
  <2>. USE DEF Engine!Ok
  <2>1. IsAnalysis(analysis)
    BY DEF AnalysisInv, AnalysisSound
  <2>2. CASE \/ \E d \in Data : Engine!SetBranchData(d)
             \/ \E v \in BOOLEAN : Engine!SetHandleDisconnectedGrid(v)
    BY <2>1, <2>2 DEF IsAnalysis, AnalysisFields, SameSource, Engine!SetBranchData,
                      Engine!SetHandleDisconnectedGrid
  <2>3. CASE \/ \E k \in Capacities : Engine!SetCapacity(k)
             \/ \E x \in Solvers : Engine!SetSolver(x)
    BY <2>1, <2>3 DEF IsAnalysis, AnalysisFields, SameSource, Engine!SetCapacity,
                      Engine!SetSolver
  <2>4. CASE \E v \in BOOLEAN : Engine!SetReferenceSlack(v)
    BY <2>1, <2>4 DEF IsAnalysis, AnalysisFields, SameSource, Engine!SetReferenceSlack
  <2>5. CASE \E v \in BOOLEAN : Engine!SetComputeLimitViolations(v)
    BY <2>1, <2>5 DEF IsAnalysis, AnalysisFields, SameSource, Engine!SetComputeLimitViolations
  <2>6. CASE \E l \in Limits : Engine!SetLimits(l)
    BY <2>1, <2>6 DEF IsAnalysis, AnalysisFields, SameSource, Engine!SetLimits
  <2>7. QED
    BY <2>2, <2>3, <2>4, <2>5, <2>6
<1>2. lapse' = lapse /\ outcome' = "ok"
  BY DEF Engine!Keep, Engine!Ok,
         Engine!SetBranchData, Engine!SetHandleDisconnectedGrid, Engine!SetCapacity,
         Engine!SetSolver, Engine!SetReferenceSlack, Engine!SetComputeLimitViolations,
         Engine!SetLimits
<1>3. AnalysisSound(analysis', lapse)
  BY <1>1, SameSourceSound DEF AnalysisInv
<1>4. QED
  BY <1>2, <1>3, NothingComputed

LEMMA SlackSetters ==
  ASSUME AnalysisInv,
         \/ \E d \in RdData : Engine!SetSlackRedistributionData(d)
         \/ \E v \in BOOLEAN : Engine!SetRedistributeSlack(v)
         \/ \E d \in RdData : Engine!SetRedistributeSlackFromGrid(d)
  PROVE  AnalysisInv'
<1>1. lapse' = lapse /\ outcome' = "ok"
  BY DEF Engine!Keep, Engine!Ok, Engine!SetSlackRedistributionData,
         Engine!SetRedistributeSlack, Engine!SetRedistributeSlackFromGrid
<1>2. /\ SameSource(analysis', analysis) /\ analysis'.choice = analysis.choice
      /\ \/ analysis'.newRows
         \/ /\ ~analysis.newRows
            /\ analysis'.rd = analysis.rd /\ analysis'.rdData = analysis.rdData
  <2>1. CASE \E d \in RdData : Engine!SetSlackRedistributionData(d)
    BY <2>1 DEF AnalysisInv, AnalysisSound, IsAnalysis, AnalysisFields, SameSource, Engine!Ok,
                Engine!SetSlackRedistributionData
  <2>2. ASSUME NEW v \in BOOLEAN, Engine!SetRedistributeSlack(v)
        PROVE  /\ SameSource(analysis', analysis) /\ analysis'.choice = analysis.choice
               /\ \/ analysis'.newRows
                  \/ /\ ~analysis.newRows
                     /\ analysis'.rd = analysis.rd /\ analysis'.rdData = analysis.rdData
    <3>1. analysis' = [analysis EXCEPT !.rd = v, !.newRows = @ \/ (v # analysis.rd)]
      BY <2>2 DEF Engine!SetRedistributeSlack, Engine!WithRd, Engine!Ok
    <3>2. /\ SameSource(analysis', analysis) /\ analysis'.choice = analysis.choice
          /\ analysis'.rd = v /\ analysis'.rdData = analysis.rdData
          /\ analysis'.newRows = (analysis.newRows \/ (v # analysis.rd))
      BY <3>1 DEF AnalysisInv, AnalysisSound, IsAnalysis, AnalysisFields, SameSource
    <3>3. CASE analysis.newRows \/ v # analysis.rd
      <4>1. analysis'.newRows = TRUE
        BY <3>2, <3>3
      <4>2. QED
        BY <3>2, <4>1
    <3>4. CASE ~analysis.newRows /\ v = analysis.rd
      BY <3>2, <3>4
    <3>5. QED
      BY <3>3, <3>4
  <2>3. ASSUME NEW d \in RdData, Engine!SetRedistributeSlackFromGrid(d)
        PROVE  SameSource(analysis', analysis) /\ analysis'.choice = analysis.choice
               /\ analysis'.newRows
    <3>. DEFINE r == [analysis EXCEPT !.rdData = d, !.newRows = TRUE]
    <3>1. analysis' = [r EXCEPT !.rd = TRUE, !.newRows = @ \/ (TRUE # r.rd)]
      BY <2>3 DEF Engine!SetRedistributeSlackFromGrid, Engine!WithRd, Engine!Ok
    <3>2. r.newRows = TRUE /\ SameSource(r, analysis) /\ r.choice = analysis.choice
      BY DEF AnalysisInv, AnalysisSound, IsAnalysis, AnalysisFields, SameSource
    <3>. HIDE DEF r
    <3>3. analysis' = [r EXCEPT !.rd = TRUE, !.newRows = TRUE]
      BY <3>1, <3>2
    <3>4. QED
      BY <3>2, <3>3 DEF SameSource, IsAnalysis, AnalysisFields
  <2>4. QED
    BY <2>1, <2>2, <2>3
<1>3. AnalysisSound(analysis', lapse)
  BY <1>2, SameSourceSound DEF AnalysisInv
<1>4. QED
  BY <1>1, <1>3, NothingComputed

(* A list of contingencies taken, and one of which only a prefix was.       *)
LEMMA ListSetters ==
  ASSUME AnalysisInv, NEW l,
         \/ Engine!BuildContingencies(l)
         \/ \E n \in 0 .. (Len(l) - 1) : Engine!BuildContingenciesRefused(l, n)
  PROVE  AnalysisInv'
<1>1. CASE Engine!BuildContingencies(l)
  <2>1. /\ analysis' = [analysis EXCEPT !.list = l, !.hasList = TRUE, !.flags = "clean",
                                        !.choice = Null, !.newRows = TRUE]
        /\ lapse' = lapse \ {"list"} /\ outcome' = "ok"
    BY <1>1 DEF Engine!BuildContingencies, Engine!Ok
  <2>2. /\ IsAnalysis(analysis') /\ analysis'.driver = analysis.driver
        /\ analysis'.refBus = analysis.refBus /\ analysis'.baseRef = analysis.baseRef
        /\ analysis'.choice = Null /\ analysis'.newRows
    BY <2>1 DEF AnalysisInv, AnalysisSound, IsAnalysis, AnalysisFields
  <2>3. AnalysisSound(analysis', lapse')
    BY <2>1, <2>2 DEF AnalysisInv, AnalysisSound, RowsCurrent, ReferenceCurrent
  <2>4. QED
    BY <2>1, <2>3, NothingComputed
<1>2. ASSUME NEW n, Engine!BuildContingenciesRefused(l, n)
      PROVE  AnalysisInv'
  <2>1. /\ analysis' = [analysis EXCEPT !.list = SubSeq(l, 1, n), !.flags = "clean"]
        /\ lapse' = lapse \cup {"list"} /\ outcome' = "raised"
    BY <1>2 DEF Engine!BuildContingenciesRefused, Engine!Raised
  <2>2. /\ IsAnalysis(analysis') /\ analysis'.driver = analysis.driver
        /\ analysis'.refBus = analysis.refBus /\ analysis'.baseRef = analysis.baseRef
        /\ analysis'.newRows = analysis.newRows
        /\ analysis'.rd = analysis.rd /\ analysis'.rdData = analysis.rdData
    BY <2>1 DEF AnalysisInv, AnalysisSound, IsAnalysis, AnalysisFields
  <2>3. AnalysisSound(analysis', lapse')
    BY <2>1, <2>2 DEF AnalysisInv, AnalysisSound, RowsCurrent, ReferenceCurrent
  <2>4. QED
    BY <2>1, <2>3, NothingComputed
<1>3. QED
  BY <1>1, <1>2

(* Calls that leave the session as it is.                                  *)
LEMMA NothingTaken ==
  ASSUME AnalysisInv,
         \/ Engine!BuildContingenciesTooEarly \/ Engine!SetSolverRefused \/ Engine!RunRefused
         \/ Engine!ComputeFlows \/ Engine!ComputeFlowsRefused
  PROVE  AnalysisInv'
<1>1. analysis' = analysis /\ lapse' = lapse /\ outcome' \in {"ok", "raised"}
  BY DEF Engine!BuildContingenciesTooEarly, Engine!SetSolverRefused, Engine!RunRefused,
         Engine!ComputeFlows, Engine!ComputeFlowsRefused, Engine!Raised, Engine!Keep
<1>2. QED
  BY <1>1, NothingComputed DEF AnalysisInv

-----------------------------------------------------------------------------
(* run(): the reference it wants, and the base state for it.                *)
MovedLapse(r, l) == l \ (IF Engine!Wanted(r) # r.refBus THEN {"base"} ELSE {})

SameRequest(q, r) ==
  /\ q.list = r.list /\ q.hasList = r.hasList /\ q.mask = r.mask /\ q.solver = r.solver
  /\ q.built = r.built /\ q.auto = r.auto /\ q.forced = r.forced /\ q.gridRef = r.gridRef
  /\ q.rd = r.rd /\ q.rdData = r.rdData
  /\ q.check = r.check /\ q.limits = r.limits /\ q.data = r.data /\ q.capacity = r.capacity

(* The reference cached or chosen is the one asked for.                    *)
LEMMA WantedAsAsked ==
  ASSUME NEW r, NEW l, AnalysisSound(r, l), r.hasList, "list" \notin l
  PROVE  Engine!Wanted(r) = ReferenceAsked(r)
<1>1. CASE Engine!Asked(r)
  <2>1. Engine!Chosen(r).choice = Engine!Pick(r)
    BY <1>1 DEF Engine!Chosen, AnalysisSound, ReferenceCurrent, IsAnalysis, AnalysisFields
  <2>2. QED
    BY <1>1, <2>1 DEF Engine!Wanted, Engine!Pick, ReferenceAsked, Engine!Asked
<1>2. CASE ~Engine!Asked(r)
  BY <1>2 DEF Engine!Wanted, ReferenceAsked, Engine!Asked
<1>3. QED
  BY <1>1, <1>2

(* Choosing it changes nothing else.                                       *)
LEMMA ChosenSound ==
  ASSUME NEW r, NEW l, AnalysisSound(r, l)
  PROVE  LET c == Engine!Chosen(r) IN
         /\ AnalysisSound(c, l) /\ SameRequest(c, r) /\ c.refBus = r.refBus
         /\ c.newRows = r.newRows /\ c.flags = r.flags
<1>. DEFINE c == Engine!Chosen(r)
            q == [r EXCEPT !.choice = Engine!Pick(r)]
<1>1. CASE c = r
  BY <1>1 DEF SameRequest
<1>2. CASE c = q
  <2>1. /\ IsAnalysis(q) /\ q.driver = r.driver /\ SameRequest(q, r)
        /\ q.refBus = r.refBus /\ q.baseRef = r.baseRef
        /\ q.newRows = r.newRows /\ q.flags = r.flags /\ q.choice = Engine!Pick(r)
    BY DEF AnalysisSound, IsAnalysis, AnalysisFields, SameRequest
  <2>. HIDE DEF q
  <2>2. Engine!Pick(q) = Engine!Pick(r)
    BY <2>1 DEF Engine!Pick, SameRequest
  <2>3. AnalysisSound(q, l)
    BY <2>1, <2>2 DEF AnalysisSound, RowsCurrent, ReferenceCurrent, SameRequest
  <2>4. QED
    BY <1>2, <2>1, <2>3
<1>3. c = r \/ c = q
  BY DEF Engine!Chosen
<1>4. QED
  BY <1>1, <1>2, <1>3

Rebased(r) == [Engine!Moved(r) EXCEPT !.baseRef = Engine!Wanted(r)]

(* The base state for another reference, before and after it is built.     *)
LEMMA MovedSound ==
  ASSUME NEW r, NEW l, AnalysisSound(r, l)
  PROVE  LET m == Engine!Moved(r)
             b == Rebased(r)
         IN /\ AnalysisSound(m, l \cup {"base"}) /\ m.driver = Engine!NoDriver
            /\ AnalysisSound(b, l \ {"base"}) /\ SameRequest(b, r)
            /\ b.driver = Engine!NoDriver /\ b.refBus = Engine!Wanted(r)
<1>. DEFINE c == Engine!Chosen(r)
            w == Engine!Wanted(r)
            m == Engine!Moved(r)
            b == Rebased(r)
<1>1. AnalysisSound(c, l) /\ SameRequest(c, r)
  BY ChosenSound
<1>2. m = [c EXCEPT !.refBus = w, !.driver = Engine!NoDriver]
  BY DEF Engine!Moved
<1>5. Engine!NoDriver.alive = FALSE /\ DOMAIN Engine!NoDriver = DriverFields
  BY DEF Engine!NoDriver, DriverFields
<1>. HIDE DEF c, w, m
<1>3. /\ IsAnalysis(m) /\ m.driver = Engine!NoDriver /\ SameRequest(m, r)
      /\ m.refBus = w /\ m.choice = c.choice
  BY <1>1, <1>2, <1>5 DEF AnalysisSound, IsAnalysis, AnalysisFields, SameRequest
<1>4. /\ IsAnalysis(b) /\ b.driver = Engine!NoDriver /\ SameRequest(b, r)
      /\ b.refBus = w /\ b.baseRef = w /\ b.choice = c.choice
  BY <1>3 DEF Rebased, m, w, IsAnalysis, AnalysisFields, SameRequest
<1>. HIDE DEF b
<1>6. Engine!Pick(m) = Engine!Pick(c) /\ Engine!Pick(b) = Engine!Pick(c)
  BY <1>1, <1>3, <1>4 DEF Engine!Pick, SameRequest
<1>7. AnalysisSound(m, l \cup {"base"})
  BY <1>1, <1>3, <1>5, <1>6 DEF AnalysisSound, RowsCurrent, ReferenceCurrent
<1>8. AnalysisSound(b, l \ {"base"})
  BY <1>1, <1>4, <1>5, <1>6 DEF AnalysisSound, RowsCurrent, ReferenceCurrent
<1>9. QED
  BY <1>3, <1>4, <1>7, <1>8 DEF m, w, b

LEMMA BasedSound ==
  ASSUME NEW r, NEW l, AnalysisSound(r, l)
  PROVE  LET z == Engine!Based(r) IN
         /\ AnalysisSound(z, MovedLapse(r, l)) /\ SameRequest(z, r)
         /\ z.refBus = Engine!Wanted(r)
<1>1. CASE Engine!Wanted(r) = r.refBus
  <2>1. Engine!Based(r) = Engine!Chosen(r)
    BY <1>1 DEF Engine!Based
  <2>2. MovedLapse(r, l) = l
    BY <1>1 DEF MovedLapse
  <2>3. QED
    BY <1>1, <2>1, <2>2, ChosenSound
<1>2. CASE Engine!Wanted(r) # r.refBus
  <2>1. Engine!Based(r) = Rebased(r)
    BY <1>2 DEF Engine!Based, Rebased
  <2>2. MovedLapse(r, l) = l \ {"base"}
    BY <1>2 DEF MovedLapse
  <2>3. QED
    BY <2>1, <2>2, MovedSound
<1>3. QED
  BY <1>1, <1>2

(* A driver found or built is of the request, and of the flags when built.  *)
BuiltLapse(z, l) == l \ (IF Engine!Cold(z) THEN {"flags"} ELSE {})

LEMMA SourcedSound ==
  ASSUME NEW z, NEW l, AnalysisSound(z, l)
  PROVE  LET q == Engine!Sourced(z) IN
         /\ IsAnalysis(q) /\ SameRequest(q, z) /\ q.driver = z.driver
         /\ q.refBus = z.refBus /\ q.baseRef = z.baseRef /\ q.choice = z.choice
         /\ q.newRows = z.newRows
         /\ q.flags = IF Engine!Cold(z) THEN Engine!Mode(z) ELSE z.flags
<1>1. CASE Engine!Cold(z)
  BY <1>1 DEF Engine!Sourced, AnalysisSound, IsAnalysis, AnalysisFields, SameRequest
<1>2. CASE ~Engine!Cold(z)
  BY <1>2 DEF Engine!Sourced, AnalysisSound, SameRequest
<1>3. QED
  BY <1>1, <1>2

LEMMA BuiltSound ==
  ASSUME NEW z, NEW l, AnalysisSound(z, l)
  PROVE  LET q == Engine!Built(z) IN
         /\ AnalysisSound(q, BuiltLapse(z, l)) /\ SameRequest(q, z)
         /\ q.refBus = z.refBus /\ q.driver.alive /\ ~q.newRows
         /\ q.driver.mask = q.mask /\ q.driver.solver = q.solver
<1>. DEFINE u == Engine!Sourced(z)
            d == Engine!Driver(z)
            q == Engine!Built(z)
<1>1. CASE Engine!Cold(z)
  <2>1. /\ IsAnalysis(u) /\ SameRequest(u, z)
        /\ u.refBus = z.refBus /\ u.baseRef = z.baseRef /\ u.choice = z.choice
        /\ u.flags = Engine!Mode(z)
    BY <1>1, SourcedSound
  <2>2. q = [u EXCEPT !.driver = d, !.newRows = FALSE]
    BY <1>1 DEF Engine!Built
  <2>3. /\ d.alive = TRUE /\ d.rows = z.list /\ d.mask = z.mask /\ d.ref = z.baseRef
        /\ d.rd = (IF z.rd THEN z.rdData ELSE Null) /\ d.solver = z.solver
        /\ DOMAIN d = DriverFields
    BY DEF Engine!Driver, DriverFields
  <2>. HIDE DEF u, d, q
  <2>4. /\ IsAnalysis(q) /\ SameRequest(q, z) /\ q.driver = d /\ q.newRows = FALSE
        /\ q.refBus = z.refBus /\ q.baseRef = z.baseRef /\ q.choice = z.choice
        /\ q.flags = Engine!Mode(z)
    BY <2>1, <2>2, <2>3 DEF IsAnalysis, AnalysisFields, SameRequest
  <2>5. Engine!Pick(q) = Engine!Pick(z) /\ Engine!Mode(z) = Engine!Mode(d)
    BY <2>3, <2>4 DEF Engine!Pick, Engine!Mode, SameRequest
  <2>6. AnalysisSound(q, BuiltLapse(z, l))
    BY <2>3, <2>4, <2>5 DEF AnalysisSound, RowsCurrent, ReferenceCurrent, BuiltLapse, SameRequest
  <2>7. QED
    BY <2>3, <2>4, <2>6 DEF SameRequest, q
<1>2. CASE ~Engine!Cold(z)
  <2>1. q = z /\ BuiltLapse(z, l) = l
    BY <1>2 DEF Engine!Built, BuiltLapse
  <2>2. z.driver.alive /\ ~z.newRows /\ z.mask = z.driver.mask /\ z.solver = z.driver.solver
    BY <1>2 DEF Engine!Cold, Engine!ColdUnlessOption
  <2>3. QED
    BY <2>1, <2>2 DEF SameRequest
<1>3. QED
  BY <1>1, <1>2

(* Limits, branch data and the results of a solve leave all this as it is.  *)
SameRun(q, r) ==
  /\ SameRequest(q, r) /\ IsAnalysis(q)
  /\ q.flags = r.flags /\ q.newRows = r.newRows
  /\ q.refBus = r.refBus /\ q.baseRef = r.baseRef /\ q.choice = r.choice
  /\ \A x \in {"alive", "rows", "mask", "rd", "ref", "solver"} : q.driver[x] = r.driver[x]

LEMMA SameRunSound ==
  ASSUME NEW r, NEW l, AnalysisSound(r, l), NEW q, SameRun(q, r)
  PROVE  AnalysisSound(q, l) /\ (RunSettled(r, l) => RunSettled(q, l))
<1>1. /\ q.driver.alive = r.driver.alive /\ q.driver.rows = r.driver.rows
      /\ q.driver.mask = r.driver.mask /\ q.driver.rd = r.driver.rd
      /\ q.driver.ref = r.driver.ref /\ q.driver.solver = r.driver.solver
  BY DEF SameRun
<1>2. Engine!Pick(q) = Engine!Pick(r) /\ Engine!Mode(q.driver) = Engine!Mode(r.driver)
      /\ ReferenceAsked(q) = ReferenceAsked(r)
  BY <1>1 DEF Engine!Pick, Engine!Mode, ReferenceAsked, SameRun, SameRequest
<1>3. AnalysisSound(q, l)
  BY <1>1, <1>2 DEF AnalysisSound, RowsCurrent, ReferenceCurrent, SameRun, SameRequest
<1>4. RunSettled(r, l) => RunSettled(q, l)
  BY <1>1, <1>2 DEF RunSettled, SameRun, SameRequest
<1>5. QED
  BY <1>3, <1>4

LEMMA CheckedSame ==
  ASSUME NEW r, IsAnalysis(r)
  PROVE  SameRun(Engine!Checked(r), r)
<1>1. CASE ~r.check
  BY <1>1 DEF Engine!Checked, SameRun, SameRequest
<1>2. CASE r.check
  <2>. DEFINE v == [limits |-> r.limits, data |-> r.data, capacity |-> r.capacity]
              d == [r.driver EXCEPT !.viol = v]
              q == Engine!Checked(r)
  <2>1. q = [r EXCEPT !.driver = d]
    BY <1>2 DEF Engine!Checked, IsAnalysis, AnalysisFields
  <2>. HIDE DEF v, q
  <2>2. /\ DOMAIN d = DriverFields
        /\ \A x \in {"alive", "rows", "mask", "rd", "ref", "solver"} : d[x] = r.driver[x]
    BY DEF IsAnalysis, DriverFields
  <2>. HIDE DEF d
  <2>3. QED
    BY <2>1, <2>2 DEF SameRun, SameRequest, IsAnalysis, AnalysisFields, q
<1>3. QED
  BY <1>1, <1>2

LEMMA MarkedSame ==
  ASSUME NEW r, IsAnalysis(r), NEW v, NEW q, q = [r EXCEPT !.driver.solved = v]
  PROVE  SameRun(q, r)
<1>. DEFINE d == [r.driver EXCEPT !.solved = v]
<1>1. q = [r EXCEPT !.driver = d]
  BY DEF IsAnalysis, AnalysisFields
<1>2. /\ DOMAIN d = DriverFields
      /\ \A x \in {"alive", "rows", "mask", "rd", "ref", "solver"} : d[x] = r.driver[x]
  BY DEF IsAnalysis, DriverFields
<1>. HIDE DEF d
<1>3. QED
  BY <1>1, <1>2 DEF SameRun, SameRequest, IsAnalysis, AnalysisFields

LEMMA SolvedSame ==
  ASSUME NEW r, IsAnalysis(r)
  PROVE  SameRun(Engine!Solved(r), r)
<1>. DEFINE u == [r EXCEPT !.driver.solved = TRUE]
            q == Engine!Solved(r)
<1>1. SameRun(u, r)
  BY MarkedSame
<1>2. q = [u EXCEPT !.hasViolations = r.check]
  BY DEF Engine!Solved
<1>. HIDE DEF u, q
<1>3. SameRun(q, r)
  BY <1>1, <1>2 DEF SameRun, SameRequest, IsAnalysis, AnalysisFields
<1>4. QED
  BY <1>3 DEF q

LEMMA FewerLapsesSettled ==
  ASSUME NEW r, NEW l, NEW m, l \cap {"list"} \subseteq m, RunSettled(r, l)
  PROVE  RunSettled(r, m)
BY DEF RunSettled

(* A run() that returned: base state, source, driver, checks, solve.       *)
LEMMA AnalysisRunKeeps ==
  ASSUME AnalysisInv, Engine!Run
  PROVE  AnalysisInv'
<1>. DEFINE z == Engine!Based(analysis)
            ready == Engine!Built(z)
            l == BuiltLapse(z, MovedLapse(analysis, lapse))
<1>1. /\ analysis' = Engine!Solved(Engine!Checked(ready))
      /\ lapse' = lapse \ ({"run"} \cup (IF Engine!Cold(z) THEN {"flags"} ELSE {})
                       \cup (IF Engine!Wanted(analysis) # analysis.refBus THEN {"base"} ELSE {}))
      /\ analysis.hasList
  BY DEF Engine!Run, Engine!Refuses
<1>2. /\ AnalysisSound(z, MovedLapse(analysis, lapse)) /\ SameRequest(z, analysis)
      /\ z.refBus = Engine!Wanted(analysis)
  BY BasedSound DEF AnalysisInv
<1>3. /\ AnalysisSound(ready, l) /\ SameRequest(ready, z)
      /\ ready.refBus = z.refBus /\ ready.driver.alive /\ ~ready.newRows
      /\ ready.driver.mask = ready.mask /\ ready.driver.solver = ready.solver
  BY <1>2, BuiltSound
<1>4. l \cap {"list", "base", "flags"} \subseteq lapse' /\ ("list" \in l <=> "list" \in lapse)
  BY <1>1 DEF BuiltLapse, MovedLapse
<1>. HIDE DEF z, ready, l
<1>5. RunSettled(ready, l)
  <2>1. ReferenceAsked(ready) = ReferenceAsked(analysis)
    BY <1>2, <1>3 DEF ReferenceAsked, SameRequest
  <2>2. "list" \notin l => ready.refBus = ReferenceAsked(ready)
    BY <1>1, <1>2, <1>3, <1>4, <2>1, WantedAsAsked DEF AnalysisInv
  <2>3. QED
    BY <1>3, <2>2 DEF RunSettled
<1>. DEFINE c == Engine!Checked(ready)
            q == Engine!Solved(c)
<1>6. AnalysisSound(c, l) /\ RunSettled(c, l)
  BY <1>3, <1>5, CheckedSame, SameRunSound DEF AnalysisSound
<1>. HIDE DEF c
<1>7. AnalysisSound(q, l) /\ RunSettled(q, l)
  BY <1>6, SolvedSame, SameRunSound DEF AnalysisSound
<1>8. analysis' = q
  BY <1>1 DEF c
<1>. HIDE DEF q
<1>9. AnalysisSound(q, lapse') /\ RunSettled(q, lapse')
  BY <1>4, <1>7, FewerLapses, FewerLapsesSettled
<1>10. AnalysisSound(analysis, lapse)'
  BY <1>8, <1>9 DEF AnalysisSound, RowsCurrent, ReferenceCurrent, IsAnalysis
<1>11. RunSettled(analysis, lapse)'
  BY <1>8, <1>9 DEF RunSettled, ReferenceAsked
<1>12. QED
  BY <1>10, <1>11 DEF AnalysisInv

(* A run() that raises leaves the session at one of its steps.              *)
LEMMA AnalysisRunRaises ==
  ASSUME AnalysisInv,
         \/ Engine!RunFailsInBase \/ Engine!RunFailsInSource \/ Engine!RunRefusesSlack
         \/ Engine!RunFailsToBuild \/ Engine!RunRefusesChecks \/ Engine!RunFails
  PROVE  AnalysisInv'
<1>. DEFINE z == Engine!Based(analysis)
            ready == Engine!Built(z)
            u == Engine!Sourced(z)
            l == MovedLapse(analysis, lapse)
<1>1. AnalysisSound(z, l)
  BY BasedSound DEF AnalysisInv
<1>2. AnalysisSound(ready, BuiltLapse(z, l))
  BY <1>1, BuiltSound
<1>3. Engine!NoDriver.alive = FALSE /\ DOMAIN Engine!NoDriver = DriverFields
  BY DEF Engine!NoDriver, DriverFields
<1>4. CASE Engine!RunFailsInBase
  <2>. DEFINE m == Engine!Moved(analysis)
  <2>1. /\ analysis' = m /\ lapse' = (lapse \ {"flags"}) \cup {"base", "run"}
        /\ outcome' = "raised"
    BY <1>4 DEF Engine!RunFailsInBase, Engine!Raised
  <2>2. AnalysisSound(m, lapse \cup {"base"}) /\ m.driver = Engine!NoDriver
    BY MovedSound DEF AnalysisInv
  <2>. HIDE DEF m
  <2>3. AnalysisSound(m, lapse')
    BY <1>3, <2>1, <2>2 DEF AnalysisSound, RowsCurrent, ReferenceCurrent
  <2>4. QED
    BY <2>1, <2>3, NothingComputed
<1>5. ASSUME NEW after, NEW flags, Engine!RunEnds(after, flags), flags \subseteq {"flags"}
      PROVE  /\ analysis' = after /\ outcome' # "computed"
             /\ lapse' = (l \ {"flags"}) \cup {"run"} \cup flags
  BY <1>5 DEF Engine!RunEnds, Engine!Raised, MovedLapse
<1>6. CASE Engine!RunFailsInSource \/ Engine!RunRefusesSlack
  <2>. DEFINE cleared == [z EXCEPT !.flags = "clean"]
  <2>1. PICK q \in {u, cleared} : Engine!RunEnds(q, {"flags"})
    BY <1>6 DEF Engine!RunFailsInSource, Engine!RunRefusesSlack
  <2>2. analysis' = q /\ outcome' # "computed" /\ lapse' = (l \ {"flags"}) \cup {"run", "flags"}
    BY <1>5, <2>1
  <2>3. /\ IsAnalysis(q) /\ SameRequest(q, z) /\ q.driver = z.driver
        /\ q.refBus = z.refBus /\ q.baseRef = z.baseRef /\ q.choice = z.choice
        /\ q.newRows = z.newRows
    <3>1. CASE q = u
      BY <1>1, <3>1, SourcedSound
    <3>2. CASE q = cleared
      <4>. HIDE DEF z
      <4>1. QED
        BY <1>1, <3>2 DEF AnalysisSound, IsAnalysis, AnalysisFields, SameRequest
    <3>3. QED
      BY <3>1, <3>2
  <2>. HIDE DEF u, cleared, z, l
  <2>4. Engine!Pick(q) = Engine!Pick(z)
    BY <2>3 DEF Engine!Pick, SameRequest
  <2>5. AnalysisSound(q, lapse')
    BY <1>1, <2>2, <2>3, <2>4 DEF AnalysisSound, RowsCurrent, ReferenceCurrent, SameRequest
  <2>6. QED
    BY <2>2, <2>5, NothingComputed
<1>7. CASE Engine!RunFailsToBuild
  <2>. DEFINE f == [u EXCEPT !.driver = Engine!NoDriver]
  <2>1. Engine!RunEnds(f, {})
    BY <1>7 DEF Engine!RunFailsToBuild
  <2>2. analysis' = f /\ outcome' # "computed" /\ lapse' = (l \ {"flags"}) \cup {"run"}
    BY <1>5, <2>1
  <2>3. /\ IsAnalysis(u) /\ SameRequest(u, z)
        /\ u.refBus = z.refBus /\ u.baseRef = z.baseRef /\ u.choice = z.choice
    BY <1>1, SourcedSound
  <2>. HIDE DEF u, z, l
  <2>4. /\ IsAnalysis(f) /\ SameRequest(f, z) /\ f.driver = Engine!NoDriver
        /\ f.refBus = z.refBus /\ f.baseRef = z.baseRef /\ f.choice = z.choice
    BY <1>3, <2>3 DEF IsAnalysis, AnalysisFields, SameRequest
  <2>. HIDE DEF f
  <2>5. Engine!Pick(f) = Engine!Pick(z)
    BY <2>4 DEF Engine!Pick, SameRequest
  <2>6. AnalysisSound(f, lapse')
    BY <1>1, <1>3, <2>2, <2>4, <2>5 DEF AnalysisSound, RowsCurrent, ReferenceCurrent
  <2>7. QED
    BY <2>2, <2>6, NothingComputed
<1>. HIDE DEF ready, l
<1>8. ASSUME NEW m, m = (l \ {"flags"}) \cup {"run"}
                          \cup (IF Engine!Cold(z) THEN {} ELSE lapse \cap {"flags"})
      PROVE  BuiltLapse(z, l) \cap {"list", "base", "flags"} \subseteq m
  BY <1>8 DEF BuiltLapse, MovedLapse, l
<1>. DEFINE c == Engine!Checked(ready)
<1>9. AnalysisSound(c, BuiltLapse(z, l))
  BY <1>2, CheckedSame, SameRunSound DEF AnalysisSound
<1>10. CASE Engine!RunRefusesChecks
  <2>. DEFINE q == IF Engine!MayCheck(analysis) THEN c ELSE ready
  <2>1. Engine!RunEnds(q, IF Engine!Cold(z) THEN {} ELSE lapse \cap {"flags"})
    BY <1>10 DEF Engine!RunRefusesChecks, ready
  <2>2. /\ analysis' = q /\ outcome' # "computed"
        /\ lapse' = (l \ {"flags"}) \cup {"run"}
                      \cup (IF Engine!Cold(z) THEN {} ELSE lapse \cap {"flags"})
    BY <1>5, <2>1
  <2>3. AnalysisSound(q, BuiltLapse(z, l))
    BY <1>2, <1>9
  <2>. HIDE DEF q
  <2>4. AnalysisSound(q, lapse')
    BY <1>8, <2>2, <2>3, FewerLapses
  <2>5. QED
    BY <2>2, <2>4, NothingComputed
<1>11. CASE Engine!RunFails
  <2>. HIDE DEF c
  <2>. DEFINE q == [c EXCEPT !.driver.solved = FALSE]
  <2>1. Engine!RunEnds(q, IF Engine!Cold(z) THEN {} ELSE lapse \cap {"flags"})
    BY <1>11 DEF Engine!RunFails, ready, c
  <2>2. /\ analysis' = q /\ outcome' # "computed"
        /\ lapse' = (l \ {"flags"}) \cup {"run"}
                      \cup (IF Engine!Cold(z) THEN {} ELSE lapse \cap {"flags"})
    BY <1>5, <2>1
  <2>3. SameRun(q, c)
    BY <1>9, MarkedSame DEF AnalysisSound
  <2>. HIDE DEF q
  <2>4. AnalysisSound(q, BuiltLapse(z, l))
    BY <1>9, <2>3, SameRunSound
  <2>5. AnalysisSound(q, lapse')
    BY <1>8, <2>2, <2>4, FewerLapses
  <2>6. QED
    BY <2>2, <2>5, NothingComputed
<1>12. QED
  BY <1>4, <1>6, <1>7, <1>10, <1>11

-----------------------------------------------------------------------------
(* A session before any list or run.                                        *)
Untouched(r) ==
  IsAnalysis(r) /\ r.driver = Engine!NoDriver /\ r.choice = Null /\ r.baseRef = r.refBus

LEMMA UntouchedSound ==
  ASSUME NEW r, Untouched(r), NEW l
  PROVE  AnalysisSound(r, l)
<1>1. Engine!NoDriver.alive = FALSE
  BY DEF Engine!NoDriver
<1>2. QED
  BY <1>1 DEF Untouched, AnalysisSound, RowsCurrent, ReferenceCurrent

LEMMA BuiltUntouched ==
  ASSUME NEW mode, NEW d, NEW g, NEW x, NEW k, NEW v, NEW l
  PROVE  LET n == Engine!NewSession(mode, d, g, x, k) IN
         Untouched([n EXCEPT !.check = v]) /\ Untouched([n EXCEPT !.check = v, !.limits = l])
<1>. DEFINE n == Engine!NewSession(mode, d, g, x, k)
            u == [n EXCEPT !.check = v]
            w == [u EXCEPT !.limits = l]
<1>1. DOMAIN Engine!NoDriver = DriverFields
  BY DEF Engine!NoDriver, DriverFields
<1>2. Untouched(n)
  BY <1>1 DEF Untouched, Engine!NewSession, IsAnalysis, AnalysisFields
<1>. HIDE DEF n
<1>3. Untouched(u)
  BY <1>2 DEF Untouched, IsAnalysis, AnalysisFields
<1>. HIDE DEF u
<1>4. Untouched(w)
  BY <1>3 DEF Untouched, IsAnalysis, AnalysisFields
<1>5. w = [n EXCEPT !.check = v, !.limits = l]
  BY DEF u
<1>6. QED
  BY <1>3, <1>4, <1>5 DEF n, u

LEMMA ContingencyStarts == Engine!Init => AnalysisInv
<1>. SUFFICES ASSUME Engine!Init PROVE AnalysisInv
  OBVIOUS
<1>1. PICK d, g, k, x :
        analysis \in Engine!FromArrays(x, k) \cup Engine!FromGrid("extracted", d, g, x, k)
                                             \cup Engine!FromGrid("bridge", d, g, x, k)
  BY DEF Engine!Init
<1>2. ASSUME NEW r \in Engine!FromArrays(x, k) PROVE Untouched(r)
  <2>1. PICK v \in BOOLEAN :
          r = [Engine!NewSession("arrays", Null, Engine!AsSolved, x, k) EXCEPT !.check = v]
    BY <1>2 DEF Engine!FromArrays
  <2>2. Untouched([Engine!NewSession("arrays", Null, Engine!AsSolved, x, k) EXCEPT !.check = v])
    BY BuiltUntouched
  <2>3. QED
    BY <2>1, <2>2
<1>3. ASSUME NEW mode, NEW r \in Engine!FromGrid(mode, d, g, x, k) PROVE Untouched(r)
  <2>1. PICK l : r = [Engine!NewSession(mode, d, g, x, k) EXCEPT !.check = (l # Null), !.limits = l]
    BY <1>3 DEF Engine!FromGrid
  <2>. DEFINE v == (l # Null)
  <2>2. Untouched([Engine!NewSession(mode, d, g, x, k) EXCEPT !.check = v, !.limits = l])
    <3>. HIDE DEF v
    <3>1. QED
      BY BuiltUntouched
  <2>3. QED
    BY <2>1, <2>2
<1>4. Untouched(analysis)
  BY <1>1, <1>2, <1>3
<1>5. outcome # "computed"
  BY DEF Engine!Init
<1>6. QED
  BY <1>4, <1>5, UntouchedSound DEF AnalysisInv

(* Every step of the contingency analysis keeps the invariant.             *)
LEMMA ContingencyInductive == AnalysisInv /\ [Engine!Next]_(Engine!vars) => AnalysisInv'
<1>. SUFFICES ASSUME AnalysisInv, [Engine!Next]_(Engine!vars) PROVE AnalysisInv'
  OBVIOUS
<1>1. CASE UNCHANGED Engine!vars
  <2>1. analysis' = analysis /\ lapse' = lapse /\ outcome' = outcome
    BY <1>1 DEF Engine!vars
  <2>2. QED
    BY <2>1 DEF AnalysisInv, AnalysisSound, RowsCurrent, ReferenceCurrent, IsAnalysis,
                RunSettled, ReferenceAsked
<1>2. CASE Engine!Next
  BY <1>2, OptionSetters, SlackSetters, ListSetters, NothingTaken, AnalysisRunKeeps, AnalysisRunRaises
     DEF Engine!Next
<1>3. QED
  BY <1>1, <1>2

(* A run() that returned solved the list, the mask, the options, the slack  *)
(* participants and the reference asked for, kept or new driver alike       *)
(* (driver_cfg_, _wanted_reference_bus()), for any lists, options and       *)
(* number of calls; only a list refused midway or a base case that did not  *)
(* build, not put right since, takes that away.                             *)
THEOREM RequestCorrect == ContingencySpec => []SolvesWhatIsAsked
<1>1. ASSUME AnalysisInv PROVE SolvesWhatIsAsked
  <2>. SUFFICES ASSUME outcome = "computed", "list" \notin lapse, "base" \notin lapse
                PROVE  /\ analysis.driver.rows = analysis.list
                       /\ analysis.driver.mask = analysis.mask
                       /\ analysis.driver.rd = (IF analysis.rd THEN analysis.rdData ELSE Null)
                       /\ analysis.driver.ref = ReferenceAsked(analysis)
                       /\ analysis.driver.solver = analysis.solver
    BY DEF SolvesWhatIsAsked, Engine!SolvesWhatIsAsked, ReferenceAsked
  <2>1. QED
    BY <1>1 DEF AnalysisInv, AnalysisSound, RowsCurrent, ReferenceCurrent, RunSettled
<1>2. QED
  BY <1>1, ContingencyStarts, ContingencyInductive, PTL DEF ContingencySpec, Engine!Spec

(* The flags that count the rows left out are those of the rows solved, by  *)
(* a run() that kept its driver as by one that built it (flags of           *)
(* prepare_source()), slack data refused in between set right.              *)
THEOREM FlagsCorrect == ContingencySpec => []FlagsDescribeSource
<1>1. AnalysisInv => FlagsDescribeSource
  BY DEF AnalysisInv, AnalysisSound, RowsCurrent, RunSettled,
         FlagsDescribeSource, Engine!FlagsDescribeSource
<1>2. QED
  BY <1>1, ContingencyStarts, ContingencyInductive, PTL DEF ContingencySpec, Engine!Spec

-----------------------------------------------------------------------------
(* Induction over the subsets of a finite set.                              *)

(* A set of sizes has a smallest one.                                       *)
LEMMA SmallestOf ==
  ASSUME NEW T \in SUBSET Nat, T # {}
  PROVE  \E n \in T : \A m \in T : ~(m < n)
<1>1. \E n \in T : \A m \in T : ~(<<m, n>> \in OpToRel(<, Nat))
  BY NatLessThanWellFounded, WFMin, Zenon
<1>2. QED
  BY <1>1 DEF OpToRel

(* A set of subsets to which T belongs as soon as T without any of its      *)
(* elements does has them all.                                              *)
LEMMA SubsetInduction ==
  ASSUME NEW S, IsFiniteSet(S), NEW Good,
         \A T \in SUBSET S : (\A x \in T : T \ {x} \in Good) => T \in Good
  PROVE  SUBSET S \subseteq Good
<1>. DEFINE Cards == {Cardinality(T) : T \in {T \in SUBSET S : T \notin Good}}
<1>1. \A T \in SUBSET S : IsFiniteSet(T) /\ Cardinality(T) \in Nat
  BY FS_Subset, FS_CardinalityType
<1>2. SUFFICES ASSUME Cards # {} PROVE FALSE
  OBVIOUS
<1>3. Cards \in SUBSET Nat
  BY <1>1
<1>4. PICK n \in Cards : \A m \in Cards : ~(m < n)
  <2>. HIDE DEF Cards
  <2>1. QED
    BY <1>2, <1>3, SmallestOf
<1>5. PICK T \in SUBSET S : T \notin Good /\ Cardinality(T) = n
  BY <1>4
<1>6. PICK x \in T : T \ {x} \notin Good
  BY <1>5
<1>7. T \ {x} \in SUBSET S /\ Cardinality(T \ {x}) = n - 1
  BY <1>1, <1>5, <1>6, FS_RemoveElement
<1>8. n - 1 \in Cards
  BY <1>6, <1>7
<1>9. n \in Nat /\ n - 1 \in Nat
  BY <1>3, <1>4, <1>8
<1>10. QED
  BY <1>4, <1>8, <1>9

-----------------------------------------------------------------------------
(* Violation records: the places of the ids in T by severity.               *)
Above(f, T, j) == {i \in T : Engine!Outranks(f, i, j)}
PlaceIn(f, T, j) == Cardinality(Above(f, T, j))

(* The severities of one type: ids are scanned in ascending order.          *)
Severities(f) == f \in Seq(Int)

LEMMA OutranksOrders ==
  ASSUME NEW f, Severities(f)
  PROVE  /\ \A i \in DOMAIN f : ~Engine!Outranks(f, i, i)
         /\ \A i, j \in DOMAIN f : i # j => Engine!Outranks(f, i, j) \/ Engine!Outranks(f, j, i)
         /\ \A i, j, k \in DOMAIN f :
              Engine!Outranks(f, i, j) /\ Engine!Outranks(f, j, k) => Engine!Outranks(f, i, k)
<1>1. \A i \in DOMAIN f : i \in Int /\ f[i] \in Int
  BY DEF Severities
<1>2. QED
  BY <1>1 DEF Engine!Outranks

LEMMA PlaceTypes ==
  ASSUME NEW f, Severities(f), NEW T \in SUBSET DOMAIN f, NEW j
  PROVE  /\ IsFiniteSet(T) /\ IsFiniteSet(Above(f, T, j))
         /\ PlaceIn(f, T, j) \in Nat /\ Cardinality(T) \in Nat
         /\ PlaceIn(f, T, j) <= Cardinality(T)
<1>1. IsFiniteSet(DOMAIN f)
  BY FS_Interval DEF Severities
<1>2. Above(f, T, j) \in SUBSET T
  BY DEF Above
<1>3. QED
  BY <1>1, <1>2, FS_Subset, FS_CardinalityType DEF PlaceIn

(* Who outranks another has fewer above: fewer of T, if it is one of them.  *)
LEMMA PlaceGrows ==
  ASSUME NEW f, Severities(f), NEW T \in SUBSET DOMAIN f, NEW i \in DOMAIN f, NEW j \in DOMAIN f,
         Engine!Outranks(f, i, j)
  PROVE  /\ PlaceIn(f, T, i) <= PlaceIn(f, T, j)
         /\ i \in T => PlaceIn(f, T, i) < PlaceIn(f, T, j)
<1>1. Above(f, T, i) \in SUBSET Above(f, T, j) /\ i \notin Above(f, T, i)
  BY OutranksOrders DEF Above
<1>2. IsFiniteSet(Above(f, T, j))
  BY PlaceTypes
<1>3. /\ PlaceIn(f, T, i) <= PlaceIn(f, T, j)
      /\ Above(f, T, i) # Above(f, T, j) => PlaceIn(f, T, i) # PlaceIn(f, T, j)
  BY <1>1, <1>2, FS_Subset DEF PlaceIn
<1>4. i \in T => i \in Above(f, T, j)
  BY DEF Above
<1>5. PlaceIn(f, T, i) \in Nat /\ PlaceIn(f, T, j) \in Nat
  BY PlaceTypes
<1>6. QED
  BY <1>1, <1>3, <1>4, <1>5

(* Two ids of T have different places.                                      *)
LEMMA PlaceTells ==
  ASSUME NEW f, Severities(f), NEW T \in SUBSET DOMAIN f, NEW i \in T, NEW j \in T,
         PlaceIn(f, T, i) = PlaceIn(f, T, j)
  PROVE  i = j
<1>. SUFFICES ASSUME i # j PROVE FALSE
  OBVIOUS
<1>0. i \in DOMAIN f /\ j \in DOMAIN f /\ PlaceIn(f, T, i) \in Nat
  BY PlaceTypes
<1>2. CASE Engine!Outranks(f, i, j)
  <2>1. PlaceIn(f, T, i) < PlaceIn(f, T, j)
    BY <1>0, <1>2, PlaceGrows
  <2>2. QED
    BY <1>0, <2>1
<1>3. CASE Engine!Outranks(f, j, i)
  <2>1. PlaceIn(f, T, j) < PlaceIn(f, T, i)
    BY <1>0, <1>3, PlaceGrows
  <2>2. QED
    BY <1>0, <2>1
<1>4. QED
  BY <1>0, <1>2, <1>3, OutranksOrders

(* One id more, m: those below it move down by one.                         *)
LEMMA PlaceWith ==
  ASSUME NEW f, Severities(f), NEW T \in SUBSET DOMAIN f, NEW m \in DOMAIN f, m \notin T,
         NEW j \in DOMAIN f
  PROVE  PlaceIn(f, T \cup {m}, j)
           = IF Engine!Outranks(f, m, j) THEN PlaceIn(f, T, j) + 1 ELSE PlaceIn(f, T, j)
<1>1. CASE Engine!Outranks(f, m, j)
  <2>1. Above(f, T \cup {m}, j) = Above(f, T, j) \cup {m} /\ m \notin Above(f, T, j)
    BY <1>1 DEF Above
  <2>2. QED
    BY <1>1, <2>1, PlaceTypes, FS_AddElement DEF PlaceIn
<1>2. CASE ~Engine!Outranks(f, m, j)
  <2>1. Above(f, T \cup {m}, j) = Above(f, T, j)
    BY <1>2 DEF Above
  <2>2. QED
    BY <1>2, <2>1 DEF PlaceIn
<1>3. QED
  BY <1>1, <1>2

(* Their places are 0 .. Cardinality(T) - 1.                                *)
LEMMA PlaceBounds ==
  ASSUME NEW f, Severities(f), NEW T \in SUBSET DOMAIN f, NEW j \in T
  PROVE  PlaceIn(f, T, j) \in 0 .. Cardinality(T) - 1
<1>1. Above(f, T, j) \in SUBSET T /\ j \notin Above(f, T, j)
  BY OutranksOrders DEF Above
<1>2. PlaceIn(f, T, j) # Cardinality(T)
  BY <1>1, PlaceTypes, FS_Subset DEF PlaceIn
<1>3. QED
  BY <1>2, PlaceTypes

-----------------------------------------------------------------------------
(* The K most severe of the ids in T, most severe first.                    *)
RecordOf(f, t, i) == [type |-> t, id |-> i, severity |-> f[i]]
RecordsFor(f, t) == {RecordOf(f, t, i) : i \in DOMAIN f}
AtPlace(f, t, T, x, n) == \E j \in T : x = RecordOf(f, t, j) /\ PlaceIn(f, T, j) = n
IsMostSevere(q, f, t, T, K) ==
  /\ q \in Seq(RecordsFor(f, t)) /\ Len(q) = Engine!Fewer(Cardinality(T), K)
  /\ \A p \in 1 .. Len(q) : AtPlace(f, t, T, q[p], p - 1)

(* There is only one such sequence.                                         *)
LEMMA MostSevereUnique ==
  ASSUME NEW f, Severities(f), NEW t, NEW T \in SUBSET DOMAIN f, NEW K,
         NEW q, IsMostSevere(q, f, t, T, K), NEW r, IsMostSevere(r, f, t, T, K)
  PROVE  q = r
<1>1. Len(q) = Len(r) /\ q \in Seq(RecordsFor(f, t)) /\ r \in Seq(RecordsFor(f, t))
  BY DEF IsMostSevere
<1>2. ASSUME NEW p \in 1 .. Len(q) PROVE q[p] = r[p]
  <2>1. PICK i \in T : q[p] = RecordOf(f, t, i) /\ PlaceIn(f, T, i) = p - 1
    BY <1>1, <1>2 DEF IsMostSevere, AtPlace
  <2>2. PICK j \in T : r[p] = RecordOf(f, t, j) /\ PlaceIn(f, T, j) = p - 1
    BY <1>1, <1>2 DEF IsMostSevere, AtPlace
  <2>3. i = j
    BY <2>1, <2>2, PlaceTells
  <2>4. QED
    BY <2>1, <2>2, <2>3
<1>. HIDE DEF IsMostSevere
<1>3. QED
  BY <1>1, <1>2, SeqEqual

-----------------------------------------------------------------------------
(* One record more.                                                         *)

(* Of a sequence that holds the most severe of T, those at or above an id   *)
(* m that is scanned later are the first as many as m has above it.         *)
LEMMA AtOrAbove ==
  ASSUME NEW f, Severities(f), NEW t, NEW T \in SUBSET DOMAIN f, NEW m \in DOMAIN f,
         \A i \in T : i < m,
         NEW j \in T, NEW n, PlaceIn(f, T, j) = n
  PROVE  /\ f[j] >= f[m] <=> Engine!Outranks(f, j, m)
         /\ Engine!Outranks(f, j, m) <=> n < PlaceIn(f, T, m)
         /\ Engine!Outranks(f, m, j) <=> ~Engine!Outranks(f, j, m)
<1>1. j \in DOMAIN f /\ j \in Int /\ m \in Int /\ j < m /\ f[j] \in Int /\ f[m] \in Int
  BY DEF Severities
<1>2. f[j] >= f[m] <=> Engine!Outranks(f, j, m)
  BY <1>1 DEF Engine!Outranks
<1>3. Engine!Outranks(f, m, j) <=> ~Engine!Outranks(f, j, m)
  BY <1>1 DEF Engine!Outranks
<1>4. PlaceIn(f, T, j) \in Nat /\ PlaceIn(f, T, m) \in Nat
  BY PlaceTypes
<1>5. Engine!Outranks(f, j, m) => PlaceIn(f, T, j) < PlaceIn(f, T, m)
  BY <1>1, PlaceGrows
<1>6. Engine!Outranks(f, m, j) => PlaceIn(f, T, m) <= PlaceIn(f, T, j)
  BY <1>1, PlaceGrows
<1>7. QED
  BY <1>2, <1>3, <1>4, <1>5, <1>6

LEMMA ReserveAt ==
  ASSUME NEW f, Severities(f), NEW t, NEW T \in SUBSET DOMAIN f, NEW m \in DOMAIN f,
         \A i \in T : i < m, NEW K \in Nat,
         NEW q, IsMostSevere(q, f, t, T, K)
  PROVE  Cardinality({i \in DOMAIN q : q[i].severity >= RecordOf(f, t, m).severity})
           = Engine!Fewer(PlaceIn(f, T, m), Len(q))
<1>1. q \in Seq(RecordsFor(f, t)) /\ Len(q) \in Nat /\ DOMAIN q = 1 .. Len(q)
  BY DEF IsMostSevere
<1>2. ASSUME NEW p \in 1 .. Len(q)
      PROVE  q[p].severity >= RecordOf(f, t, m).severity <=> p <= PlaceIn(f, T, m)
  <2>1. PICK j \in T : q[p] = RecordOf(f, t, j) /\ PlaceIn(f, T, j) = p - 1
    BY <1>2 DEF IsMostSevere, AtPlace
  <2>2. q[p].severity = f[j] /\ RecordOf(f, t, m).severity = f[m]
    BY <2>1 DEF RecordOf
  <2>3. f[j] >= f[m] <=> p - 1 < PlaceIn(f, T, m)
    BY <2>1, AtOrAbove
  <2>4. PlaceIn(f, T, m) \in Nat
    BY PlaceTypes
  <2>5. QED
    BY <2>2, <2>3, <2>4
<1>3. PlaceIn(f, T, m) \in Nat
  BY PlaceTypes
<1>. DEFINE at == {i \in DOMAIN q : q[i].severity >= RecordOf(f, t, m).severity}
            n == Engine!Fewer(PlaceIn(f, T, m), Len(q))
<1>4. n \in Nat /\ n <= Len(q)
  BY <1>1, <1>3 DEF Engine!Fewer
<1>5. at = 1 .. n
  <2>1. \A p \in 1 .. Len(q) : p <= PlaceIn(f, T, m) <=> p <= n
    BY <1>1, <1>3 DEF Engine!Fewer
  <2>. HIDE DEF n
  <2>2. QED
    BY <1>1, <1>2, <1>4, <2>1
<1>. HIDE DEF at
<1>6. Cardinality(at) = n
  BY <1>4, <1>5, FS_Interval
<1>7. QED
  BY <1>6 DEF at

(* Parts of a sequence.                                                     *)
LEMMA PartIs ==
  ASSUME NEW S, NEW s, NEW m \in Int, NEW n \in Int, 0 <= m, m <= n,
         \A i \in m + 1 .. n : s[i] \in S
  PROVE  /\ SubSeq(s, m + 1, n) \in Seq(S) /\ Len(SubSeq(s, m + 1, n)) = n - m
         /\ \A i \in 1 .. n - m : SubSeq(s, m + 1, n)[i] = s[m + i]
<1>. DEFINE r == SubSeq(s, m + 1, n)
            k == m + 1
<1>1. k \in Int
  OBVIOUS
<1>2. /\ r \in Seq(S) /\ Len(r) = (IF k <= n THEN n - k + 1 ELSE 0)
      /\ \A i \in 1 .. n - k + 1 : r[i] = s[k + i - 1]
  BY SubSeqProperties
<1>. HIDE DEF r
<1>3. Len(r) = n - m /\ n - k + 1 = n - m
  BY <1>2
<1>4. ASSUME NEW i \in 1 .. n - m PROVE r[i] = s[m + i]
  <2>1. k + i - 1 = m + i
    OBVIOUS
  <2>2. QED
    BY <1>2, <1>3, <2>1
<1>5. QED
  BY <1>2, <1>3, <1>4 DEF r

LEMMA PrefixIs ==
  ASSUME NEW S, NEW s, NEW n \in Nat, \A i \in 1 .. n : s[i] \in S
  PROVE  /\ SubSeq(s, 1, n) \in Seq(S) /\ Len(SubSeq(s, 1, n)) = n
         /\ \A i \in 1 .. n : SubSeq(s, 1, n)[i] = s[i]
<1>. DEFINE r == SubSeq(s, 0 + 1, n)
<1>1. /\ r \in Seq(S) /\ Len(r) = n - 0
      /\ \A i \in 1 .. n - 0 : r[i] = s[0 + i]
  BY PartIs
<1>2. r = SubSeq(s, 1, n)
  OBVIOUS
<1>. HIDE DEF r
<1>3. QED
  BY <1>1, <1>2

(* A sequence with x after its first n elements.                            *)
Inserted(q, x, n) == SubSeq(q, 1, n) \o <<x>> \o SubSeq(q, n + 1, Len(q))

IsInserted(r, S, q, x, n) ==
  /\ r \in Seq(S) /\ Len(r) = Len(q) + 1
  /\ \A p \in 1 .. Len(q) + 1 :
       r[p] = IF p <= n THEN q[p] ELSE IF p = n + 1 THEN x ELSE q[p - 1]

LEMMA InsertedIs ==
  ASSUME NEW S, NEW q, NEW x, NEW n, q \in Seq(S) /\ x \in S /\ n \in 0 .. Len(q)
  PROVE  IsInserted(Inserted(q, x, n), S, q, x, n)
<1>. DEFINE a == SubSeq(q, 1, n)
            b == SubSeq(q, n + 1, Len(q))
            c == a \o <<x>>
<1>1. Len(q) \in Nat /\ n \in Nat /\ n <= Len(q) /\ \A i \in 1 .. Len(q) : q[i] \in S
  OBVIOUS
<1>2. a \in Seq(S) /\ Len(a) = n /\ \A i \in 1 .. n : a[i] = q[i]
  BY <1>1, PrefixIs
<1>3. b \in Seq(S) /\ Len(b) = Len(q) - n /\ \A i \in 1 .. Len(q) - n : b[i] = q[n + i]
  BY <1>1, PartIs
<1>. HIDE DEF a, b
<1>4. /\ c \in Seq(S) /\ Len(c) = n + 1
      /\ \A i \in 1 .. n + 1 : c[i] = IF i <= n THEN q[i] ELSE x
  <2>1. <<x>> \in Seq(S) /\ Len(<<x>>) = 1 /\ <<x>>[1] = x
    OBVIOUS
  <2>2. QED
    BY <1>1, <1>2, <2>1, ConcatProperties
<1>. HIDE DEF c
<1>5. /\ c \o b \in Seq(S) /\ Len(c \o b) = Len(q) + 1
      /\ \A i \in 1 .. Len(q) + 1 : (c \o b)[i] = IF i <= n + 1 THEN c[i] ELSE b[i - (n + 1)]
  <2>1. /\ c \o b \in Seq(S) /\ Len(c \o b) = Len(c) + Len(b)
        /\ \A i \in 1 .. Len(c) + Len(b) : (c \o b)[i] = IF i <= Len(c) THEN c[i] ELSE b[i - Len(c)]
    BY <1>3, <1>4, ConcatProperties
  <2>2. QED
    BY <1>1, <1>3, <1>4, <2>1
<1>6. Inserted(q, x, n) = c \o b
  BY DEF Inserted, a, b, c
<1>. HIDE DEF Inserted
<1>7. ASSUME NEW p \in 1 .. Len(q) + 1
      PROVE  (c \o b)[p] = IF p <= n THEN q[p] ELSE IF p = n + 1 THEN x ELSE q[p - 1]
  <2>1. CASE p <= n + 1
    BY <1>1, <1>4, <1>5, <1>7, <2>1
  <2>2. CASE p > n + 1
    <3>1. (c \o b)[p] = b[p - (n + 1)] /\ p - (n + 1) \in 1 .. Len(q) - n
      BY <1>1, <1>5, <1>7, <2>2
    <3>2. b[p - (n + 1)] = q[n + (p - (n + 1))] /\ n + (p - (n + 1)) = p - 1
      BY <1>1, <1>3, <1>7, <3>1
    <3>3. (c \o b)[p] = q[p - 1] /\ p \in Int /\ ~(p <= n) /\ p # n + 1
      BY <1>1, <1>7, <2>2, <3>1, <3>2
    <3>4. QED
      BY <3>3
  <2>3. p <= n + 1 \/ p > n + 1
    BY <1>1, <1>7
  <2>4. QED
    BY <2>1, <2>2, <2>3
<1>8. QED
  BY <1>5, <1>6, <1>7 DEF IsInserted

(* Where TopKByType::reserve() puts a record.                               *)
ReservedAt(q, x) == Cardinality({i \in DOMAIN q : q[i].severity >= x.severity})
AtMost(s, K) == SubSeq(s, 1, IF Len(s) > K THEN K ELSE Len(s))

LEMMA SameCount == \A S : Engine!Cardinality(S) = Cardinality(S)
BY DEF Cardinality, Engine!Cardinality

LEMMA ReserveIs ==
  \A q, x, K : Engine!Reserve(q, x, K) = AtMost(Inserted(q, x, ReservedAt(q, x)), K)
<1>. DEFINE CountedAt(q, x) == Engine!Cardinality({i \in DOMAIN q : q[i].severity >= x.severity})
<1>1. \A q, x : CountedAt(q, x) = ReservedAt(q, x)
  BY SameCount DEF ReservedAt
<1>2. \A q, x, K : Engine!Reserve(q, x, K) = AtMost(Inserted(q, x, CountedAt(q, x)), K)
  BY DEF Engine!Reserve, Inserted, AtMost
<1>. HIDE DEF CountedAt
<1>3. QED
  BY <1>1, <1>2

(* It keeps the most severe when one more is scanned.                       *)
LEMMA ReserveKeeps ==
  ASSUME NEW f, Severities(f), NEW t, NEW T \in SUBSET DOMAIN f, NEW m \in DOMAIN f,
         \A i \in T : i < m, NEW K \in Nat \ {0},
         NEW q, IsMostSevere(q, f, t, T, K)
  PROVE  IsMostSevere(Engine!Reserve(q, RecordOf(f, t, m), K), f, t, T \cup {m}, K)
<1>. DEFINE S == RecordsFor(f, t)
            x == RecordOf(f, t, m)
            R == PlaceIn(f, T, m)
            N == Cardinality(T)
            n == Engine!Fewer(R, Len(q))
            all == Inserted(q, x, n)
            most == IF Len(all) > K THEN K ELSE Len(all)
            r == SubSeq(all, 1, most)
            W == T \cup {m}
<1>1. /\ q \in Seq(S) /\ Len(q) = Engine!Fewer(N, K)
      /\ \A p \in 1 .. Len(q) : AtPlace(f, t, T, q[p], p - 1)
  BY DEF IsMostSevere
<1>2. /\ m \notin T /\ N \in Nat /\ R \in Nat /\ R <= N /\ K \in Nat /\ K > 0
      /\ Cardinality(W) = N + 1
  <2>1. m \in Int /\ m \notin T
    BY DEF Severities
  <2>2. IsFiniteSet(T) /\ N \in Nat /\ R \in Nat /\ R <= N
    BY PlaceTypes
  <2>3. Cardinality(W) = IF m \in T THEN N ELSE N + 1
    BY <2>2, FS_AddElement
  <2>. HIDE DEF N, R, W
  <2>4. QED
    BY <2>1, <2>2, <2>3
<1>3. x \in S
  BY DEF RecordsFor
<1>4. Engine!Reserve(q, x, K) = r
  <2>1. ReservedAt(q, x) = n
    BY ReserveAt DEF ReservedAt
  <2>. HIDE DEF x, n
  <2>2. Engine!Reserve(q, x, K) = AtMost(all, K)
    BY <2>1, ReserveIs
  <2>3. QED
    BY <2>2 DEF AtMost
<1>. HIDE DEF x, S, R, N, W
<1>5. n \in 0 .. Len(q) /\ (n = R \/ (n = Len(q) /\ Len(q) < R))
  BY <1>1, <1>2 DEF Engine!Fewer
<1>. HIDE DEF n
<1>6. /\ all \in Seq(S) /\ Len(all) = Len(q) + 1
      /\ \A p \in 1 .. Len(q) + 1 :
           all[p] = IF p <= n THEN q[p] ELSE IF p = n + 1 THEN x ELSE q[p - 1]
  <2>1. q \in Seq(S) /\ x \in S /\ n \in 0 .. Len(q)
    BY <1>1, <1>3, <1>5
  <2>2. IsInserted(all, S, q, x, n)
    BY <2>1, InsertedIs
  <2>. HIDE DEF all
  <2>3. QED
    BY <2>2 DEF IsInserted
<1>. HIDE DEF all
<1>7. most = Engine!Fewer(N + 1, K) /\ most \in Nat /\ most <= Len(q) + 1
  BY <1>1, <1>2, <1>6 DEF Engine!Fewer
<1>. HIDE DEF most
<1>8. r \in Seq(S) /\ Len(r) = most /\ \A p \in 1 .. most : r[p] = all[p]
  <2>1. \A i \in 1 .. most : all[i] \in S
    BY <1>6, <1>7
  <2>2. QED
    BY <1>7, <2>1, PrefixIs
<1>. HIDE DEF r
(* Where the ids of T are in the larger set.                                *)
<1>9. ASSUME NEW j \in T, NEW p \in 1 .. Len(q), PlaceIn(f, T, j) = p - 1
      PROVE  PlaceIn(f, W, j) = IF p <= R THEN p - 1 ELSE p
  <2>1. j \in DOMAIN f
    OBVIOUS
  <2>2. /\ Engine!Outranks(f, j, m) <=> p - 1 < R
        /\ Engine!Outranks(f, m, j) <=> ~Engine!Outranks(f, j, m)
    BY <1>9, AtOrAbove DEF R
  <2>3. PlaceIn(f, W, j) = IF Engine!Outranks(f, m, j) THEN p - 1 + 1 ELSE p - 1
    BY <1>2, <1>9, <2>1, PlaceWith DEF W
  <2>4. p - 1 < R <=> p <= R
    BY <1>2
  <2>5. QED
    BY <1>1, <2>2, <2>3, <2>4
<1>10. PlaceIn(f, W, m) = R
  BY <1>2, PlaceWith, OutranksOrders DEF W, R
<1>11. ASSUME NEW p \in 1 .. most PROVE AtPlace(f, t, W, all[p], p - 1)
  <2>1. p \in Int /\ p >= 1 /\ p <= Len(q) + 1 /\ Len(q) \in Nat /\ p <= K
    BY <1>1, <1>2, <1>7 DEF Engine!Fewer
  <2>2. CASE p <= n
    <3>1. all[p] = q[p] /\ p \in 1 .. Len(q)
      BY <1>5, <1>6, <2>1, <2>2
    <3>2. PICK j \in T : q[p] = RecordOf(f, t, j) /\ PlaceIn(f, T, j) = p - 1
      BY <1>1, <3>1 DEF AtPlace
    <3>3. PlaceIn(f, W, j) = p - 1
      BY <1>2, <1>5, <1>9, <2>1, <2>2, <3>1, <3>2
    <3>4. QED
      BY <3>1, <3>2, <3>3 DEF AtPlace, W
  <2>3. CASE p = n + 1
    <3>1. all[p] = x
      BY <1>5, <1>6, <2>1, <2>3
    <3>2. n = R
      BY <1>1, <1>2, <1>5, <2>1, <2>3 DEF Engine!Fewer
    <3>3. PlaceIn(f, W, m) = p - 1
      BY <1>2, <1>10, <2>3, <3>2
    <3>4. QED
      BY <3>1, <3>3 DEF AtPlace, W, x
  <2>4. CASE p > n + 1
    <3>1. all[p] = q[p - 1] /\ p - 1 \in 1 .. Len(q)
      BY <1>5, <1>6, <2>1, <2>4
    <3>2. PICK j \in T : q[p - 1] = RecordOf(f, t, j) /\ PlaceIn(f, T, j) = p - 1 - 1
      BY <1>1, <3>1 DEF AtPlace
    <3>3. ~(p - 1 <= R)
      BY <1>2, <1>5, <2>1, <2>4
    <3>4. PlaceIn(f, W, j) = p - 1
      BY <1>9, <3>1, <3>2, <3>3
    <3>5. QED
      BY <3>1, <3>2, <3>4 DEF AtPlace, W
  <2>5. QED
    BY <1>5, <2>1, <2>2, <2>3, <2>4
<1>12. IsMostSevere(r, f, t, W, K)
  BY <1>2, <1>7, <1>8, <1>11 DEF IsMostSevere, S, N
<1>13. QED
  BY <1>4, <1>12 DEF x, W

-----------------------------------------------------------------------------
(* The fold of a scan, from its equation.                                   *)
KeptOf(scan, K) == Engine!FoldLeft(LAMBDA held, x : Engine!Reserve(held, x, K), <<>>, scan)
Latest(s) == Engine!Max(s)
KeptStep(it, scan, s, K) ==
  IF s = {} THEN <<>> ELSE Engine!Reserve(it[s \ {Latest(s)}], scan[Latest(s)], K)
Keeps(it, scan, K) == it = [s \in SUBSET DOMAIN scan |-> KeptStep(it, scan, s, K)]

LEMMA FoldIs == \A scan, K : KeptOf(scan, K) = (CHOOSE it : Keeps(it, scan, K))[DOMAIN scan]
<1>1. ASSUME NEW scan, NEW K
      PROVE  KeptOf(scan, K) = (CHOOSE it : Keeps(it, scan, K))[DOMAIN scan]
  BY DEF KeptOf, Engine!FoldLeft, Engine!MapThenFoldSet, Keeps, KeptStep, Latest
<1>2. QED
  BY <1>1

LEMMA LatestOf ==
  ASSUME NEW N \in Nat, NEW s \in SUBSET (1 .. N), s # {}
  PROVE  Latest(s) \in s /\ \A i \in s \ {Latest(s)} : i < Latest(s)
<1>. DEFINE D == {N - i : i \in s}
<1>0. \A i \in s : i \in Nat /\ N - i \in Nat
  OBVIOUS
<1>1. D \in SUBSET Nat /\ D # {}
  BY <1>0
<1>2. PICK d \in D : \A e \in D : ~(e < d)
  <2>. HIDE DEF D
  <2>1. QED
    BY <1>1, SmallestOf
<1>3. PICK m \in s : d = N - m
  BY <1>2
<1>4. \A i \in s : m >= i
  <2>. SUFFICES ASSUME NEW i \in s PROVE m >= i
    OBVIOUS
  <2>1. ~(N - i < N - m)
    BY <1>2, <1>3
  <2>2. QED
    BY <2>1
<1>5. Latest(s) \in s /\ \A i \in s : Latest(s) >= i
  BY <1>4 DEF Latest, Engine!Max
<1>6. ASSUME NEW i \in s \ {Latest(s)} PROVE i < Latest(s)
  <2>1. i \in Nat /\ Latest(s) \in Nat /\ Latest(s) >= i /\ i # Latest(s)
    BY <1>0, <1>5
  <2>2. QED
    BY <2>1
<1>7. QED
  BY <1>5, <1>6

ScanOf(f, t) == [i \in DOMAIN f |-> RecordOf(f, t, i)]

(* A step of the fold over the ids in T keeps the most severe of them.      *)
LEMMA ScanStep ==
  ASSUME NEW f, Severities(f), NEW t, NEW K \in Nat \ {0},
         NEW T \in SUBSET DOMAIN f, NEW it,
         T # {} => IsMostSevere(it[T \ {Latest(T)}], f, t, T \ {Latest(T)}, K)
  PROVE  IsMostSevere(KeptStep(it, ScanOf(f, t), T, K), f, t, T, K)
<1>1. CASE T = {}
  <2>1. KeptStep(it, ScanOf(f, t), T, K) = <<>>
    BY <1>1 DEF KeptStep
  <2>2. Cardinality(T) = 0
    BY <1>1, FS_EmptySet
  <2>3. <<>> \in Seq(RecordsFor(f, t)) /\ Len(<<>>) = 0
    OBVIOUS
  <2>4. QED
    BY <2>1, <2>2, <2>3 DEF IsMostSevere, Engine!Fewer
<1>2. CASE T # {}
  <2>. DEFINE m == Latest(T)
              U == T \ {m}
  <2>1. m \in T /\ \A i \in U : i < m
    <3>1. Len(f) \in Nat /\ T \in SUBSET (1 .. Len(f))
      BY DEF Severities
    <3>2. QED
      BY <1>2, <3>1, LatestOf
  <2>2. KeptStep(it, ScanOf(f, t), T, K) = Engine!Reserve(it[U], RecordOf(f, t, m), K)
    BY <1>2, <2>1 DEF KeptStep, ScanOf
  <2>3. IsMostSevere(it[U], f, t, U, K)
    BY <1>2
  <2>4. U \in SUBSET DOMAIN f /\ m \in DOMAIN f /\ U \cup {m} = T
    BY <2>1
  <2>. HIDE DEF m, U
  <2>5. IsMostSevere(Engine!Reserve(it[U], RecordOf(f, t, m), K), f, t, U \cup {m}, K)
    BY <2>1, <2>3, <2>4, ReserveKeeps
  <2>6. QED
    BY <2>2, <2>4, <2>5
<1>3. QED
  BY <1>1, <1>2

(* So there is a sequence that the most severe of T make up.                *)
TheMostSevere(f, t, T, K) == CHOOSE q : IsMostSevere(q, f, t, T, K)

LEMMA MostSevereExists ==
  ASSUME NEW f, Severities(f), NEW t, NEW K \in Nat \ {0}, NEW T \in SUBSET DOMAIN f
  PROVE  IsMostSevere(TheMostSevere(f, t, T, K), f, t, T, K)
<1>. DEFINE S == DOMAIN f
            Good == {U \in SUBSET S : \E q : IsMostSevere(q, f, t, U, K)}
<1>1. ASSUME NEW U \in SUBSET S, \A x \in U : U \ {x} \in Good PROVE U \in Good
  <2>1. U # {} => Latest(U) \in U
    <3>1. Len(f) \in Nat /\ U \in SUBSET (1 .. Len(f))
      BY DEF Severities
    <3>2. QED
      BY <3>1, LatestOf
  <2>. DEFINE V == U \ {Latest(U)}
  <2>2. PICK q : U # {} => IsMostSevere(q, f, t, V, K)
    BY <1>1, <2>1
  <2>. DEFINE it == [W \in {V} |-> q]
  <2>3. it[V] = q
    OBVIOUS
  <2>. HIDE DEF it
  <2>4. U # {} => IsMostSevere(it[V], f, t, V, K)
    BY <2>2, <2>3
  <2>5. IsMostSevere(KeptStep(it, ScanOf(f, t), U, K), f, t, U, K)
    BY <2>4, ScanStep
  <2>6. QED
    BY <2>5
<1>2. IsFiniteSet(S)
  BY FS_Interval DEF Severities
<1>3. SUBSET S \subseteq Good
  <2>. HIDE DEF Good, S
  <2>1. QED
    BY <1>1, <1>2, SubsetInduction
<1>4. \E q : IsMostSevere(q, f, t, T, K)
  BY <1>3
<1>5. QED
  BY <1>4 DEF TheMostSevere

(* The fold's equation has a solution, and all solutions are alike.         *)
LEMMA FoldKeeps ==
  ASSUME NEW f, Severities(f), NEW t, NEW K \in Nat \ {0}
  PROVE  IsMostSevere(KeptOf(ScanOf(f, t), K), f, t, DOMAIN f, K)
<1>. DEFINE S == DOMAIN f
            scan == ScanOf(f, t)
            best == [T \in SUBSET S |-> TheMostSevere(f, t, T, K)]
            it == CHOOSE it : Keeps(it, scan, K)
<1>1. DOMAIN scan = S
  BY DEF ScanOf
<1>2. \A U \in SUBSET S : U # {} => Latest(U) \in U
  <2>1. Len(f) \in Nat /\ S = 1 .. Len(f)
    BY DEF Severities
  <2>2. QED
    BY <2>1, LatestOf
<1>3. \A T \in SUBSET S : best[T] = KeptStep(best, scan, T, K)
  <2>. SUFFICES ASSUME NEW T \in SUBSET S PROVE best[T] = KeptStep(best, scan, T, K)
    OBVIOUS
  <2>1. \A U \in SUBSET S : IsMostSevere(best[U], f, t, U, K)
    BY MostSevereExists
  <2>. HIDE DEF best
  <2>2. T \ {Latest(T)} \in SUBSET S
    OBVIOUS
  <2>3. IsMostSevere(KeptStep(best, scan, T, K), f, t, T, K)
    BY <2>1, <2>2, ScanStep
  <2>4. QED
    BY <2>1, <2>3, MostSevereUnique
<1>4. Keeps(best, scan, K)
  <2>1. best = [T \in SUBSET S |-> best[T]]
    OBVIOUS
  <2>. HIDE DEF best, scan
  <2>2. QED
    BY <1>1, <1>3, <2>1 DEF Keeps
<1>5. Keeps(it, scan, K)
  <2>. HIDE DEF best, scan
  <2>1. QED
    BY <1>4
<1>. HIDE DEF it, best, scan
<1>6. \A T \in SUBSET S : it[T] = KeptStep(it, scan, T, K)
  BY <1>1, <1>5 DEF Keeps
<1>. DEFINE Good == {T \in SUBSET S : IsMostSevere(it[T], f, t, T, K)}
<1>7. ASSUME NEW T \in SUBSET S, \A x \in T : T \ {x} \in Good PROVE T \in Good
  <2>1. T # {} => IsMostSevere(it[T \ {Latest(T)}], f, t, T \ {Latest(T)}, K)
    BY <1>2, <1>7
  <2>2. IsMostSevere(KeptStep(it, scan, T, K), f, t, T, K)
    BY <2>1, ScanStep DEF scan
  <2>3. QED
    BY <1>6, <2>2
<1>8. IsFiniteSet(S)
  BY FS_Interval DEF Severities
<1>9. SUBSET S \subseteq Good
  <2>. HIDE DEF Good, S
  <2>1. QED
    BY <1>7, <1>8, SubsetInduction
<1>10. IsMostSevere(it[S], f, t, S, K)
  BY <1>9
<1>11. KeptOf(scan, K) = it[S]
  BY <1>1, FoldIs DEF it
<1>12. QED
  BY <1>10, <1>11 DEF scan

-----------------------------------------------------------------------------
(* The sequence the property asks for.                                      *)
LEMMA MostSevereIs ==
  ASSUME NEW f, Severities(f), NEW t, NEW K \in Nat \ {0}
  PROVE  /\ IsMostSevere(Engine!MostSevere(f, t, K), f, t, DOMAIN f, K)
         /\ Cardinality(DOMAIN f) = Len(f)
<1>. DEFINE S == DOMAIN f
            N == Len(f)
            n == Engine!Fewer(N, K)
            at(p) == CHOOSE j \in S : Engine!Place(f, j) = p - 1
            q == [p \in 1 .. n |-> RecordOf(f, t, at(p))]
<1>1. N \in Nat /\ S = 1 .. N /\ Cardinality(S) = N
  <2>1. N \in Nat /\ S = 1 .. N
    BY DEF Severities
  <2>. HIDE DEF N, S
  <2>2. Cardinality(1 .. N) = N
    BY <2>1, FS_Interval
  <2>3. QED
    BY <2>1, <2>2
<1>2. n \in Nat /\ n <= N
  BY <1>1 DEF Engine!Fewer
<1>3. Engine!MostSevere(f, t, K) = q
  BY DEF Engine!MostSevere, RecordOf
<1>4. \A j : Engine!Place(f, j) = PlaceIn(f, S, j)
  BY SameCount DEF Engine!Place, PlaceIn, Above
<1>5. PICK r : IsMostSevere(r, f, t, S, K)
  BY MostSevereExists
<1>6. Len(r) = n /\ \A p \in 1 .. n : AtPlace(f, t, S, r[p], p - 1)
  BY <1>1, <1>5 DEF IsMostSevere
<1>. HIDE DEF n, N
<1>7. ASSUME NEW p \in 1 .. n
      PROVE  at(p) \in S /\ PlaceIn(f, S, at(p)) = p - 1
  <2>1. \E j \in S : Engine!Place(f, j) = p - 1
    BY <1>4, <1>6, <1>7 DEF AtPlace
  <2>2. at(p) \in S /\ Engine!Place(f, at(p)) = p - 1
    BY <2>1
  <2>. HIDE DEF at
  <2>3. QED
    BY <1>4, <2>2
<1>. HIDE DEF at
<1>8. q \in Seq(RecordsFor(f, t)) /\ Len(q) = n
  BY <1>2, <1>7 DEF RecordsFor
<1>9. \A p \in 1 .. n : AtPlace(f, t, S, q[p], p - 1)
  BY <1>7 DEF AtPlace
<1>. HIDE DEF q
<1>10. IsMostSevere(q, f, t, S, K)
  BY <1>1, <1>8, <1>9 DEF IsMostSevere, n
<1>11. QED
  BY <1>1, <1>3, <1>10 DEF N

(* What the kernel keeps of one type is what the property asks for.         *)
LEMMA KeptIsMostSevere ==
  ASSUME NEW f, Severities(f), NEW t, NEW K \in Nat \ {0}
  PROVE  KeptOf(ScanOf(f, t), K) = Engine!MostSevere(f, t, K)
BY FoldKeeps, MostSevereIs, MostSevereUnique

-----------------------------------------------------------------------------
(* Sequences end to end, from the equation of FlattenSeq().                 *)
FlatStep(fl, seqs, i) == IF i = 1 THEN seqs[i] ELSE fl[i - 1] \o seqs[i]
Flattens(fl, seqs, n) == fl = [i \in 1 .. n |-> FlatStep(fl, seqs, i)]

LEMMA FlattenIs ==
  \A seqs : Len(seqs) # 0 =>
    Engine!FlattenSeq(seqs) = (CHOOSE fl : Flattens(fl, seqs, Len(seqs)))[Len(seqs)]
<1>1. ASSUME NEW seqs, Len(seqs) # 0
      PROVE  Engine!FlattenSeq(seqs) = (CHOOSE fl : Flattens(fl, seqs, Len(seqs)))[Len(seqs)]
  BY <1>1 DEF Engine!FlattenSeq, Flattens, FlatStep
<1>2. QED
  BY <1>1

LEMMA FlatExists ==
  ASSUME NEW seqs, NEW n \in Nat
  PROVE  \E fl : Flattens(fl, seqs, n)
<1>. DEFINE Bad == {m \in Nat : ~\E fl : Flattens(fl, seqs, m)}
<1>1. SUFFICES ASSUME Bad # {} PROVE FALSE
  OBVIOUS
<1>2. PICK m \in Bad : \A k \in Bad : ~(k < m)
  <2>1. Bad \in SUBSET Nat
    OBVIOUS
  <2>. HIDE DEF Bad
  <2>2. QED
    BY <1>1, <2>1, SmallestOf
<1>3. m \in Nat /\ ~\E fl : Flattens(fl, seqs, m)
  BY <1>2
<1>4. CASE m = 0
  <2>. DEFINE none == [i \in 1 .. 0 |-> seqs]
  <2>1. none = [i \in 1 .. 0 |-> FlatStep(none, seqs, i)]
    OBVIOUS
  <2>2. Flattens(none, seqs, 0)
    BY <2>1 DEF Flattens
  <2>3. QED
    BY <1>3, <1>4, <2>2
<1>5. CASE m # 0
  <2>1. m - 1 \in Nat /\ m - 1 < m
    BY <1>3, <1>5
  <2>2. PICK fl : Flattens(fl, seqs, m - 1)
    BY <1>2, <2>1
  <2>. DEFINE more == [i \in 1 .. m |-> IF i = m THEN FlatStep(fl, seqs, m) ELSE fl[i]]
  <2>3. ASSUME NEW i \in 1 .. m PROVE more[i] = FlatStep(more, seqs, i)
    <3>1. i # 1 => i - 1 \in 1 .. m /\ i - 1 # m
      BY <1>3, <2>3
    <3>2. i # 1 => more[i - 1] = fl[i - 1]
      BY <3>1
    <3>3. i # m => fl[i] = FlatStep(fl, seqs, i)
      BY <1>3, <2>2, <2>3 DEF Flattens
    <3>4. more[i] = FlatStep(fl, seqs, i)
      BY <3>3
    <3>. HIDE DEF more
    <3>5. FlatStep(fl, seqs, i) = FlatStep(more, seqs, i)
      BY <3>2 DEF FlatStep
    <3>6. QED
      BY <3>4, <3>5
  <2>4. more = [i \in 1 .. m |-> more[i]]
    OBVIOUS
  <2>. HIDE DEF more
  <2>5. Flattens(more, seqs, m)
    BY <2>3, <2>4 DEF Flattens
  <2>6. QED
    BY <1>3, <2>5
<1>6. QED
  BY <1>4, <1>5

(* So they are joined one after the other.                                  *)
LEMMA FlattenSteps ==
  ASSUME NEW seqs, Len(seqs) \in Nat \ {0}
  PROVE  \E fl : /\ Engine!FlattenSeq(seqs) = fl[Len(seqs)]
                 /\ \A i \in 1 .. Len(seqs) : fl[i] = FlatStep(fl, seqs, i)
<1>. DEFINE fl == CHOOSE fl : Flattens(fl, seqs, Len(seqs))
<1>1. Flattens(fl, seqs, Len(seqs))
  BY FlatExists
<1>2. Engine!FlattenSeq(seqs) = fl[Len(seqs)]
  BY FlattenIs
<1>. HIDE DEF fl
<1>3. \A i \in 1 .. Len(seqs) : fl[i] = FlatStep(fl, seqs, i)
  BY <1>1 DEF Flattens
<1>4. QED
  BY <1>2, <1>3

LEMMA FlattenThree ==
  ASSUME NEW seqs, Len(seqs) = 3
  PROVE  Engine!FlattenSeq(seqs) = seqs[1] \o seqs[2] \o seqs[3]
<1>. DEFINE n == Len(seqs)
<1>1. n \in Nat \ {0}
  OBVIOUS
<1>2. PICK fl : /\ Engine!FlattenSeq(seqs) = fl[n]
                /\ \A i \in 1 .. n : fl[i] = FlatStep(fl, seqs, i)
  BY <1>1, FlattenSteps
<1>3. n = 3 /\ 1 \in 1 .. 3 /\ 2 \in 1 .. 3 /\ 3 \in 1 .. 3 /\ 2 - 1 = 1 /\ 3 - 1 = 2
  OBVIOUS
<1>. HIDE DEF n
<1>4. fl[1] = seqs[1]
  BY <1>2, <1>3 DEF FlatStep
<1>5. fl[2] = fl[1] \o seqs[2]
  <2>1. fl[2] = FlatStep(fl, seqs, 2)
    BY <1>2, <1>3
  <2>2. FlatStep(fl, seqs, 2) = fl[2 - 1] \o seqs[2]
    BY DEF FlatStep
  <2>3. QED
    BY <1>3, <2>1, <2>2
<1>6. fl[3] = fl[2] \o seqs[3]
  <2>1. fl[3] = FlatStep(fl, seqs, 3)
    BY <1>2, <1>3
  <2>2. FlatStep(fl, seqs, 3) = fl[3 - 1] \o seqs[3]
    BY DEF FlatStep
  <2>3. QED
    BY <1>3, <2>1, <2>2
<1>7. QED
  BY <1>2, <1>3, <1>4, <1>5, <1>6

LEMMA Strides ==
  ASSUME NEW i \in Nat \ {0}, NEW S \in Nat
  PROVE  /\ (i - 1) * S \in Nat /\ (i - 1) * S + S = i * S
         /\ \A r \in 1 .. i - 1 : (r - 1) * S \in Nat /\ (r - 1) * S + S <= (i - 1) * S
<1>1. i - 1 \in Nat
  OBVIOUS
<1>2. \A a, b \in Nat : a * b \in Nat
  OBVIOUS
<1>3. (i - 1) * S + S = i * S
  OBVIOUS
<1>4. ASSUME NEW r \in 1 .. i - 1 PROVE (r - 1) * S \in Nat /\ (r - 1) * S + S <= (i - 1) * S
  <2>1. r \in Nat /\ r - 1 \in Nat /\ i - 1 - r \in Nat
    OBVIOUS
  <2>2. (r - 1) * S + S = r * S
    BY <2>1
  <2>3. (i - 1) * S = r * S + (i - 1 - r) * S
    BY <2>1
  <2>4. (r - 1) * S \in Nat /\ (i - 1 - r) * S \in Nat /\ r * S \in Nat
    BY <1>2, <2>1
  <2>5. QED
    BY <2>2, <2>3, <2>4
<1>5. QED
  BY <1>1, <1>2, <1>3, <1>4

(* Rows of one length S: row r has the elements from (r - 1) * S + 1.       *)
AreRows(seqs, A, S) ==
  /\ S \in Nat /\ Len(seqs) \in Nat \ {0}
  /\ \A i \in 1 .. Len(seqs) : seqs[i] \in Seq(A) /\ Len(seqs[i]) = S
Joined(q, seqs, A, S) ==
  /\ q \in Seq(A) /\ Len(q) = Len(seqs) * S
  /\ \A r \in 1 .. Len(seqs) : \A p \in 1 .. S : q[(r - 1) * S + p] = seqs[r][p]

LEMMA Stretches ==
  ASSUME NEW u \in Nat, NEW v \in Nat, NEW w \in Nat, NEW p \in 1 .. w
  PROVE  /\ u + p \in 1 .. u + w /\ ~(u + p <= u) /\ u + p - u = p
         /\ v + w <= u => v + p \in 1 .. u + w /\ v + p <= u
OBVIOUS

LEMMA FlattenRows ==
  ASSUME NEW A, NEW S, NEW seqs, AreRows(seqs, A, S)
  PROVE  Joined(Engine!FlattenSeq(seqs), seqs, A, S)
<1>0. /\ S \in Nat /\ Len(seqs) \in Nat \ {0}
      /\ \A i \in 1 .. Len(seqs) : seqs[i] \in Seq(A) /\ Len(seqs[i]) = S
  BY DEF AreRows
<1>1. PICK fl : /\ Engine!FlattenSeq(seqs) = fl[Len(seqs)]
                /\ \A i \in 1 .. Len(seqs) : fl[i] = FlatStep(fl, seqs, i)
  BY <1>0, FlattenSteps
<1>. DEFINE Rows(i) == /\ fl[i] \in Seq(A) /\ Len(fl[i]) = i * S
                       /\ \A r \in 1 .. i : \A p \in 1 .. S : fl[i][(r - 1) * S + p] = seqs[r][p]
            Bad == {i \in 1 .. Len(seqs) : ~Rows(i)}
<1>2. Bad = {}
  <2>. SUFFICES ASSUME Bad # {} PROVE FALSE
    OBVIOUS
  <2>1. PICK i \in Bad : \A k \in Bad : ~(k < i)
    <3>1. Bad \in SUBSET Nat
      OBVIOUS
    <3>. HIDE DEF Bad
    <3>2. QED
      BY <3>1, SmallestOf
  <2>2. i \in 1 .. Len(seqs) /\ ~Rows(i) /\ i \in Nat \ {0}
    BY <1>0, <2>1
  <2>3. fl[i] = FlatStep(fl, seqs, i) /\ seqs[i] \in Seq(A) /\ Len(seqs[i]) = S
    BY <1>0, <1>1, <2>2
  <2>4. CASE i = 1
    <3>1. fl[1] = seqs[1] /\ 1 * S = S /\ \A p \in 1 .. S : (1 - 1) * S + p = p
      BY <1>0, <2>3, <2>4 DEF FlatStep
    <3>2. \A r \in 1 .. 1 : r = 1
      OBVIOUS
    <3>3. Rows(1)
      BY <2>3, <2>4, <3>1, <3>2
    <3>4. QED
      BY <2>2, <2>4, <3>3
  <2>5. CASE i # 1
    <3>. DEFINE a == fl[i - 1]
                b == seqs[i]
                k == (i - 1) * S
                from(r) == (r - 1) * S
    <3>1. i - 1 \in 1 .. Len(seqs) /\ i - 1 < i
      BY <1>0, <2>2, <2>5
    <3>2. Rows(i - 1)
      BY <2>1, <3>1
    <3>3. fl[i] = a \o b
      BY <2>3, <2>5 DEF FlatStep
    <3>4. /\ a \in Seq(A) /\ Len(a) = k
          /\ \A r \in 1 .. i - 1 : \A p \in 1 .. S : a[from(r) + p] = seqs[r][p]
      BY <3>2
    <3>5. k \in Nat /\ k + S = i * S /\ from(i) = k
      BY <1>0, <2>2, Strides
    <3>6. \A r \in 1 .. i - 1 : from(r) \in Nat /\ from(r) + S <= k
      BY <1>0, <2>2, Strides
    <3>7. b \in Seq(A) /\ Len(b) = S
      BY <2>3
    <3>. HIDE DEF a, b, k, from
    <3>8. /\ a \o b \in Seq(A) /\ Len(a \o b) = k + S
          /\ \A q \in 1 .. k + S : (a \o b)[q] = IF q <= k THEN a[q] ELSE b[q - k]
      <4>1. a \in Seq(A) /\ b \in Seq(A) /\ Len(a) = k /\ Len(b) = S
        BY <3>4, <3>7
      <4>2. /\ a \o b \in Seq(A) /\ Len(a \o b) = Len(a) + Len(b)
            /\ \A q \in 1 .. Len(a) + Len(b) :
                 (a \o b)[q] = IF q <= Len(a) THEN a[q] ELSE b[q - Len(a)]
        BY <4>1, ConcatProperties
      <4>3. QED
        BY <4>1, <4>2
    <3>9. ASSUME NEW r \in 1 .. i, NEW p \in 1 .. S
          PROVE  (a \o b)[from(r) + p] = seqs[r][p]
      <4>1. CASE r = i
        <5>1. from(r) = k
          BY <3>5, <4>1
        <5>. DEFINE q == k + p
        <5>2. q \in 1 .. k + S /\ ~(q <= k) /\ q - k = p
          <6>1. k \in Nat /\ p \in 1 .. S
            BY <3>5, <3>9
          <6>2. QED
            BY <1>0, <6>1, Stretches
        <5>. HIDE DEF q
        <5>3. (a \o b)[q] = b[q - k]
          BY <3>8, <5>2
        <5>4. (a \o b)[q] = b[p]
          BY <5>2, <5>3
        <5>5. QED
          BY <4>1, <5>1, <5>4 DEF b, q
      <4>2. CASE r # i
        <5>1. r \in 1 .. i - 1
          BY <2>2, <3>9, <4>2
        <5>. DEFINE q == from(r) + p
        <5>2. a[q] = seqs[r][p] /\ from(r) \in Nat /\ from(r) + S <= k
          BY <3>4, <3>6, <5>1
        <5>3. q \in 1 .. k + S /\ q <= k
          <6>1. k \in Nat /\ p \in 1 .. S
            BY <3>5, <3>9
          <6>2. QED
            BY <1>0, <5>2, <6>1, Stretches
        <5>. HIDE DEF q
        <5>4. (a \o b)[q] = a[q]
          BY <3>8, <5>3
        <5>5. QED
          BY <5>2, <5>4 DEF q
      <4>3. QED
        BY <4>1, <4>2
    <3>10. Len(a \o b) = i * S
      BY <3>5, <3>8
    <3>11. fl[i] \in Seq(A) /\ Len(fl[i]) = i * S
           /\ \A r \in 1 .. i : \A p \in 1 .. S : fl[i][from(r) + p] = seqs[r][p]
      <4>1. a \o b \in Seq(A) /\ Len(a \o b) = i * S
        BY <3>8, <3>10
      <4>2. QED
        BY <3>3, <3>9, <4>1, Zenon
    <3>12. Rows(i)
      BY <3>11 DEF from
    <3>13. QED
      BY <2>2, <3>12
  <2>6. QED
    BY <2>4, <2>5
<1>3. Len(seqs) \in 1 .. Len(seqs)
  BY <1>0
<1>4. Rows(Len(seqs))
  BY <1>2, <1>3
<1>5. QED
  BY <1>1, <1>4 DEF Joined

-----------------------------------------------------------------------------
(* The records of a row.                                                    *)
TypesOf == {"current", "low_voltage", "high_voltage"}
Record == [type : TypesOf \cup {"divergence"}, id : Int, severity : Int]
Part(ctg, lim, K, t) == Engine!MostSevere(Found[ctg][lim][t], t, K)
PartsOf(ctg, lim, K) ==
  [n \in DOMAIN Engine!Types |-> KeptOf(Engine!Scanned(ctg, lim, Engine!Types[n]), K)]

LEMMA TypesAre ==
  /\ Len(Engine!Types) = 3 /\ DOMAIN Engine!Types = 1 .. 3
  /\ Engine!Types[1] = "current" /\ Engine!Types[2] = "low_voltage"
  /\ Engine!Types[3] = "high_voltage"
BY DEF Engine!Types

LEMMA KeptUnfolds ==
  \A ctg, lim, K : Engine!Kept(ctg, lim, K) = Engine!FlattenSeq(PartsOf(ctg, lim, K))
BY DEF Engine!Kept, PartsOf, KeptOf

LEMMA ScannedIs ==
  \A ctg, lim, t : Engine!Scanned(ctg, lim, t) = ScanOf(Found[ctg][lim][t], t)
BY DEF Engine!Scanned, ScanOf, RecordOf

LEMMA FoundTyped ==
  ASSUME NEW ctg \in Engine!Contingencies, NEW lim \in Limits, NEW t \in TypesOf
  PROVE  Severities(Found[ctg][lim][t])
BY ContingencyAssumption DEF Engine!ListAssumption, Severities, TypesOf

LEMMA PartIsTyped ==
  ASSUME NEW ctg \in Engine!Contingencies, NEW lim \in Limits, NEW t \in TypesOf,
         NEW K \in Nat \ {0}
  PROVE  /\ Part(ctg, lim, K, t) \in Seq(Record)
         /\ Len(Part(ctg, lim, K, t)) = Engine!Fewer(Len(Found[ctg][lim][t]), K)
         /\ Len(Found[ctg][lim][t]) \in Nat
         /\ \A p \in 1 .. Len(Part(ctg, lim, K, t)) : Part(ctg, lim, K, t)[p].type = t
<1>. DEFINE f == Found[ctg][lim][t]
            q == Part(ctg, lim, K, t)
<1>1. Severities(f)
  BY FoundTyped
<1>2. IsMostSevere(q, f, t, DOMAIN f, K) /\ Cardinality(DOMAIN f) = Len(f)
  BY <1>1, MostSevereIs DEF Part
<1>3. Len(f) \in Nat /\ \A i \in DOMAIN f : i \in Int /\ f[i] \in Int
  BY <1>1 DEF Severities
<1>. HIDE DEF f, q
<1>4. \A x \in RecordsFor(f, t) : x \in Record /\ x.type = t
  BY <1>3 DEF RecordsFor, RecordOf, Record
<1>5. q \in Seq(RecordsFor(f, t)) /\ Len(q) = Engine!Fewer(Len(f), K)
  BY <1>2 DEF IsMostSevere
<1>6. \A p \in 1 .. Len(q) : q[p] \in RecordsFor(f, t)
  BY <1>5
<1>7. q \in Seq(Record)
  BY <1>4, <1>5
<1>8. QED
  BY <1>3, <1>4, <1>5, <1>6, <1>7 DEF f, q

(* What the kernel keeps of a row, type by type.                            *)
LEMMA KeptIs ==
  ASSUME NEW ctg \in Engine!Contingencies, NEW lim \in Limits, NEW K \in Nat \ {0}
  PROVE  Engine!Kept(ctg, lim, K) = Part(ctg, lim, K, "current")
           \o Part(ctg, lim, K, "low_voltage") \o Part(ctg, lim, K, "high_voltage")
<1>. DEFINE parts == PartsOf(ctg, lim, K)
<1>1. \A t \in TypesOf : KeptOf(Engine!Scanned(ctg, lim, t), K) = Part(ctg, lim, K, t)
  <2>. SUFFICES ASSUME NEW t \in TypesOf
                PROVE  KeptOf(Engine!Scanned(ctg, lim, t), K) = Part(ctg, lim, K, t)
    OBVIOUS
  <2>1. Severities(Found[ctg][lim][t])
    BY FoundTyped
  <2>2. KeptOf(ScanOf(Found[ctg][lim][t], t), K) = Part(ctg, lim, K, t)
    BY <2>1, KeptIsMostSevere DEF Part
  <2>3. QED
    BY <2>2, ScannedIs
<1>2. /\ parts[1] = Part(ctg, lim, K, "current") /\ parts[2] = Part(ctg, lim, K, "low_voltage")
      /\ parts[3] = Part(ctg, lim, K, "high_voltage") /\ Len(parts) = 3
  <2>1. DOMAIN parts = 1 .. 3 /\ Len(parts) = 3
    BY TypesAre DEF PartsOf
  <2>2. \A n \in 1 .. 3 : parts[n] = KeptOf(Engine!Scanned(ctg, lim, Engine!Types[n]), K)
    BY TypesAre DEF PartsOf
  <2>3. \A n \in 1 .. 3 : parts[n] = Part(ctg, lim, K, Engine!Types[n])
    <3>1. \A n \in 1 .. 3 : Engine!Types[n] \in TypesOf
      BY TypesAre DEF TypesOf
    <3>2. QED
      BY <1>1, <2>2, <3>1
  <2>4. QED
    BY <2>1, <2>3, TypesAre
<1>. HIDE DEF parts
<1>3. Engine!FlattenSeq(parts) = parts[1] \o parts[2] \o parts[3]
  BY <1>2, FlattenThree
<1>4. QED
  BY <1>2, <1>3, KeptUnfolds DEF parts

(* Three sequences end to end.                                              *)
LEMMA ThreeParts ==
  ASSUME NEW A, NEW a \in Seq(A), NEW b \in Seq(A), NEW c \in Seq(A)
  PROVE  /\ a \o b \o c \in Seq(A) /\ Len(a \o b \o c) = Len(a) + Len(b) + Len(c)
         /\ \A p \in 1 .. Len(a) + Len(b) + Len(c) :
              (a \o b \o c)[p] = IF p <= Len(a) THEN a[p]
                                 ELSE IF p <= Len(a) + Len(b) THEN b[p - Len(a)]
                                 ELSE c[p - (Len(a) + Len(b))]
<1>. DEFINE d == a \o b
<1>1. /\ d \in Seq(A) /\ Len(d) = Len(a) + Len(b)
      /\ \A i \in 1 .. Len(a) + Len(b) : d[i] = IF i <= Len(a) THEN a[i] ELSE b[i - Len(a)]
  BY ConcatProperties
<1>. HIDE DEF d
<1>2. /\ d \o c \in Seq(A) /\ Len(d \o c) = Len(d) + Len(c)
      /\ \A i \in 1 .. Len(d) + Len(c) : (d \o c)[i] = IF i <= Len(d) THEN d[i] ELSE c[i - Len(d)]
  <2>1. d \in Seq(A)
    BY <1>1
  <2>2. QED
    BY <2>1, ConcatProperties
<1>3. Len(a) \in Nat /\ Len(b) \in Nat /\ Len(c) \in Nat
  OBVIOUS
<1>4. ASSUME NEW p \in 1 .. Len(a) + Len(b) + Len(c)
      PROVE  (d \o c)[p] = IF p <= Len(a) THEN a[p]
                           ELSE IF p <= Len(a) + Len(b) THEN b[p - Len(a)]
                           ELSE c[p - (Len(a) + Len(b))]
  <2>1. (d \o c)[p] = IF p <= Len(a) + Len(b) THEN d[p] ELSE c[p - (Len(a) + Len(b))]
    BY <1>1, <1>2, <1>4
  <2>2. p <= Len(a) + Len(b) => d[p] = IF p <= Len(a) THEN a[p] ELSE b[p - Len(a)]
    BY <1>1, <1>3, <1>4
  <2>3. p <= Len(a) => p <= Len(a) + Len(b)
    BY <1>3, <1>4
  <2>4. QED
    BY <2>1, <2>2, <2>3
<1>5. QED
  BY <1>1, <1>2, <1>4 DEF d

(* A row of records has at most one stretch of slots, and of each type as   *)
(* many as were found or as the capacity keeps.                             *)
LEMMA KeptFits ==
  ASSUME NEW ctg \in Engine!Contingencies, NEW lim \in Limits, NEW K \in Nat \ {0}
  PROVE  LET q == Engine!Kept(ctg, lim, K) IN
         /\ q \in Seq(Record) /\ Len(q) <= 3 * K
         /\ \A p \in 1 .. Len(q) : q[p].type \in TypesOf
         /\ \A t \in TypesOf : Cardinality({p \in DOMAIN q : q[p].type = t})
                                 = Engine!Fewer(Len(Found[ctg][lim][t]), K)
<1>. DEFINE a == Part(ctg, lim, K, "current")
            b == Part(ctg, lim, K, "low_voltage")
            c == Part(ctg, lim, K, "high_voltage")
            q == a \o b \o c
            M(t) == Engine!Fewer(Len(Found[ctg][lim][t]), K)
<1>1. Engine!Kept(ctg, lim, K) = q
  BY KeptIs
<1>2. \A t \in TypesOf : M(t) \in Nat /\ M(t) <= K
  <2>. SUFFICES ASSUME NEW t \in TypesOf PROVE M(t) \in Nat /\ M(t) <= K
    OBVIOUS
  <2>1. Len(Found[ctg][lim][t]) \in Nat
    BY PartIsTyped
  <2>2. QED
    BY <2>1 DEF Engine!Fewer
<1>3. /\ a \in Seq(Record) /\ Len(a) = M("current")
      /\ \A p \in 1 .. Len(a) : a[p].type = "current"
  BY PartIsTyped DEF TypesOf
<1>4. /\ b \in Seq(Record) /\ Len(b) = M("low_voltage")
      /\ \A p \in 1 .. Len(b) : b[p].type = "low_voltage"
  BY PartIsTyped DEF TypesOf
<1>5. /\ c \in Seq(Record) /\ Len(c) = M("high_voltage")
      /\ \A p \in 1 .. Len(c) : c[p].type = "high_voltage"
  BY PartIsTyped DEF TypesOf
<1>6. "current" \in TypesOf /\ "low_voltage" \in TypesOf /\ "high_voltage" \in TypesOf
  BY DEF TypesOf
<1>. HIDE DEF a, b, c, M
<1>7. /\ q \in Seq(Record) /\ Len(q) = Len(a) + Len(b) + Len(c)
      /\ \A p \in 1 .. Len(a) + Len(b) + Len(c) :
           q[p] = IF p <= Len(a) THEN a[p]
                  ELSE IF p <= Len(a) + Len(b) THEN b[p - Len(a)]
                  ELSE c[p - (Len(a) + Len(b))]
  <2>1. a \in Seq(Record) /\ b \in Seq(Record) /\ c \in Seq(Record)
    BY <1>3, <1>4, <1>5
  <2>2. QED
    BY <2>1, ThreeParts
<1>. DEFINE i == Len(a)
            j == Len(a) + Len(b)
            n == Len(q)
<1>8. i \in Nat /\ j \in Nat /\ n \in Nat /\ i <= j /\ j <= n /\ n = Len(a) + Len(b) + Len(c)
  BY <1>3, <1>4, <1>5, <1>7
<1>9. DOMAIN q = 1 .. n
  BY <1>7
<1>10. n <= 3 * K
  BY <1>2, <1>3, <1>4, <1>5, <1>6, <1>8
<1>. HIDE DEF q
<1>11. ASSUME NEW p \in 1 .. n
       PROVE  q[p].type = IF p <= i THEN "current" ELSE IF p <= j THEN "low_voltage" ELSE "high_voltage"
  <2>1. CASE p <= i
    <3>1. q[p] = a[p] /\ p \in 1 .. Len(a)
      BY <1>7, <1>8, <1>11, <2>1
    <3>2. QED
      BY <1>3, <2>1, <3>1
  <2>2. CASE ~(p <= i) /\ p <= j
    <3>1. q[p] = b[p - Len(a)] /\ p - Len(a) \in 1 .. Len(b)
      BY <1>4, <1>7, <1>8, <1>11, <2>2
    <3>2. QED
      BY <1>4, <2>2, <3>1
  <2>3. CASE ~(p <= i) /\ ~(p <= j)
    <3>1. q[p] = c[p - (Len(a) + Len(b))] /\ p - (Len(a) + Len(b)) \in 1 .. Len(c)
      BY <1>5, <1>7, <1>8, <1>11, <2>3
    <3>2. QED
      BY <1>5, <2>3, <3>1
  <2>4. QED
    BY <2>1, <2>2, <2>3
<1>. DEFINE Of(t) == {p \in DOMAIN q : q[p].type = t}
<1>. HIDE DEF i, j, n
<1>12. /\ Of("current") = 1 .. i /\ Of("low_voltage") = i + 1 .. j
       /\ Of("high_voltage") = j + 1 .. n
  <2>1. \A p \in 1 .. n :
          /\ q[p].type = "current" <=> p \in 1 .. i
          /\ q[p].type = "low_voltage" <=> p \in i + 1 .. j
          /\ q[p].type = "high_voltage" <=> p \in j + 1 .. n
    <3>. SUFFICES ASSUME NEW p \in 1 .. n
                  PROVE  /\ q[p].type = "current" <=> p \in 1 .. i
                         /\ q[p].type = "low_voltage" <=> p \in i + 1 .. j
                         /\ q[p].type = "high_voltage" <=> p \in j + 1 .. n
      OBVIOUS
    <3>1. p \in 1 .. i <=> p <= i
      BY <1>8
    <3>2. p \in i + 1 .. j <=> ~(p <= i) /\ p <= j
      BY <1>8
    <3>3. p \in j + 1 .. n <=> ~(p <= i) /\ ~(p <= j)
      BY <1>8
    <3>4. QED
      BY <1>11, <3>1, <3>2, <3>3
  <2>2. 1 .. i \subseteq 1 .. n /\ i + 1 .. j \subseteq 1 .. n /\ j + 1 .. n \subseteq 1 .. n
    BY <1>8
  <2>3. QED
    BY <1>9, <2>1, <2>2
<1>13. /\ Cardinality(Of("current")) = M("current")
       /\ Cardinality(Of("low_voltage")) = M("low_voltage")
       /\ Cardinality(Of("high_voltage")) = M("high_voltage")
  <2>. HIDE DEF Of
  <2>1. Cardinality(Of("current")) = i
    <3>1. Cardinality(1 .. i) = i
      BY <1>8, FS_Interval
    <3>2. QED
      BY <1>12, <3>1
  <2>2. Cardinality(Of("low_voltage")) = j - i
    <3>1. Cardinality(i + 1 .. j) = IF i + 1 > j THEN 0 ELSE j - (i + 1) + 1
      BY <1>8, FS_Interval
    <3>2. QED
      BY <1>8, <1>12, <3>1
  <2>3. Cardinality(Of("high_voltage")) = n - j
    <3>1. Cardinality(j + 1 .. n) = IF j + 1 > n THEN 0 ELSE n - (j + 1) + 1
      <4>1. j + 1 \in Int /\ n \in Int
        BY <1>8
      <4>2. QED
        BY <4>1, FS_Interval
    <3>2. QED
      BY <1>8, <1>12, <3>1
  <2>4. i = Len(a) /\ j = Len(a) + Len(b)
    BY DEF i, j
  <2>5. Len(a) \in Nat /\ Len(b) \in Nat /\ Len(c) \in Nat
    BY <1>3, <1>4, <1>5
  <2>6. i = Len(a) /\ j - i = Len(b) /\ n - j = Len(c)
    BY <1>8, <2>4, <2>5
  <2>7. QED
    BY <1>3, <1>4, <1>5, <2>1, <2>2, <2>3, <2>6
<1>14. \A t \in TypesOf : Cardinality(Of(t)) = M(t)
  <2>. HIDE DEF Of
  <2>1. QED
    BY <1>13 DEF TypesOf
<1>15. \A p \in 1 .. Len(q) : q[p].type \in TypesOf
  BY <1>11 DEF TypesOf, n
<1>16. q \in Seq(Record) /\ Len(q) <= 3 * K
  BY <1>7, <1>10 DEF n
<1>17. QED
  BY <1>1, <1>14, <1>15, <1>16 DEF M

-----------------------------------------------------------------------------
(* A driver whose rows can be told the violations of.                       *)
Tellable(d) ==
  d.rows \in Seq(Engine!Contingencies) /\ d.viol.limits \in Limits /\ d.viol.capacity \in Capacities

LEMMA CapacityKeeps == \A K \in Capacities : K \in Nat \ {0} /\ Engine!Stride(K) = 3 * K
<1>1. \A K : Engine!Stride(K) = 3 * K
  BY TypesAre DEF Engine!Stride
<1>2. QED
  BY <1>1, ContingencyAssumption DEF Engine!ListAssumption

LEMMA RecordsFit ==
  ASSUME NEW d, Tellable(d), NEW c \in DOMAIN d.rows
  PROVE  LET q == Engine!Records(d, c) IN
         /\ q \in Seq(Record) /\ Len(q) <= Engine!Stride(d.viol.capacity)
         /\ ~Engine!LeftOut(d, d.rows[c]) => q = Engine!Expected(d.rows[c], d)
<1>. DEFINE ctg == d.rows[c]
            lim == d.viol.limits
            K == d.viol.capacity
            q == Engine!Records(d, c)
<1>1. ctg \in Engine!Contingencies /\ lim \in Limits /\ K \in Nat \ {0} /\ Engine!Stride(K) = 3 * K
  BY CapacityKeeps DEF Tellable
<1>2. CASE Engine!LeftOut(d, ctg)
  <2>1. q = <<>>
    BY <1>2 DEF Engine!Records
  <2>2. <<>> \in Seq(Record) /\ Len(<<>>) = 0 /\ 0 <= 3 * K
    BY <1>1
  <2>3. QED
    BY <1>1, <1>2, <2>1, <2>2
<1>3. CASE ~Engine!LeftOut(d, ctg) /\ ctg \in Diverges
  <2>1. q = <<Engine!Diverged>> /\ Engine!Expected(ctg, d) = <<Engine!Diverged>>
    BY <1>3 DEF Engine!Records, Engine!Expected
  <2>2. Engine!Diverged \in Record
    BY DEF Engine!Diverged, Record
  <2>3. <<Engine!Diverged>> \in Seq(Record) /\ Len(<<Engine!Diverged>>) = 1 /\ 1 <= 3 * K
    BY <1>1, <2>2
  <2>4. QED
    BY <1>1, <2>1, <2>3
<1>4. CASE ~Engine!LeftOut(d, ctg) /\ ctg \notin Diverges
  <2>1. q = Engine!Kept(ctg, lim, K)
    BY <1>4 DEF Engine!Records
  <2>2. Engine!Expected(ctg, d) = Part(ctg, lim, K, "current")
          \o Part(ctg, lim, K, "low_voltage") \o Part(ctg, lim, K, "high_voltage")
    BY <1>4 DEF Engine!Expected, Part
  <2>3. Engine!Kept(ctg, lim, K) \in Seq(Record) /\ Len(Engine!Kept(ctg, lim, K)) <= 3 * K
    BY <1>1, KeptFits
  <2>4. QED
    BY <1>1, <2>1, <2>2, <2>3, KeptIs
<1>5. QED
  BY <1>2, <1>3, <1>4

-----------------------------------------------------------------------------
(* The buffers of a run.                                                    *)
Slotted(d, c) ==
  Engine!Records(d, c)
    \o [i \in 1 .. Engine!Stride(d.viol.capacity) - Len(Engine!Records(d, c)) |-> Null]

LEMMA SlotsUnfold == \A d : Engine!Slots(d) = Engine!FlattenSeq([c \in DOMAIN d.rows |-> Slotted(d, c)])
BY DEF Engine!Slots, Slotted

LEMMA SlottedIs ==
  ASSUME NEW d, Tellable(d), NEW c \in DOMAIN d.rows
  PROVE  /\ Slotted(d, c) \in Seq(Record \cup {Null})
         /\ Len(Slotted(d, c)) = Engine!Stride(d.viol.capacity)
         /\ \A p \in 1 .. Len(Engine!Records(d, c)) : Slotted(d, c)[p] = Engine!Records(d, c)[p]
<1>. DEFINE q == Engine!Records(d, c)
            S == Engine!Stride(d.viol.capacity)
            A == Record \cup {Null}
            n == S - Len(q)
            pad == [i \in 1 .. n |-> Null]
<1>1. q \in Seq(Record) /\ Len(q) <= S
  BY RecordsFit
<1>2. S \in Nat
  BY CapacityKeeps DEF Tellable
<1>3. Slotted(d, c) = q \o pad
  BY DEF Slotted
<1>. HIDE DEF q, S
<1>4. q \in Seq(A) /\ Len(q) \in Nat /\ n \in Nat /\ Len(q) + n = S
  BY <1>1, <1>2
<1>. HIDE DEF n
<1>5. pad \in Seq(A) /\ Len(pad) = n
  BY <1>4
<1>. HIDE DEF pad, A
<1>6. /\ q \o pad \in Seq(A) /\ Len(q \o pad) = Len(q) + Len(pad)
      /\ \A i \in 1 .. Len(q) + Len(pad) : (q \o pad)[i] = IF i <= Len(q) THEN q[i] ELSE pad[i - Len(q)]
  <2>1. q \in Seq(A) /\ pad \in Seq(A)
    BY <1>4, <1>5
  <2>2. QED
    BY <2>1, ConcatProperties
<1>7. ASSUME NEW p \in 1 .. Len(q) PROVE (q \o pad)[p] = q[p]
  BY <1>4, <1>5, <1>6, <1>7
<1>8. QED
  BY <1>3, <1>4, <1>5, <1>6, <1>7 DEF q, S, A

LEMMA DividedByRows ==
  ASSUME NEW n \in Nat \ {0}, NEW S \in Nat
  PROVE  (n * S) \div n = S
<1>1. \A a, b \in Nat : a * b \in Nat /\ a * b = b * a
  OBVIOUS
<1>. DEFINE a == n * S
            m == a \div n
<1>2. a \in Nat
  BY <1>1
<1>3. ASSUME NEW x \in Nat PROVE x \div n \in Nat /\ (x \div n) * n <= x /\ x < (x \div n) * n + n
  OBVIOUS
<1>4. m \in Nat /\ m * n <= a /\ a < m * n + n
  BY <1>2, <1>3
<1>. HIDE DEF m
<1>5. a = S * n
  BY <1>1
<1>. HIDE DEF a
<1>6. m * n \in Nat /\ S * n \in Nat
  BY <1>1, <1>4
<1>7. ~(m < S)
  <2>1. SUFFICES ASSUME m < S PROVE FALSE
    OBVIOUS
  <2>2. S = m + 1 + (S - m - 1) /\ S - m - 1 \in Nat
    BY <1>4, <2>1
  <2>3. \A e \in Nat : (m + 1 + e) * n = m * n + n + e * n /\ e * n \in Nat
    BY <1>4
  <2>4. S * n >= m * n + n
    <3>. DEFINE e == S - m - 1
    <3>1. S = m + 1 + e /\ e \in Nat
      BY <2>2
    <3>. HIDE DEF e
    <3>2. (m + 1 + e) * n = m * n + n + e * n /\ e * n \in Nat
      BY <2>3, <3>1
    <3>3. QED
      BY <1>6, <3>1, <3>2
  <2>5. QED
    BY <1>4, <1>5, <1>6, <2>4
<1>8. ~(S < m)
  <2>1. SUFFICES ASSUME S < m PROVE FALSE
    OBVIOUS
  <2>2. m = S + 1 + (m - S - 1) /\ m - S - 1 \in Nat
    BY <1>4, <2>1
  <2>3. \A e \in Nat : (S + 1 + e) * n = S * n + n + e * n /\ e * n \in Nat
    OBVIOUS
  <2>4. m * n >= S * n + n
    <3>. DEFINE e == m - S - 1
    <3>1. m = S + 1 + e /\ e \in Nat
      BY <2>2
    <3>. HIDE DEF e
    <3>2. (S + 1 + e) * n = S * n + n + e * n /\ e * n \in Nat
      BY <2>3, <3>1
    <3>3. QED
      BY <1>6, <3>1, <3>2
  <2>5. QED
    BY <1>4, <1>5, <1>6, <2>4
<1>9. QED
  BY <1>4, <1>7, <1>8 DEF m, a

(* get_violations() reads of row c what the property asks for.              *)
LEMMA DecodedIs ==
  ASSUME NEW d, Tellable(d), NEW c \in DOMAIN d.rows
  PROVE  Engine!Decoded(Engine!Count(d), Engine!Slots(d))[c] = Engine!Expected(d.rows[c], d)
<1>. DEFINE n == Len(d.rows)
            K == d.viol.capacity
            S == Engine!Stride(K)
            A == Record \cup {Null}
            rows == [r \in DOMAIN d.rows |-> Slotted(d, r)]
            slots == Engine!Slots(d)
            count == Engine!Count(d)
            q == Engine!Records(d, c)
            L == Len(q)
            from == (c - 1) * S
            stride == Len(slots) \div (IF count = <<>> THEN 1 ELSE Len(count))
<1>1. n \in Nat \ {0} /\ DOMAIN d.rows = 1 .. n /\ c \in 1 .. n
  BY DEF Tellable
<1>2. S \in Nat
  BY CapacityKeeps DEF Tellable
<1>3. q \in Seq(Record) /\ L \in Nat /\ L <= S
  BY RecordsFit
<1>4. DOMAIN count = 1 .. n /\ count # <<>> /\ Len(count) = n
  <2>1. count = [r \in 1 .. n |-> IF Engine!LeftOut(d, d.rows[r]) THEN -1 ELSE Len(Engine!Records(d, r))]
    BY <1>1 DEF Engine!Count
  <2>2. DOMAIN count = 1 .. n
    BY <2>1
  <2>3. DOMAIN <<>> = {} /\ 1 \in 1 .. n
    BY <1>1
  <2>. HIDE DEF count
  <2>4. count # <<>>
    BY <2>2, <2>3
  <2>5. Len(count) = n
    BY <1>1, <2>1
  <2>6. QED
    BY <2>2, <2>4, <2>5
<1>5. Len(rows) = n /\ \A r \in 1 .. n : rows[r] = Slotted(d, r)
  BY <1>1
<1>6. \A r \in 1 .. n : /\ Slotted(d, r) \in Seq(A) /\ Len(Slotted(d, r)) = S
  BY <1>1, SlottedIs
<1>7. \A p \in 1 .. L : Slotted(d, c)[p] = q[p]
  BY SlottedIs
<1>8. slots = Engine!FlattenSeq(rows)
  BY SlotsUnfold
<1>. HIDE DEF n, S, A, rows, slots, q, L
<1>9. /\ Len(slots) = n * S
      /\ \A r \in 1 .. n : \A p \in 1 .. S : slots[(r - 1) * S + p] = Slotted(d, r)[p]
  <2>1. AreRows(rows, A, S)
    BY <1>1, <1>2, <1>5, <1>6 DEF AreRows
  <2>2. Joined(Engine!FlattenSeq(rows), rows, A, S)
    BY <2>1, FlattenRows
  <2>3. QED
    BY <1>5, <1>8, <2>2 DEF Joined
<1>10. stride = S
  <2>1. (IF count = <<>> THEN 1 ELSE Len(count)) = n
    BY <1>4
  <2>2. (n * S) \div n = S
    BY <1>1, <1>2, DividedByRows
  <2>. HIDE DEF count
  <2>3. QED
    BY <1>9, <2>1, <2>2
<1>11. Engine!Decoded(count, slots)[c]
         = IF count[c] < 0 THEN Engine!NotSimulated
           ELSE SubSeq(slots, (c - 1) * stride + 1, (c - 1) * stride + count[c])
  <2>. HIDE DEF count
  <2>1. Engine!Decoded(count, slots)
          = [r \in DOMAIN count |-> IF count[r] < 0 THEN Engine!NotSimulated
                                    ELSE SubSeq(slots, (r - 1) * stride + 1, (r - 1) * stride + count[r])]
    BY DEF Engine!Decoded
  <2>. HIDE DEF stride
  <2>2. QED
    BY <1>1, <1>4, <2>1
<1>12. ASSUME Engine!LeftOut(d, d.rows[c])
       PROVE  Engine!Decoded(count, slots)[c] = Engine!Expected(d.rows[c], d)
  <2>1. count[c] = -1
    BY <1>12 DEF Engine!Count
  <2>2. Engine!Expected(d.rows[c], d) = Engine!NotSimulated
    BY <1>12 DEF Engine!Expected
  <2>3. -1 < 0
    OBVIOUS
  <2>. HIDE DEF count, stride
  <2>4. QED
    BY <1>11, <2>1, <2>2, <2>3
<1>13. ASSUME ~Engine!LeftOut(d, d.rows[c])
       PROVE  Engine!Decoded(count, slots)[c] = Engine!Expected(d.rows[c], d)
  <2>1. count[c] = L
    BY <1>13 DEF Engine!Count, L, q
  <2>2. Engine!Expected(d.rows[c], d) = q
    BY <1>13, RecordsFit DEF q
  <2>. HIDE DEF count, stride
  <2>. DEFINE part == SubSeq(slots, from + 1, from + L)
  <2>3. Engine!Decoded(count, slots)[c] = part
    <3>1. ~(L < 0)
      BY <1>3
    <3>2. QED
      BY <1>10, <1>11, <2>1, <3>1
  <2>4. from \in Nat
    <3>1. c - 1 \in Nat /\ \A a, b \in Nat : a * b \in Nat
      BY <1>1
    <3>2. QED
      BY <1>2, <3>1
  <2>5. \A p \in 1 .. S : slots[from + p] = Slotted(d, c)[p]
    BY <1>1, <1>9
  <2>. HIDE DEF from
  <2>6. \A p \in 1 .. L : slots[from + p] = q[p] /\ q[p] \in Record
    <3>1. \A p \in 1 .. L : p \in 1 .. S
      BY <1>2, <1>3
    <3>2. \A p \in 1 .. L : q[p] \in Record
      BY <1>3 DEF L
    <3>3. QED
      BY <1>7, <2>5, <3>1, <3>2
  <2>7. \A i \in from + 1 .. from + L : slots[i] \in Record
    <3>. SUFFICES ASSUME NEW i \in from + 1 .. from + L PROVE slots[i] \in Record
      OBVIOUS
    <3>1. i - from \in 1 .. L /\ from + (i - from) = i
      BY <1>3, <2>4
    <3>2. slots[from + (i - from)] \in Record
      BY <2>6, <3>1
    <3>3. QED
      BY <3>1, <3>2
  <2>. DEFINE to == from + L
  <2>8. to \in Int /\ from \in Int /\ 0 <= from /\ from <= to /\ to - from = L
    BY <1>3, <2>4
  <2>. HIDE DEF to
  <2>9. /\ SubSeq(slots, from + 1, to) \in Seq(Record)
        /\ Len(SubSeq(slots, from + 1, to)) = to - from
        /\ \A i \in 1 .. to - from : SubSeq(slots, from + 1, to)[i] = slots[from + i]
    <3>1. \A i \in from + 1 .. to : slots[i] \in Record
      BY <2>7 DEF to
    <3>2. QED
      BY <2>8, <3>1, PartIs
  <2>10. part \in Seq(Record) /\ Len(part) = L /\ \A i \in 1 .. L : part[i] = slots[from + i]
    BY <2>8, <2>9 DEF to
  <2>. HIDE DEF part
  <2>11. \A i \in 1 .. Len(part) : part[i] = q[i]
    BY <2>6, <2>10
  <2>12. part = q
    <3>1. Len(part) = Len(q)
      BY <2>10 DEF L
    <3>2. QED
      BY <1>3, <2>10, <2>11, <3>1, SeqEqual
  <2>13. QED
    BY <2>2, <2>3, <2>12
<1>14. QED
  BY <1>12, <1>13 DEF slots

(* The truncation flag of row c, and the records that it tells are missing. *)
LEMMA TruncatedIs ==
  ASSUME NEW d, Tellable(d), NEW c \in DOMAIN d.rows,
         NEW q, q = Engine!Expected(d.rows[c], d)
  PROVE  Engine!Truncated(d)[c] <=>
           /\ q # Engine!NotSimulated /\ d.rows[c] \notin Diverges
           /\ \E n \in DOMAIN Engine!Types :
                Len(Found[d.rows[c]][d.viol.limits][Engine!Types[n]])
                  > Engine!Cardinality(Engine!OfType(q, Engine!Types[n]))
<1>. DEFINE ctg == d.rows[c]
            lim == d.viol.limits
            K == d.viol.capacity
            f(n) == Found[ctg][lim][Engine!Types[n]]
            stays(n) == Engine!Cardinality(Engine!OfType(q, Engine!Types[n]))
<1>1. ctg \in Engine!Contingencies /\ lim \in Limits /\ K \in Nat \ {0}
  BY CapacityKeeps DEF Tellable
<1>2. Engine!Truncated(d)[c] <=>
        /\ ~Engine!LeftOut(d, ctg) /\ ctg \notin Diverges
        /\ \E n \in DOMAIN Engine!Types : Len(f(n)) > K
  BY DEF Engine!Truncated
<1>3. CASE Engine!LeftOut(d, ctg)
  <2>1. q = Engine!NotSimulated
    BY <1>3 DEF Engine!Expected
  <2>2. QED
    BY <1>2, <1>3, <2>1
<1>4. CASE ctg \in Diverges
  BY <1>2, <1>4
<1>5. CASE ~Engine!LeftOut(d, ctg) /\ ctg \notin Diverges
  <2>1. q = Engine!Kept(ctg, lim, K)
    <3>1. Engine!Records(d, c) = Engine!Kept(ctg, lim, K)
      BY <1>5 DEF Engine!Records
    <3>2. Engine!Records(d, c) = q
      BY <1>5, RecordsFit
    <3>3. QED
      BY <3>1, <3>2
  <2>2. /\ \A p \in 1 .. Len(q) : q[p].type \in TypesOf
        /\ \A t \in TypesOf : Cardinality({p \in DOMAIN q : q[p].type = t})
                                = Engine!Fewer(Len(Found[ctg][lim][t]), K)
    BY <1>1, <2>1, KeptFits
  <2>3. q # Engine!NotSimulated
    <3>1. SUFFICES ASSUME q = Engine!NotSimulated PROVE FALSE
      OBVIOUS
    <3>2. Len(q) = 1 /\ q[1].type = "not_simulated"
      BY <3>1 DEF Engine!NotSimulated
    <3>3. q[1].type \in TypesOf
      BY <2>2, <3>2
    <3>4. QED
      BY <3>2, <3>3 DEF TypesOf
  <2>4. ASSUME NEW n \in DOMAIN Engine!Types
        PROVE  Len(f(n)) > K <=> Len(f(n)) > stays(n)
    <3>. DEFINE t == Engine!Types[n]
    <3>1. t \in TypesOf
      <4>1. n \in 1 .. 3
        BY TypesAre
      <4>2. QED
        BY <4>1, TypesAre DEF TypesOf
    <3>2. stays(n) = Cardinality({p \in DOMAIN q : q[p].type = t})
      <4>1. Engine!OfType(q, t) = {p \in DOMAIN q : q[p].type = t}
        BY DEF Engine!OfType
      <4>2. QED
        BY <4>1, SameCount
    <3>3. Len(f(n)) \in Nat
      BY <1>1, <3>1, PartIsTyped
    <3>4. stays(n) = Engine!Fewer(Len(f(n)), K)
      BY <2>2, <3>1, <3>2
    <3>. HIDE DEF stays, f
    <3>5. QED
      BY <1>1, <3>3, <3>4 DEF Engine!Fewer
  <2>. HIDE DEF stays, f
  <2>5. (\E n \in DOMAIN Engine!Types : Len(f(n)) > K)
          <=> (\E n \in DOMAIN Engine!Types : Len(f(n)) > stays(n))
    BY <2>4
  <2>6. QED
    BY <1>2, <1>5, <2>3, <2>5 DEF stays, f
<1>6. QED
  BY <1>3, <1>4, <1>5

-----------------------------------------------------------------------------
(* The violations of a run: the invariant.  Lists and rows are sequences of *)
(* contingencies, whatever an error left of them.                           *)
ListsTyped(r) ==
  /\ r.list \in Seq(Engine!Contingencies) /\ r.driver.rows \in Seq(Engine!Contingencies)
  /\ r.capacity \in Capacities /\ r.limits \in Limits \cup {Null}

(* Violations that can be read are of the driver, solved and checked with   *)
(* the limits in use and with the capacity that its driver recorded; n rows *)
(* of residuals go with them.                                               *)
RunRead(r, l, n) ==
  r.hasViolations /\ "run" \notin l =>
    /\ r.driver.solved /\ r.check
    /\ r.limits \in Limits /\ r.driver.viol.limits = r.limits
    /\ r.driver.viol.capacity \in Capacities
    /\ n = Len(r.driver.rows)

RunChecked(r) ==
  r.check => r.driver.viol = [limits |-> r.limits, data |-> r.data, capacity |-> r.capacity]

ViolationsInv ==
  /\ AnalysisInv
  /\ ListsTyped(analysis) /\ RunRead(analysis, lapse, residualRows)
  /\ outcome = "computed" => RunChecked(analysis)

LEMMA ContingenciesTyped ==
  ASSUME NEW l \in Lists
  PROVE  l \in Seq(Engine!Contingencies)
BY ContingencyAssumption DEF Engine!ListAssumption

(* A call that is not a run() that returned.                                *)
LEMMA NothingRead ==
  ASSUME NEW q, analysis' = q, ListsTyped(q), RunRead(q, lapse', residualRows'),
         outcome' # "computed", AnalysisInv'
  PROVE  ViolationsInv'
<1>1. ListsTyped(analysis)' /\ RunRead(analysis, lapse, residualRows)'
  BY DEF ListsTyped, RunRead
<1>2. QED
  BY <1>1 DEF ViolationsInv

(* Setters of what violations are not read with.                            *)
SameReading(q, r) ==
  /\ q.driver = r.driver /\ q.limits = r.limits
  /\ q.check = r.check /\ q.hasViolations = r.hasViolations

LEMMA SameReadingKeeps ==
  ASSUME ViolationsInv, AnalysisInv', SameReading(analysis', analysis),
         analysis'.list \in Seq(Engine!Contingencies), analysis'.capacity \in Capacities,
         {"run"} \cap lapse' = {"run"} \cap lapse, residualRows' = residualRows,
         outcome' # "computed"
  PROVE  ViolationsInv'
<1>. DEFINE q == analysis'
<1>1. ListsTyped(q)
  BY DEF ViolationsInv, ListsTyped, SameReading
<1>2. "run" \in lapse' <=> "run" \in lapse
  OBVIOUS
<1>3. RunRead(q, lapse', residualRows')
  BY <1>2 DEF ViolationsInv, RunRead, SameReading
<1>4. QED
  BY <1>1, <1>3, NothingRead

LEMMA ReadingOptions ==
  ASSUME ViolationsInv, AnalysisInv',
         \/ \E d \in Data : Engine!SetBranchData(d)
         \/ \E v \in BOOLEAN : Engine!SetHandleDisconnectedGrid(v)
         \/ \E k \in Capacities : Engine!SetCapacity(k)
         \/ \E x \in Solvers : Engine!SetSolver(x)
         \/ \E v \in BOOLEAN : Engine!SetReferenceSlack(v)
  PROVE  ViolationsInv'
<1>1. IsAnalysis(analysis) /\ ListsTyped(analysis)
  BY DEF ViolationsInv, AnalysisInv, AnalysisSound
<1>2. /\ SameReading(analysis', analysis)
      /\ analysis'.list = analysis.list /\ analysis'.capacity \in Capacities
  BY <1>1 DEF IsAnalysis, AnalysisFields, SameReading, ListsTyped, Engine!Ok,
              Engine!SetBranchData, Engine!SetHandleDisconnectedGrid, Engine!SetCapacity,
              Engine!SetSolver, Engine!SetReferenceSlack
<1>3. lapse' = lapse /\ residualRows' = residualRows /\ outcome' = "ok"
  BY DEF Engine!Keep, Engine!Ok,
         Engine!SetBranchData, Engine!SetHandleDisconnectedGrid, Engine!SetCapacity,
         Engine!SetSolver, Engine!SetReferenceSlack
<1>4. QED
  BY <1>1, <1>2, <1>3, SameReadingKeeps DEF ListsTyped

LEMMA ReadingSlack ==
  ASSUME ViolationsInv, AnalysisInv',
         \/ \E d \in RdData : Engine!SetSlackRedistributionData(d)
         \/ \E v \in BOOLEAN : Engine!SetRedistributeSlack(v)
         \/ \E d \in RdData : Engine!SetRedistributeSlackFromGrid(d)
  PROVE  ViolationsInv'
<1>1. IsAnalysis(analysis) /\ ListsTyped(analysis)
  BY DEF ViolationsInv, AnalysisInv, AnalysisSound
<1>2. lapse' = lapse /\ residualRows' = residualRows /\ outcome' = "ok"
  BY DEF Engine!Keep, Engine!Ok, Engine!SetSlackRedistributionData,
         Engine!SetRedistributeSlack, Engine!SetRedistributeSlackFromGrid
<1>3. ASSUME NEW r, IsAnalysis(r), NEW v
      PROVE  LET q == Engine!WithRd(r, v) IN
             SameReading(q, r) /\ q.list = r.list /\ q.capacity = r.capacity
  BY <1>3 DEF IsAnalysis, AnalysisFields, SameReading, Engine!WithRd
<1>. DEFINE Alike(q, r) == SameReading(q, r) /\ q.list = r.list /\ q.capacity = r.capacity
<1>4. Alike(analysis', analysis)
  <2>1. ASSUME NEW d \in RdData, Engine!SetSlackRedistributionData(d)
        PROVE  Alike(analysis', analysis)
    BY <1>1, <2>1 DEF IsAnalysis, AnalysisFields, SameReading, Engine!Ok,
                      Engine!SetSlackRedistributionData
  <2>2. ASSUME NEW v \in BOOLEAN, Engine!SetRedistributeSlack(v)
        PROVE  Alike(analysis', analysis)
    BY <1>1, <1>3, <2>2 DEF Engine!Ok, Engine!SetRedistributeSlack
  <2>3. ASSUME NEW d \in RdData, Engine!SetRedistributeSlackFromGrid(d)
        PROVE  Alike(analysis', analysis)
    <3>. DEFINE r == [analysis EXCEPT !.rdData = d, !.newRows = TRUE]
    <3>1. analysis' = Engine!WithRd(r, TRUE)
      BY <2>3 DEF Engine!SetRedistributeSlackFromGrid, Engine!Ok
    <3>2. /\ IsAnalysis(r) /\ SameReading(r, analysis)
          /\ r.list = analysis.list /\ r.capacity = analysis.capacity
      BY <1>1 DEF IsAnalysis, AnalysisFields, SameReading
    <3>. HIDE DEF r
    <3>3. QED
      BY <1>3, <3>1, <3>2 DEF SameReading
  <2>4. QED
    BY <2>1, <2>2, <2>3
<1>5. QED
  BY <1>1, <1>2, <1>4, SameReadingKeeps DEF ListsTyped

LEMMA ReadingLists ==
  ASSUME ViolationsInv, AnalysisInv', NEW l \in Lists,
         \/ Engine!BuildContingencies(l)
         \/ \E n \in 0 .. (Len(l) - 1) : Engine!BuildContingenciesRefused(l, n)
  PROVE  ViolationsInv'
<1>1. IsAnalysis(analysis) /\ ListsTyped(analysis)
  BY DEF ViolationsInv, AnalysisInv, AnalysisSound
<1>2. l \in Seq(Engine!Contingencies)
  BY ContingenciesTyped
<1>3. CASE Engine!BuildContingencies(l)
  <2>1. /\ analysis' = [analysis EXCEPT !.list = l, !.hasList = TRUE, !.flags = "clean",
                                        !.choice = Null, !.newRows = TRUE]
        /\ lapse' = lapse \ {"list"} /\ outcome' = "ok" /\ residualRows' = residualRows
    BY <1>3 DEF Engine!BuildContingencies, Engine!Ok
  <2>2. /\ SameReading(analysis', analysis) /\ analysis'.list = l
        /\ analysis'.capacity = analysis.capacity
    BY <1>1, <2>1 DEF IsAnalysis, AnalysisFields, SameReading
  <2>3. {"run"} \cap lapse' = {"run"} \cap lapse
    BY <2>1
  <2>4. QED
    BY <1>1, <1>2, <2>1, <2>2, <2>3, SameReadingKeeps DEF ListsTyped
<1>4. ASSUME NEW n \in 0 .. (Len(l) - 1), Engine!BuildContingenciesRefused(l, n)
      PROVE  ViolationsInv'
  <2>1. /\ analysis' = [analysis EXCEPT !.list = SubSeq(l, 1, n), !.flags = "clean"]
        /\ lapse' = lapse \cup {"list"} /\ outcome' = "raised" /\ residualRows' = residualRows
    BY <1>4 DEF Engine!BuildContingenciesRefused, Engine!Raised
  <2>2. /\ SameReading(analysis', analysis) /\ analysis'.list = SubSeq(l, 1, n)
        /\ analysis'.capacity = analysis.capacity
    BY <1>1, <2>1 DEF IsAnalysis, AnalysisFields, SameReading
  <2>3. SubSeq(l, 1, n) \in Seq(Engine!Contingencies)
    BY <1>2, <1>4
  <2>4. {"run"} \cap lapse' = {"run"} \cap lapse
    BY <2>1
  <2>5. QED
    BY <1>1, <2>1, <2>2, <2>3, <2>4, SameReadingKeeps DEF ListsTyped
<1>5. QED
  BY <1>3, <1>4

(* Calls that leave the session as it is.                                   *)
LEMMA ReadingNothing ==
  ASSUME ViolationsInv, AnalysisInv',
         \/ Engine!BuildContingenciesTooEarly \/ Engine!SetSolverRefused \/ Engine!RunRefused
         \/ Engine!ComputeFlows \/ Engine!ComputeFlowsRefused
  PROVE  ViolationsInv'
<1>1. /\ analysis' = analysis /\ lapse' = lapse /\ residualRows' = residualRows
      /\ outcome' \in {"ok", "raised"}
  BY DEF Engine!BuildContingenciesTooEarly, Engine!SetSolverRefused, Engine!RunRefused,
         Engine!ComputeFlows, Engine!ComputeFlowsRefused, Engine!Raised, Engine!Keep
<1>2. QED
  BY <1>1, SameReadingKeeps DEF ViolationsInv, ListsTyped, SameReading

(* The two setters that forget the violations read so far.                  *)
LEMMA ReadingForgotten ==
  ASSUME ViolationsInv, AnalysisInv',
         \/ \E v \in BOOLEAN : Engine!SetComputeLimitViolations(v)
         \/ \E l \in Limits : Engine!SetLimits(l)
  PROVE  ViolationsInv'
<1>. DEFINE q == analysis'
<1>1. IsAnalysis(analysis) /\ ListsTyped(analysis)
  BY DEF ViolationsInv, AnalysisInv, AnalysisSound
<1>2. lapse' = lapse /\ residualRows' = residualRows /\ outcome' = "ok"
  BY DEF Engine!Keep, Engine!Ok, Engine!SetComputeLimitViolations, Engine!SetLimits
<1>3. ASSUME NEW l \in Limits, Engine!SetLimits(l)
      PROVE  ViolationsInv'
  <2>1. /\ q.list = analysis.list /\ q.driver = analysis.driver
        /\ q.capacity = analysis.capacity /\ q.limits = l /\ q.hasViolations = FALSE
    BY <1>1, <1>3 DEF IsAnalysis, AnalysisFields, Engine!Ok, Engine!SetLimits
  <2>2. ListsTyped(q) /\ RunRead(q, lapse', residualRows')
    BY <1>1, <2>1 DEF ListsTyped, RunRead
  <2>3. QED
    BY <1>2, <2>2, NothingRead
<1>4. ASSUME NEW v \in BOOLEAN, Engine!SetComputeLimitViolations(v)
      PROVE  ViolationsInv'
  <2>1. q = [analysis EXCEPT !.check = v,
                             !.hasViolations = analysis.hasViolations /\ (v = analysis.check)]
    BY <1>4 DEF Engine!Ok, Engine!SetComputeLimitViolations
  <2>2. /\ q.list = analysis.list /\ q.driver = analysis.driver /\ q.check = v
        /\ q.capacity = analysis.capacity /\ q.limits = analysis.limits
        /\ q.hasViolations = (analysis.hasViolations /\ (v = analysis.check))
    BY <1>1, <2>1 DEF IsAnalysis, AnalysisFields
  <2>3. q.hasViolations => analysis.hasViolations /\ v = analysis.check
    BY <2>2, Zenon
  <2>4. ListsTyped(q)
    BY <1>1, <2>2 DEF ListsTyped
  <2>5. RunRead(q, lapse', residualRows')
    BY <1>2, <2>2, <2>3 DEF ViolationsInv, RunRead
  <2>6. QED
    BY <1>2, <2>4, <2>5, NothingRead
<1>5. QED
  BY <1>3, <1>4

(* The driver of a run(), from the one before it: freed with its base       *)
(* state, kept, or built for the list.                                      *)
LEMMA BasedDriver ==
  ASSUME NEW r, IsAnalysis(r)
  PROVE  Engine!Based(r).driver = r.driver \/ Engine!Based(r).driver = Engine!NoDriver
<1>. DEFINE c == Engine!Chosen(r)
            w == Engine!Wanted(r)
            m == Engine!Moved(r)
            b == Rebased(r)
<1>1. IsAnalysis(c) /\ c.driver = r.driver
  BY DEF Engine!Chosen, IsAnalysis, AnalysisFields
<1>2. m = [c EXCEPT !.refBus = w, !.driver = Engine!NoDriver]
  BY DEF Engine!Moved
<1>3. Engine!Based(r) = c \/ Engine!Based(r) = b
  BY DEF Engine!Based, Rebased
<1>4. b = [m EXCEPT !.baseRef = w]
  BY DEF Rebased
<1>. HIDE DEF c, w, m, b
<1>5. DOMAIN m = AnalysisFields /\ m.driver = Engine!NoDriver
  BY <1>1, <1>2 DEF IsAnalysis, AnalysisFields
<1>6. b.driver = Engine!NoDriver
  BY <1>4, <1>5 DEF AnalysisFields
<1>7. QED
  BY <1>1, <1>3, <1>6

LEMMA BuiltRows ==
  ASSUME NEW z, NEW l, AnalysisSound(z, l)
  PROVE  Engine!Built(z).driver.rows = z.list \/ Engine!Built(z).driver = z.driver
<1>. DEFINE u == Engine!Sourced(z)
            d == Engine!Driver(z)
            q == Engine!Built(z)
<1>1. CASE Engine!Cold(z)
  <2>1. IsAnalysis(u)
    BY SourcedSound
  <2>2. q = [u EXCEPT !.driver = d, !.newRows = FALSE]
    BY <1>1 DEF Engine!Built
  <2>3. d.rows = z.list
    BY DEF Engine!Driver
  <2>. HIDE DEF u, d, q
  <2>4. q.driver = d
    BY <2>1, <2>2 DEF IsAnalysis, AnalysisFields
  <2>5. QED
    BY <2>3, <2>4 DEF q
<1>2. CASE ~Engine!Cold(z)
  BY <1>2 DEF Engine!Built
<1>3. QED
  BY <1>1, <1>2

(* Violations requested are computed with what is in use.                   *)
LEMMA CheckedIs ==
  ASSUME NEW r, IsAnalysis(r)
  PROVE  RunChecked(Engine!Checked(r))
<1>. DEFINE v == [limits |-> r.limits, data |-> r.data, capacity |-> r.capacity]
            d == [r.driver EXCEPT !.viol = v]
            q == Engine!Checked(r)
<1>1. CASE ~r.check
  <2>1. q = r
    BY <1>1 DEF Engine!Checked
  <2>2. QED
    BY <1>1, <2>1 DEF RunChecked
<1>2. CASE r.check
  <2>1. q = [r EXCEPT !.driver = d]
    BY <1>2 DEF Engine!Checked, IsAnalysis, AnalysisFields
  <2>. HIDE DEF v, q
  <2>2. d.viol = v
    BY DEF IsAnalysis, DriverFields
  <2>. HIDE DEF d
  <2>3. /\ q.driver = d /\ q.limits = r.limits /\ q.data = r.data
        /\ q.capacity = r.capacity
    BY <2>1 DEF IsAnalysis, AnalysisFields
  <2>4. q.driver.viol = [limits |-> q.limits, data |-> q.data, capacity |-> q.capacity]
    BY <2>2, <2>3 DEF v
  <2>5. QED
    BY <2>4 DEF RunChecked, q
<1>3. QED
  BY <1>1, <1>2

LEMMA SolvedIs ==
  ASSUME NEW r, IsAnalysis(r)
  PROVE  LET q == Engine!Solved(r) IN
         /\ q.driver.solved = TRUE /\ q.hasViolations = r.check
         /\ q.driver.viol = r.driver.viol
<1>. DEFINE d == [r.driver EXCEPT !.solved = TRUE]
            q == Engine!Solved(r)
<1>1. q = [r EXCEPT !.driver = d, !.hasViolations = r.check]
  BY DEF Engine!Solved, IsAnalysis, AnalysisFields
<1>2. d.solved = TRUE /\ d.viol = r.driver.viol
  BY DEF IsAnalysis, DriverFields
<1>. HIDE DEF d, q
<1>3. q.driver = d /\ q.hasViolations = r.check
  BY <1>1 DEF IsAnalysis, AnalysisFields
<1>4. QED
  BY <1>2, <1>3 DEF q

(* The lists and rows of a session at the steps of run().                   *)
LEMMA StepsTyped ==
  ASSUME ViolationsInv
  PROVE  LET z == Engine!Based(analysis)
             ready == Engine!Built(z)
         IN /\ ListsTyped(z) /\ ListsTyped(ready)
            /\ IsAnalysis(z) /\ IsAnalysis(ready) /\ SameRequest(ready, analysis)
            /\ \E l : AnalysisSound(z, l)
<1>. DEFINE z == Engine!Based(analysis)
            ready == Engine!Built(z)
            l == MovedLapse(analysis, lapse)
<1>1. AnalysisSound(analysis, lapse) /\ ListsTyped(analysis)
  BY DEF ViolationsInv, AnalysisInv
<1>2. AnalysisSound(z, l) /\ SameRequest(z, analysis)
  BY <1>1, BasedSound
<1>3. AnalysisSound(ready, BuiltLapse(z, l)) /\ SameRequest(ready, z)
  BY <1>2, BuiltSound
<1>4. Engine!NoDriver.rows \in Seq(Engine!Contingencies)
  BY DEF Engine!NoDriver
<1>5. z.driver = analysis.driver \/ z.driver = Engine!NoDriver
  BY <1>1, BasedDriver DEF AnalysisSound
<1>6. ready.driver.rows = z.list \/ ready.driver = z.driver
  BY <1>2, BuiltRows
<1>. HIDE DEF z, ready, l
<1>7. ListsTyped(z)
  BY <1>1, <1>2, <1>4, <1>5 DEF ListsTyped, SameRequest
<1>8. ListsTyped(ready)
  BY <1>3, <1>6, <1>7 DEF ListsTyped, SameRequest
<1>9. SameRequest(ready, analysis)
  BY <1>2, <1>3 DEF SameRequest
<1>10. QED
  BY <1>2, <1>3, <1>7, <1>8, <1>9 DEF AnalysisSound, z, ready

LEMMA SameRunTyped ==
  ASSUME NEW r, ListsTyped(r), NEW q, SameRun(q, r)
  PROVE  ListsTyped(q)
<1>1. q.driver.rows = r.driver.rows
  BY DEF SameRun
<1>2. QED
  BY <1>1 DEF ListsTyped, SameRun, SameRequest

(* A run() that returned is read with its limits, data and capacity.        *)
LEMMA ReadingRun ==
  ASSUME ViolationsInv, AnalysisInv', Engine!Run
  PROVE  ViolationsInv'
<1>. DEFINE ready == Engine!Built(Engine!Based(analysis))
            c == Engine!Checked(ready)
            q == Engine!Solved(c)
<1>1. /\ analysis' = q /\ residualRows' = Len(ready.driver.rows)
      /\ analysis.check => analysis.data # Null /\ analysis.limits # Null
  BY DEF Engine!Run, Engine!MayCheck
<1>2. ListsTyped(ready) /\ IsAnalysis(ready) /\ SameRequest(ready, analysis)
  BY StepsTyped
<1>. HIDE DEF ready
<1>3. SameRun(c, ready) /\ RunChecked(c) /\ IsAnalysis(c)
  BY <1>2, CheckedSame, CheckedIs DEF SameRun
<1>. HIDE DEF c
<1>4. /\ SameRun(q, c) /\ q.driver.solved = TRUE
      /\ q.hasViolations = c.check /\ q.driver.viol = c.driver.viol
  BY <1>3, SolvedSame, SolvedIs
<1>. HIDE DEF q
<1>5. ListsTyped(c) /\ ListsTyped(q)
  BY <1>2, <1>3, <1>4, SameRunTyped
<1>6. RunChecked(q)
  BY <1>3, <1>4 DEF RunChecked, SameRun, SameRequest
<1>7. /\ q.check = analysis.check /\ q.limits = analysis.limits /\ q.hasViolations = q.check
      /\ q.driver.rows = ready.driver.rows
  <2>1. q.driver.rows = c.driver.rows /\ c.driver.rows = ready.driver.rows
    BY <1>3, <1>4 DEF SameRun
  <2>2. QED
    BY <1>2, <1>3, <1>4, <2>1 DEF SameRun, SameRequest
<1>8. RunRead(q, lapse', residualRows')
  <2>1. SUFFICES ASSUME q.hasViolations
                 PROVE  /\ q.driver.solved /\ q.check
                        /\ q.limits \in Limits /\ q.driver.viol.limits = q.limits
                        /\ q.driver.viol.capacity \in Capacities
                        /\ residualRows' = Len(q.driver.rows)
    BY DEF RunRead
  <2>2. q.check /\ analysis.check
    BY <1>7, <2>1
  <2>3. q.limits \in Limits
    BY <1>1, <1>5, <1>7, <2>2 DEF ListsTyped
  <2>4. q.driver.viol.limits = q.limits /\ q.driver.viol.capacity = q.capacity
    BY <1>6, <2>2 DEF RunChecked
  <2>5. QED
    BY <1>1, <1>4, <1>5, <1>7, <2>2, <2>3, <2>4 DEF ListsTyped
<1>9. ListsTyped(analysis)' /\ RunRead(analysis, lapse, residualRows)' /\ RunChecked(analysis)'
  BY <1>1, <1>5, <1>6, <1>8 DEF ListsTyped, RunRead, RunChecked, q
<1>10. QED
  BY <1>9 DEF ViolationsInv

(* Nothing is read of a run() that raised, whatever step it raised at.      *)
LEMMA ReadingRaised ==
  ASSUME ViolationsInv, AnalysisInv',
         \/ Engine!RunFailsInBase \/ Engine!RunFailsInSource \/ Engine!RunRefusesSlack
         \/ Engine!RunFailsToBuild \/ Engine!RunRefusesChecks \/ Engine!RunFails
  PROVE  ViolationsInv'
<1>. DEFINE z == Engine!Based(analysis)
            ready == Engine!Built(z)
            u == Engine!Sourced(z)
            m == Engine!Moved(analysis)
            c == Engine!Checked(ready)
<1>1. AnalysisSound(analysis, lapse) /\ ListsTyped(analysis)
  BY DEF ViolationsInv, AnalysisInv
<1>2. ListsTyped(z) /\ ListsTyped(ready) /\ IsAnalysis(ready)
  BY StepsTyped
<1>3. Engine!NoDriver.rows \in Seq(Engine!Contingencies)
  BY DEF Engine!NoDriver
<1>4. ASSUME NEW q, analysis' = q, ListsTyped(q), "run" \in lapse', outcome' # "computed"
      PROVE  ViolationsInv'
  BY <1>4, NothingRead DEF RunRead
<1>5. ASSUME NEW after, NEW flags, Engine!RunEnds(after, flags)
      PROVE  analysis' = after /\ "run" \in lapse' /\ outcome' # "computed"
  BY <1>5 DEF Engine!RunEnds, Engine!Raised
<1>6. IsAnalysis(u) /\ u.driver = z.driver /\ SameRequest(u, z)
  <2>1. PICK l : AnalysisSound(z, l)
    BY StepsTyped
  <2>2. QED
    BY <2>1, SourcedSound
<1>7. CASE Engine!RunFailsInBase
  <2>1. analysis' = m /\ "run" \in lapse' /\ outcome' # "computed"
    BY <1>7 DEF Engine!RunFailsInBase, Engine!Raised
  <2>2. ListsTyped(m)
    <3>. DEFINE h == Engine!Chosen(analysis)
                w == Engine!Wanted(analysis)
    <3>1. IsAnalysis(h) /\ SameRequest(h, analysis)
      BY <1>1, ChosenSound DEF AnalysisSound
    <3>2. m = [h EXCEPT !.refBus = w, !.driver = Engine!NoDriver]
      BY DEF Engine!Moved
    <3>. HIDE DEF h, w, m
    <3>3. /\ m.driver = Engine!NoDriver /\ m.list = h.list
          /\ m.capacity = h.capacity /\ m.limits = h.limits
      BY <3>1, <3>2 DEF IsAnalysis, AnalysisFields
    <3>4. QED
      BY <1>1, <1>3, <3>1, <3>3 DEF ListsTyped, SameRequest
  <2>3. QED
    BY <1>4, <2>1, <2>2
<1>8. CASE Engine!RunFailsInSource \/ Engine!RunRefusesSlack
  <2>. DEFINE cleared == [z EXCEPT !.flags = "clean"]
  <2>1. PICK q \in {u, cleared} : Engine!RunEnds(q, {"flags"})
    BY <1>8 DEF Engine!RunFailsInSource, Engine!RunRefusesSlack
  <2>2. ListsTyped(q)
    <3>1. PICK l : AnalysisSound(z, l)
      BY StepsTyped
    <3>2. CASE q = u
      BY <1>2, <1>6, <3>2 DEF ListsTyped, SameRequest
    <3>3. CASE q = cleared
      <4>. HIDE DEF z
      <4>1. /\ q.driver = z.driver /\ q.list = z.list
            /\ q.capacity = z.capacity /\ q.limits = z.limits
        BY <3>1, <3>3 DEF AnalysisSound, IsAnalysis, AnalysisFields
      <4>2. QED
        BY <1>2, <4>1 DEF ListsTyped
    <3>4. QED
      BY <3>2, <3>3
  <2>. HIDE DEF u, cleared, z
  <2>3. QED
    BY <1>4, <1>5, <2>1, <2>2
<1>9. CASE Engine!RunFailsToBuild
  <2>. DEFINE f == [u EXCEPT !.driver = Engine!NoDriver]
  <2>1. Engine!RunEnds(f, {})
    BY <1>9 DEF Engine!RunFailsToBuild
  <2>2. ListsTyped(f)
    <3>. HIDE DEF u, z
    <3>1. /\ f.driver = Engine!NoDriver /\ f.list = u.list
          /\ f.capacity = u.capacity /\ f.limits = u.limits
      BY <1>6 DEF IsAnalysis, AnalysisFields
    <3>. HIDE DEF f
    <3>2. QED
      BY <1>2, <1>3, <1>6, <3>1 DEF ListsTyped, SameRequest
  <2>3. QED
    BY <1>4, <1>5, <2>1, <2>2
<1>10. SameRun(c, ready) /\ ListsTyped(c) /\ IsAnalysis(c)
  <2>1. SameRun(c, ready)
    BY <1>2, CheckedSame
  <2>2. QED
    BY <1>2, <2>1, SameRunTyped DEF SameRun
<1>11. CASE Engine!RunRefusesChecks
  <2>. DEFINE q == IF Engine!MayCheck(analysis) THEN c ELSE ready
              flags == IF Engine!Cold(z) THEN {} ELSE lapse \cap {"flags"}
  <2>1. Engine!RunEnds(q, flags)
    BY <1>11 DEF Engine!RunRefusesChecks
  <2>2. ListsTyped(q)
    BY <1>2, <1>10
  <2>. HIDE DEF q, flags
  <2>3. QED
    BY <1>4, <1>5, <2>1, <2>2
<1>12. CASE Engine!RunFails
  <2>. DEFINE q == [c EXCEPT !.driver.solved = FALSE]
              flags == IF Engine!Cold(z) THEN {} ELSE lapse \cap {"flags"}
  <2>1. Engine!RunEnds(q, flags)
    BY <1>12 DEF Engine!RunFails
  <2>. HIDE DEF flags, c
  <2>2. ListsTyped(q)
    BY <1>10, MarkedSame, SameRunTyped
  <2>. HIDE DEF q
  <2>3. QED
    BY <1>4, <1>5, <2>1, <2>2
<1>13. QED
  BY <1>7, <1>8, <1>9, <1>11, <1>12

LEMMA ViolationsStart == Engine!Init => ViolationsInv
<1>. SUFFICES ASSUME Engine!Init PROVE ViolationsInv
  OBVIOUS
<1>1. PICK d, g, k, x :
        k \in Capacities /\
        analysis \in Engine!FromArrays(x, k) \cup Engine!FromGrid("extracted", d, g, x, k)
                                             \cup Engine!FromGrid("bridge", d, g, x, k)
  BY DEF Engine!Init
<1>. DEFINE Fresh(r) == ListsTyped(r) /\ r.hasViolations = FALSE
<1>2. ASSUME NEW mode, NEW e, NEW h, NEW v, NEW l \in Limits \cup {Null}
      PROVE  LET n == Engine!NewSession(mode, e, h, x, k) IN
             Fresh([n EXCEPT !.check = v]) /\ Fresh([n EXCEPT !.check = v, !.limits = l])
  <2>. DEFINE n == Engine!NewSession(mode, e, h, x, k)
              u == [n EXCEPT !.check = v]
              w == [u EXCEPT !.limits = l]
  <2>1. Engine!NoDriver.rows \in Seq(Engine!Contingencies)
    BY DEF Engine!NoDriver
  <2>2. /\ DOMAIN n = AnalysisFields /\ n.list = <<>> /\ n.driver = Engine!NoDriver
        /\ n.capacity = k /\ n.limits = Null /\ n.hasViolations = FALSE
    BY DEF Engine!NewSession, AnalysisFields
  <2>. HIDE DEF n
  <2>3. /\ DOMAIN u = AnalysisFields /\ u.list = <<>> /\ u.driver = Engine!NoDriver
        /\ u.capacity = k /\ u.limits = Null /\ u.hasViolations = FALSE
    BY <2>2 DEF AnalysisFields
  <2>. HIDE DEF u
  <2>4. /\ w.list = <<>> /\ w.driver = Engine!NoDriver
        /\ w.capacity = k /\ w.limits = l /\ w.hasViolations = FALSE
    BY <2>3 DEF AnalysisFields
  <2>5. w = [n EXCEPT !.check = v, !.limits = l]
    BY DEF u
  <2>. HIDE DEF w
  <2>6. Fresh(u) /\ Fresh(w)
    BY <1>1, <1>2, <2>1, <2>3, <2>4 DEF ListsTyped
  <2>7. QED
    BY <2>5, <2>6 DEF n, u
<1>3. ASSUME NEW r \in Engine!FromArrays(x, k) PROVE Fresh(r)
  <2>1. PICK v \in BOOLEAN :
          r = [Engine!NewSession("arrays", Null, Engine!AsSolved, x, k) EXCEPT !.check = v]
    BY <1>3 DEF Engine!FromArrays
  <2>. HIDE DEF Fresh
  <2>2. QED
    BY <1>2, <2>1
<1>4. ASSUME NEW mode, NEW r \in Engine!FromGrid(mode, d, g, x, k) PROVE Fresh(r)
  <2>1. PICK l \in Limits \cup {Null} :
          r = [Engine!NewSession(mode, d, g, x, k) EXCEPT !.check = (l # Null), !.limits = l]
    BY <1>4 DEF Engine!FromGrid
  <2>. DEFINE v == (l # Null)
  <2>. HIDE DEF Fresh
  <2>2. Fresh([Engine!NewSession(mode, d, g, x, k) EXCEPT !.check = v, !.limits = l])
    <3>. HIDE DEF v
    <3>1. QED
      BY <1>2
  <2>3. QED
    BY <2>1, <2>2
<1>5. Fresh(analysis)
  <2>. HIDE DEF Fresh
  <2>1. QED
    BY <1>1, <1>3, <1>4
<1>6. outcome # "computed"
  BY DEF Engine!Init
<1>7. QED
  BY <1>5, <1>6, ContingencyStarts DEF ViolationsInv, RunRead

LEMMA ViolationsInductive == ViolationsInv /\ [Engine!Next]_(Engine!vars) => ViolationsInv'
<1>. SUFFICES ASSUME ViolationsInv, [Engine!Next]_(Engine!vars) PROVE ViolationsInv'
  OBVIOUS
<1>1. AnalysisInv'
  BY ContingencyInductive DEF ViolationsInv
<1>2. CASE UNCHANGED Engine!vars
  <2>1. /\ analysis' = analysis /\ lapse' = lapse /\ outcome' = outcome
        /\ residualRows' = residualRows
    BY <1>2 DEF Engine!vars
  <2>2. QED
    BY <1>1, <2>1 DEF ViolationsInv, ListsTyped, RunRead, RunChecked
<1>3. CASE Engine!Next
  BY <1>1, <1>3, ReadingOptions, ReadingSlack, ReadingLists, ReadingNothing, ReadingForgotten,
     ReadingRun, ReadingRaised DEF Engine!Next
<1>4. QED
  BY <1>2, <1>3

(* Rows decoded of what the last run() left are those of its contingencies, *)
(* each with its truncation flag.                                           *)
LEMMA RowsDecoded ==
  ASSUME NEW d, Tellable(d)
  PROVE  LET rows == Engine!Decoded(Engine!Count(d), Engine!Slots(d)) IN
         \A c \in DOMAIN d.rows :
           /\ rows[c] = Engine!Expected(d.rows[c], d)
           /\ Engine!Truncated(d)[c] <=>
                /\ rows[c] # Engine!NotSimulated /\ d.rows[c] \notin Diverges
                /\ \E n \in DOMAIN Engine!Types :
                     Len(Found[d.rows[c]][d.viol.limits][Engine!Types[n]])
                       > Engine!Cardinality(Engine!OfType(rows[c], Engine!Types[n]))
<1>. DEFINE rows == Engine!Decoded(Engine!Count(d), Engine!Slots(d))
<1>. SUFFICES ASSUME NEW c \in DOMAIN d.rows
              PROVE  /\ rows[c] = Engine!Expected(d.rows[c], d)
                     /\ Engine!Truncated(d)[c] <=>
                          /\ rows[c] # Engine!NotSimulated /\ d.rows[c] \notin Diverges
                          /\ \E n \in DOMAIN Engine!Types :
                               Len(Found[d.rows[c]][d.viol.limits][Engine!Types[n]])
                                 > Engine!Cardinality(Engine!OfType(rows[c], Engine!Types[n]))
  OBVIOUS
<1>. DEFINE q == rows[c]
<1>1. q = Engine!Expected(d.rows[c], d)
  BY DecodedIs
<1>. HIDE DEF q
<1>2. Engine!Truncated(d)[c] <=>
        /\ q # Engine!NotSimulated /\ d.rows[c] \notin Diverges
        /\ \E n \in DOMAIN Engine!Types :
             Len(Found[d.rows[c]][d.viol.limits][Engine!Types[n]])
               > Engine!Cardinality(Engine!OfType(q, Engine!Types[n]))
  BY <1>1, TruncatedIs
<1>3. QED
  BY <1>1, <1>2 DEF q

(* Violation records can be read only of the last run, within the limits in *)
(* use: row by row the most severe of each type, most severe first and of   *)
(* equals the one scanned first, at most the capacity of that run though    *)
(* the setting may have changed since (get_violations(), the insertion of   *)
(* violation_kernels.cu), with a truncation flag exactly where one was      *)
(* dropped; and a run computes them with the limits, branch data and        *)
(* capacity of its call, for any severities found, capacity, number of rows *)
(* and of calls.                                                            *)
THEOREM ViolationsCorrect == ContingencySpec => []ViolationsTellTheRun
<1>1. ASSUME ViolationsInv PROVE ViolationsTellTheRun
  <2>. DEFINE d == analysis.driver
  <2>1. ASSUME analysis.hasViolations, "run" \notin lapse
        PROVE  /\ d.solved /\ analysis.check /\ d.viol.limits = analysis.limits
               /\ residualRows = Len(d.rows) /\ Tellable(d)
    BY <1>1, <2>1 DEF ViolationsInv, ListsTyped, RunRead, Tellable
  <2>2. Engine!ViolationsOfTheirRow
    <3>. SUFFICES ASSUME analysis.hasViolations, "run" \notin lapse
                  PROVE  /\ d.solved /\ analysis.check /\ d.viol.limits = analysis.limits
                         /\ residualRows = Len(d.rows)
                         /\ LET rows == Engine!Decoded(Engine!Count(d), Engine!Slots(d)) IN
                              \A c \in DOMAIN d.rows :
                                /\ rows[c] = Engine!Expected(d.rows[c], d)
                                /\ Engine!Truncated(d)[c] <=>
                                     /\ rows[c] # Engine!NotSimulated
                                     /\ d.rows[c] \notin Diverges
                                     /\ \E n \in DOMAIN Engine!Types :
                                          Len(Found[d.rows[c]][analysis.limits][Engine!Types[n]])
                                            > Engine!Cardinality(
                                                Engine!OfType(rows[c], Engine!Types[n]))
      BY DEF Engine!ViolationsOfTheirRow
    <3>1. /\ d.solved /\ analysis.check /\ d.viol.limits = analysis.limits
          /\ residualRows = Len(d.rows) /\ Tellable(d)
      BY <2>1
    <3>. HIDE DEF d
    <3>2. QED
      BY <3>1, RowsDecoded
  <2>3. Engine!ViolationsOfTheirRun
    BY <1>1 DEF ViolationsInv, RunChecked, Engine!ViolationsOfTheirRun
  <2>4. QED
    BY <2>2, <2>3 DEF ViolationsTellTheRun, Engine!ViolationsTellTheRun
<1>2. QED
  BY <1>1, ViolationsStart, ViolationsInductive, PTL DEF ContingencySpec, Engine!Spec
=============================================================================
