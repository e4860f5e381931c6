--------------------------- MODULE SetPointGradients ---------------------------
(***************************************************************************)
(* One row of a BatchPowerFlow (differentiable/_batch_pf.py) with voltage   *)
(* set-points given per generator, from forward() to the gradient of gen_v. *)
(* Several generators may regulate one bus, whose magnitude is one number:  *)
(* a row that asks a bus for two is skipped, otherwise the kernels' threads *)
(* all write that number, in any order, and the derivative of the bus is    *)
(* split between the columns that wrote.  Who may write is decided three    *)
(* times, by the wrapper, by the façade (_ls2g_utils.py) and by the session *)
(* (gen_v_override.hpp).  Derivatives are integers, "Whole" for a bus whose *)
(* set-point is felt.                                                       *)
(***************************************************************************)
EXTENDS Integers, FiniteSets, FiniteSetsExt

CONSTANTS
  Gens, Buses,
  None,         \* a generator that regulates no bus of the solver
  NaN,          \* a set-point left out
  Values,       \* set-points a row may ask for
  Pin,          \* what a group keeps where a member has no gen_v column
  Base,         \* the magnitude of the other buses before any set-point
  Tol,          \* gen_v_conflict_tol
  Whole         \* the derivative with respect to the set-point of one bus

SetPointAssumption ==
  /\ IsFiniteSet(Gens) /\ Gens # {} /\ None \notin Buses
  /\ Values \subseteq Int /\ NaN \notin Int /\ {Pin, Base} \subseteq Int /\ Tol \in Nat
  /\ Whole \in Int \ {0} /\ \A n \in 1 .. Cardinality(Gens) : Whole % n = 0

(* What a bus is to a session: an unknown magnitude, one it fixes, or one   *)
(* held by a VoltageControl group, whose set-point is free or pinned.       *)
Kinds == {"pq", "fixed", "free", "pinned"}

VARIABLES
  row,          \* the row: reg, kind, v as given, generators off, groups stranded
  pc,           \* "forward", "seeding", "setting", "solved", "done"
  todo,         \* threads of the running kernel that have not written yet
  seed,         \* |V| of each bus at the start of the Newton loop
  vset,         \* set-point of each bus's group
  skipped,      \* the row is not simulated
  grad          \* the row's gradient of gen_v

rowVars == <<row, pc, todo, seed, vset, skipped, grad>>

Grouped(r) == {b \in Buses : r.kind[b] \in {"free", "pinned"}}

SetPointRows ==
  [reg : [Gens -> Buses \cup {None}], kind : [Buses -> Kinds], v : [Gens -> Values \cup {NaN}],
   off : SUBSET Gens, stranded : SUBSET Buses]

(* The session refuses to disconnect a generator of a group.                *)
Possible(r) ==
  /\ \A g \in r.off : r.reg[g] \notin Grouped(r)
  /\ r.stranded \subseteq Grouped(r)

-----------------------------------------------------------------------------
(* The columns a session drives, in NumPy and in C++.                       *)
Driven(r) == {g \in Gens : r.reg[g] # None /\ (r.kind[r.reg[g]] = "fixed" \/ r.reg[g] \in Grouped(r))}
ActiveColumns(r) == {g \in Gens : r.reg[g] # None} \ {g \in Gens :
                       r.reg[g] # None /\ r.reg[g] \notin Grouped(r) /\ r.kind[r.reg[g]] # "fixed"}

(* Mutant: a generator that is off imposes its set-point all the same.      *)
GivenWhetherOff(r) == r.v
Given(r) == [g \in Gens |-> IF g \in r.off THEN NaN ELSE r.v[g]]

Pinned(r, b) == IF r.kind[b] = "pinned" THEN {Pin} ELSE {}
Apart(vs) == \E u, v \in vs : u - v > Tol      \* max - min > tol
Asked(v, cols) == {v[g] : g \in cols} \ {NaN}

(* The columns that can conflict.  Mutant: pinned groups are forgotten.     *)
SharedUnpinned(r) ==
  {g \in Driven(r) : \E h \in Driven(r) \ {g} : r.reg[h] = r.reg[g]}
Shared(r) ==
  {g \in Driven(r) : r.kind[r.reg[g]] = "pinned" \/ \E h \in Driven(r) \ {g} : r.reg[h] = r.reg[g]}

(* _apply_gen_v_conflicts(): the pinned set-point counts only where some    *)
(* column asks the bus for a magnitude.                                     *)
Conflict(r) ==
  \E b \in Buses :
    LET asked == Asked(Given(r), {g \in Shared(r) : r.reg[g] = b}) IN
    asked # {} /\ Apart(asked \cup Pinned(r, b))

(* conflicting_gen_v_rows(), of the façade: bus after bus.                  *)
ConflictingRow(r) ==
  \E b \in {r.reg[g] : g \in Driven(r)} :
    LET cols == {g \in Driven(r) : r.reg[g] = b} IN
    /\ Cardinality(cols) >= 2 \/ r.kind[b] = "pinned"
    /\ Apart(Asked([g \in Gens |-> IF g \in r.off THEN NaN ELSE r.v[g]], cols) \cup Pinned(r, b))

-----------------------------------------------------------------------------
Held(r, b) == IF r.kind[b] = "pinned" THEN Pin ELSE Base

Init ==
  /\ row \in SetPointRows /\ Possible(row)
  /\ pc = "forward" /\ todo = {} /\ skipped = FALSE
  /\ seed = [b \in Buses |-> Held(row, b)] /\ vset = seed
  /\ grad = [g \in Gens |-> 0]

(* forward(): a skipped row has no slot, and no thread.                     *)
Forward ==
  /\ pc = "forward"
  /\ skipped' = Conflict(row)
  /\ pc' = IF skipped' THEN "solved" ELSE "seeding"
  /\ todo' = IF skipped' THEN {} ELSE ActiveColumns(row)
  /\ UNCHANGED <<row, seed, vset, grad>>

(* apply_gen_v_kernel: one thread per column scales |V| of its bus.         *)
Seed(g) ==
  /\ pc = "seeding" /\ g \in todo /\ todo' = todo \ {g}
  /\ seed' = [seed EXCEPT ![row.reg[g]] = IF Given(row)[g] = NaN THEN @ ELSE Given(row)[g]]
  /\ UNCHANGED <<row, pc, vset, skipped, grad>>

(* The kernels of one stream follow each other; base set-points are tiled   *)
(* into the slots first.                                                    *)
NextKernel ==
  /\ pc = "seeding" /\ todo = {} /\ pc' = "setting"
  /\ todo' = {g \in ActiveColumns(row) : row.reg[g] \in Grouped(row)}
  /\ vset' = [b \in Buses |-> Held(row, b)]
  /\ UNCHANGED <<row, seed, skipped, grad>>

(* apply_gen_vset_kernel: one thread per column writes its group's v_set.   *)
Set(g) ==
  /\ pc = "setting" /\ g \in todo /\ todo' = todo \ {g}
  /\ vset' = [vset EXCEPT ![row.reg[g]] = IF Given(row)[g] = NaN THEN @ ELSE Given(row)[g]]
  /\ UNCHANGED <<row, pc, seed, skipped, grad>>

Solve ==
  /\ pc = "setting" /\ todo = {} /\ pc' = "solved"
  /\ UNCHANGED <<row, todo, seed, vset, skipped, grad>>

-----------------------------------------------------------------------------
(* A bus all of whose local voltage controllers are off becomes PQ.         *)
Released(r, b) ==
  /\ r.kind[b] = "fixed"
  /\ {g \in Gens : r.reg[g] = b} # {} /\ {g \in Gens : r.reg[g] = b} \subseteq r.off

(* backward(): what the set-point of a bus contributes, and to which        *)
(* columns.                                                                 *)
Felt(r, b) ==
  \/ r.kind[b] = "fixed" /\ ~Released(r, b)
  \/ r.kind[b] = "free" /\ b \notin r.stranded
OfBus(b) == IF ~skipped /\ Felt(row, b) THEN Whole ELSE 0

Applied == {g \in Driven(row) : Given(row)[g] # NaN}

(* Mutant: the columns of a bus are counted whether they applied or not.    *)
CountOfColumns(b) == Cardinality({g \in Driven(row) : row.reg[g] = b})
CountApplied(b) == Cardinality({g \in Applied : row.reg[g] = b})

GradGenV == [g \in Gens |-> IF g \in Applied THEN OfBus(row.reg[g]) \div CountApplied(row.reg[g]) ELSE 0]

Backward ==
  /\ pc = "solved" /\ pc' = "done" /\ grad' = GradGenV
  /\ UNCHANGED <<row, todo, seed, vset, skipped>>

Next == Forward \/ NextKernel \/ Solve \/ Backward \/ \E g \in Gens : Seed(g) \/ Set(g)
Spec == Init /\ [][Next]_rowVars

-----------------------------------------------------------------------------
TypeOK ==
  /\ row \in SetPointRows
  /\ pc \in {"forward", "seeding", "setting", "solved", "done"}
  /\ todo \subseteq Driven(row)
  /\ {seed, vset} \subseteq [Buses -> Values \cup {Pin, Base}]
  /\ skipped \in BOOLEAN /\ grad \in [Gens -> Int]

(* "|V| at a bus is unique": in a row that is solved every generator whose  *)
(* set-point is applied has it, to the tolerance, whichever thread wrote    *)
(* last, and a pinned group keeps its own.                                  *)
SolvedAtTheSetPoints ==
  pc \in {"solved", "done"} /\ ~skipped =>
    /\ \A g \in Driven(row) :
         LET b == row.reg[g]
             held == IF b \in Grouped(row) THEN vset[b] ELSE seed[b] IN
         row.v[g] # NaN /\ g \notin row.off => ~Apart({row.v[g], held})
    /\ \A b \in Buses : ~Apart(Pinned(row, b) \cup {vset[b] : x \in Pinned(row, b)})

(* "the callers report it as NOT SIMULATED": the differentiable wrapper and *)
(* the façade leave out the same rows, though each has its own rule.        *)
RowsSkippedAlike == pc # "forward" => (skipped <=> ConflictingRow(row))

(* "tied set-points: the one derivative that exists is split between the    *)
(* columns that actually applied": the parts of a bus add up to it, and a   *)
(* generator that is off, left out or moves nothing gets none.              *)
GradientsSplitTheTie ==
  pc = "done" =>
    /\ \A b \in Buses :
         LET on == {g \in Gens : row.reg[g] = b /\ g \notin row.off /\ row.v[g] # NaN} IN
         MapThenSumSet(LAMBDA g : grad[g], {g \in Gens : row.reg[g] = b})
           = IF on = {} \/ row.kind[b] \in {"pq", "pinned"} \/ b \in row.stranded \/ skipped
             THEN 0 ELSE Whole
    /\ \A g \in Gens : row.reg[g] = None \/ g \in row.off \/ row.v[g] = NaN => grad[g] = 0
=============================================================================
