------------------------- MODULE MCInjectionFacade -------------------------
(* Small instances of InjectionFacade.  Three generators, two of them on    *)
(* one bus, one disconnected in the second grid, whose buses are numbered   *)
(* differently in the model and which has one bus less; a third grid with a *)
(* load on the bus left out does not build.                                 *)
EXTENDS InjectionEngine, Integers, TLC

CONSTANTS every, iter0      \* strategies, alike to every property

SolverSettings == Permutations(Solvers)

Gen(bus, reg, on, p) == [bus |-> bus, reg |-> reg, on |-> on, vreg |-> TRUE,
                         treatedOff |-> FALSE, p |-> p, q |-> 3]
Load(bus, on, p) == [bus |-> bus, on |-> on, p |-> p]

Plain == [buses |-> 2, toSolver |-> <<>>,
          gens |-> <<Gen(0, 0, TRUE, 5), Gen(0, 0, TRUE, 1), Gen(1, 1, TRUE, 2)>>,
          loads |-> <<Load(1, TRUE, 4)>>,
          sbus |-> [b \in 0 .. 1 |-> IF b = 0 THEN 7 ELSE -2],
          fixed |-> {0}, group |-> [b \in 0 .. 1 |-> IF b = 1 THEN 0 ELSE -1],
          pinned |-> [i \in {0} |-> 3]]
Relabelled == [Plain EXCEPT
  !.toSolver = [m \in 0 .. 2 |-> IF m = 2 THEN 0 ELSE IF m = 0 THEN 1 ELSE -1],
  !.gens = <<Gen(0, 2, TRUE, 5), Gen(2, 2, FALSE, 1), Gen(0, 0, TRUE, 2)>>,
  !.loads = <<Load(2, TRUE, 4)>>,
  !.pinned = [i \in {0} |-> Absent]]
MCGrids == {Plain, Relabelled, [Relabelled EXCEPT !.loads = <<Load(1, TRUE, 4)>>]}

MCBusRows == {<<[b \in 0 .. 1 |-> 9], [b \in 0 .. 1 |-> b]>>}
MCElements == {[gen_p |-> <<<<6, 0, 2>>>>, load |-> <<<<3>>>>],
               [gen_p |-> <<<<4, 4, 1>>>>, load |-> <<<<0>>>>],
               [gen_p |-> <<<<4, 4>>>>, load |-> <<<<0>>>>]}
MCGenVs == {<<<<3, Absent, 4>>>>, <<<<1, 3, Absent>>>>, <<<<Absent, 3, 1>>>>,
            <<<<3, 4, 3>>, <<Absent, Absent, Absent>>>>}
Entry(type, id) == [type |-> type, id |-> id]
MCGridPlan == <<Entry("gen", 1)>>
MCGenPPlans == {MCGridPlan, <<Entry("storage", 1), Entry("gen", 3)>>, <<Entry("gen", 4)>>}
MCReleasePlans == {MCGridPlan, <<Entry("gen", 4)>>}
=============================================================================
