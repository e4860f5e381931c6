-------------------------- MODULE ElementInjections --------------------------
(***************************************************************************)
(* From loads and generators to injections per bus: the snapshot of a       *)
(* solved grid (extract_injection_elements() of _ls2g_utils.py), the rows   *)
(* built from it in numpy (build_bus_injections()) and the same rows built  *)
(* by BatchPowerFlow in PyTorch (differentiable/_batch_pf.py).              *)
(*                                                                         *)
(* A grid is a record: buses (their number in the solver), toSolver (model  *)
(* bus -> solver bus, <<>> for the identity), gens and loads, sbus (the     *)
(* power of the base case per solver bus).  A complex power is the number   *)
(* p + ImaginaryUnit * q; inputs e have a row of gen_p and of load for each *)
(* power flow, off is a set of generators for each row.                     *)
(***************************************************************************)
EXTENDS Integers, Sequences, FiniteSets, FiniteSetsExt

CONSTANT ImaginaryUnit  \* larger than any active power

UnitAssumption == ImaginaryUnit \in Nat \ {0}

(* Generators and loads are numbered from 1; powers are whole numbers.      *)
Generator == [bus : Int, reg : Int, on : BOOLEAN, vreg : BOOLEAN, treatedOff : BOOLEAN,
              p : Int, q : Int]
Load == [bus : Int, on : BOOLEAN, p : Int]
IsGrid(g) ==
  /\ {"buses", "toSolver", "gens", "loads", "sbus"} \subseteq DOMAIN g
  /\ g.gens \in Seq(Generator) /\ g.loads \in Seq(Load)
  /\ g.sbus \in [DOMAIN g.sbus -> Int]

Relabel(g, id) ==
  IF g.toSolver = <<>> \/ id \notin DOMAIN g.toSolver THEN id ELSE g.toSolver[id]
Buses(g) == 0 .. g.buses - 1

(* A connected element off the solver is refused.                           *)
Buildable(g) ==
  /\ DOMAIN g.sbus = Buses(g)
  /\ \A el \in {g.gens[k] : k \in DOMAIN g.gens} \cup {g.loads[k] : k \in DOMAIN g.loads} :
       el.on => Relabel(g, el.bus) \in Buses(g)

EveryElement(els) == DOMAIN els
Selected(els) == {k \in DOMAIN els : els[k].on}
ElementBus(g, els) == [k \in DOMAIN els |-> Relabel(g, els[k].bus)]
BusOut(g, els) == [k \in DOMAIN els |-> IF els[k].on THEN Relabel(g, els[k].bus) ELSE -1]

Scatter(bus, sel, x, b) == MapThenSumSet(LAMBDA k : x[k], {k \in sel : bus[k] = b})

(* The bus a generator regulates, -1 for none.                              *)
GenVBus(g, k) ==
  LET gen == g.gens[k]
      reg == Relabel(g, gen.reg)
  IN IF gen.on /\ gen.vreg /\ ~gen.treatedOff /\ reg \in Buses(g) THEN reg ELSE -1

BaseOf(els) == [k \in DOMAIN els |-> els[k].p]
ConstMw(g, b) ==
  g.sbus[b] - Scatter(ElementBus(g, g.gens), Selected(g.gens), BaseOf(g.gens), b)
            + Scatter(ElementBus(g, g.loads), Selected(g.loads), BaseOf(g.loads), b)

InjectionElements(g) ==
  [buses |-> Buses(g),
   load_sel |-> Selected(g.loads), gen_sel |-> Selected(g.gens),
   scatter_load |-> ElementBus(g, g.loads), scatter_gen |-> ElementBus(g, g.gens),
   const_mw |-> [b \in Buses(g) |-> ConstMw(g, b)],
   gen_bus |-> BusOut(g, g.gens), load_bus |-> BusOut(g, g.loads),
   gen_target_q_mvar |-> [k \in DOMAIN g.gens |-> g.gens[k].q],
   gen_vreg_on |-> [k \in DOMAIN g.gens |-> g.gens[k].vreg],
   load_base |-> BaseOf(g.loads), gen_p_base |-> BaseOf(g.gens)]

(* A generator off takes its active power along, and its reactive set-point *)
(* when it regulates no voltage: then it is part of const_mw.               *)
BuildBusInjections(el, e, off) ==
  [r \in DOMAIN e.gen_p |->
    LET gen_p == [k \in DOMAIN e.gen_p[r] |-> IF k \in off[r] THEN 0 ELSE e.gen_p[r][k]]
        q_off == [k \in DOMAIN gen_p |->
                   IF k \in off[r] /\ ~el.gen_vreg_on[k] THEN el.gen_target_q_mvar[k] ELSE 0]
    IN [b \in el.buses |->
         el.const_mw[b] + Scatter(el.scatter_gen, el.gen_sel, gen_p, b)
           - ImaginaryUnit * Scatter(el.scatter_gen, el.gen_sel, q_off, b)
           - Scatter(el.scatter_load, el.load_sel, e.load[r], b)]]

-----------------------------------------------------------------------------
(* PyTorch: what is copied to the device once, and index_add(), which adds  *)
(* the selected elements one after the other.                               *)
GenQOff(el) ==
  [k \in DOMAIN el.gen_vreg_on |-> IF el.gen_vreg_on[k] THEN 0 ELSE el.gen_target_q_mvar[k]]
OnDevice(el) ==
  [const |-> el.const_mw,
   gen_bus_sel |-> [k \in el.gen_sel |-> el.gen_bus[k]],
   load_bus_sel |-> [k \in el.load_sel |-> el.load_bus[k]],
   q_off |-> GenQOff(el)]
IndexAdd(row, index, x) ==
  FoldSet(LAMBDA k, acc : [acc EXCEPT ![index[k]] = @ + x[k]], row, DOMAIN index)

(* An input that is not given is the base case's, in every row.             *)
AsInput(x, base, n) == IF x = <<>> THEN [r \in 1 .. n |-> base] ELSE x

DeviceInjections(el, e, off) ==
  LET n == IF e.gen_p = <<>> THEN Len(e.load) ELSE Len(e.gen_p)
      gens == AsInput(e.gen_p, el.gen_p_base, n)
      loads == AsInput(e.load, el.load_base, n)
      d == OnDevice(el)
  IN [r \in 1 .. n |->
       LET lost == [k \in DOMAIN gens[r] |-> IF k \in off[r] THEN -ImaginaryUnit * d.q_off[k] ELSE 0]
           kept == [k \in DOMAIN gens[r] |-> IF k \in off[r] THEN 0 ELSE gens[r][k]]
           drawn == [k \in DOMAIN loads[r] |-> -loads[r][k]]
       IN IndexAdd(IndexAdd(IndexAdd(d.const, d.gen_bus_sel, lost), d.gen_bus_sel, kept),
                   d.load_bus_sel, drawn)]

-----------------------------------------------------------------------------
NoneOff(e) == [r \in DOMAIN e.gen_p |-> {}]
Regulating(g, on) == [g EXCEPT !.gens = [k \in DOMAIN g.gens |-> [g.gens[k] EXCEPT !.vreg = k \in on]]]

(* The grid on which generator k is disconnected, solved by lightsim2grid.  *)
Without(g, k) ==
  LET gen == g.gens[k]
      lost == gen.p + (IF gen.vreg THEN 0 ELSE ImaginaryUnit * gen.q)
  IN IF ~gen.on THEN g
     ELSE [g EXCEPT !.gens[k].on = FALSE, !.sbus[Relabel(g, gen.bus)] = @ - lost]

(* "Feeding these bases back through build_bus_injections reproduces the    *)
(* base-case Sbus"; "mirrors _ls2g_utils.build_bus_injections", with "same  *)
(* operands" for generators off, which leave the row as if the grid had     *)
(* been extracted without them.                                             *)
AssembledAlike(g, es) ==
  \A regulating \in SUBSET DOMAIN g.gens :
    LET h == Regulating(g, regulating)
        el == InjectionElements(h)
        base == [gen_p |-> <<el.gen_p_base>>, load |-> <<el.load_base>>]
    IN /\ BuildBusInjections(el, base, NoneOff(base)) = <<g.sbus>>
       /\ DeviceInjections(el, [base EXCEPT !.gen_p = <<>>], <<{}>>) = <<g.sbus>>
       /\ \A e \in es, k \in DOMAIN g.gens, j \in DOMAIN g.gens :
            LET off == [r \in DOMAIN e.gen_p |-> IF r % 2 = 1 THEN {k, j} ELSE {}]
                out == InjectionElements(Without(Without(h, k), IF j = k THEN k ELSE j))
                rows == BuildBusInjections(el, e, off)
            IN /\ rows = DeviceInjections(el, e, off)
               /\ rows = [r \in DOMAIN rows |->
                    BuildBusInjections(IF r % 2 = 1 THEN out ELSE el, e, NoneOff(e))[r]]
=============================================================================
