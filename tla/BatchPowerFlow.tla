--------------------------- MODULE BatchPowerFlow ---------------------------
(***************************************************************************)
(* gpusim2grid.BatchPowerFlow (differentiable/_batch_pf.py): a callable     *)
(* that turns element inputs into the state of one ScenarioSweepSession and *)
(* runs it.  The session is long-lived, an input left to None means "the    *)
(* base case", and a call sends to the session only what differs from what  *)
(* the wrapper believes it holds.  What a call wants is prepared first      *)
(* ("pending"), then handed over piece by piece, and any piece may raise:   *)
(* a refused generator mask, no memory left, a run() that throws.           *)
(*                                                                          *)
(* Arrays of n rows are sequences, so that the row count is part of the     *)
(* value; <<>> is Python's None (n >= 1).  A pending value that may also be *)
(* "clear" is a set: {} for None, {<<>>} for "clear", {mask} otherwise.     *)
(* Numbers are kept symbolic: an injection or a list of saturated units is  *)
(* the record of what it was computed from.                                 *)
(***************************************************************************)
EXTENDS Naturals, Sequences, SequencesExt

CONSTANTS
  MaxRows,        \* scenarios per call
  BranchRows,     \* sets of branches a row may trip, {} among them
  GenRows,        \* sets of generators a row may disconnect, {} among them
  VoltRows,       \* set-points of a row: [generators -> Nat], 0 is NaN
  Loads,          \* load_p / load_q / gen_p inputs
  MaxCalls,       \* calls of forward() in a behaviour
  Calls,          \* argument lists of forward()
  Refused         \* generators the session cannot disconnect (remote regulation)

Arrays(S, n) == {<<>>} \cup [1..n -> S]

ArgumentLists == UNION {[n : {n}, load : Loads, status : Arrays(BranchRows, n),
                         gens : Arrays(GenRows, n), gen_v : Arrays(VoltRows, n)] : n \in 1..MaxRows}

ASSUME RowsAssumption ==
  MaxRows \in Nat \ {0} /\ MaxCalls \in Nat /\ {} \in BranchRows /\ {} \in GenRows /\ Calls \subseteq ArgumentLists

VARIABLES
  calls,          \* how many calls were made
  pc,             \* where the call is: "idle", a stage, or "returned"
  call,           \* arguments of forward(), <<>> between two calls
  redistribute,   \* redistribute_slack
  lastRows,       \* _last_n_scen
  held,           \* what the wrapper believes the session holds
  pending,        \* what the call must hand over
  rdMasks,        \* _rd_masks, the cache of _row_masks()
  session         \* what the session really holds

vars == <<calls, pc, call, redistribute, lastRows, held, pending, rdMasks, session>>

Stages == <<"topology", "generators", "conflicts", "slack", "giveInjections",
            "giveTopology", "giveSkip", "giveGens", "giveGenV", "giveSat", "run">>

Nothing(n) == [r \in 1..n |-> {}]
OrNothing(array, n) == IF array = <<>> THEN Nothing(n) ELSE array

-----------------------------------------------------------------------------
(* What one call computes, whatever the session holds.                      *)

GenOff(c) == OrNothing(c.gens, c.n)

(* A disconnected generator's set-point is dropped: NaN.                    *)
GenV(c) ==
  IF c.gen_v = <<>> THEN <<>>
  ELSE [r \in 1..c.n |-> [g \in DOMAIN c.gen_v[r] |->
          IF g \in GenOff(c)[r] THEN 0 ELSE c.gen_v[r][g]]]

(* Rows asking one bus for two magnitudes; here every generator regulates   *)
(* the same bus.                                                            *)
Conflicts(gen_v) ==
  [r \in DOMAIN gen_v |-> \E g, h \in DOMAIN gen_v[r] :
      0 # gen_v[r][g] /\ 0 # gen_v[r][h] /\ gen_v[r][g] # gen_v[r][h]]

(* The slack pre-pass of each row reads the injections, the generators out  *)
(* and the buses its topology masks.                                        *)
Saturated(c, masks) ==
  [r \in 1..c.n |-> [load |-> c.load, off |-> GenOff(c)[r], masked |-> masks[r]]]

Injections(c, shares) ==
  [r \in 1..c.n |-> [load |-> c.load, off |-> GenOff(c)[r],
                     share |-> IF shares = <<>> THEN <<>> ELSE <<shares[r]>>]]

-----------------------------------------------------------------------------
(* The constructor: nothing was sent to the session yet.                    *)
Constructed ==
  /\ lastRows = 0
  /\ held = [topology |-> <<>>, topologyIn |-> FALSE, topologyRows |-> 0,
             gens |-> <<>>, gensIn |-> FALSE, gensRows |-> 0,
             skip |-> FALSE, gen_v |-> FALSE, sat |-> FALSE]
  /\ pending = [topology |-> <<>>, topologyMask |-> <<>>, gens |-> <<>>,
                gensMask |-> <<>>, skip |-> {}, sat |-> {}, shares |-> <<>>]
  /\ rdMasks = <<>>

(* from_lsgrid() hands redistribute_slack to the setter; a new session's    *)
(* batch_size is of no call yet.                                            *)
FromLsgrid ==
  /\ redistribute \in BOOLEAN
  /\ session = [sbus |-> <<>>, topology |-> <<>>, gens |-> <<>>, skip |-> <<>>,
                gen_v |-> <<>>, sat |-> <<>>, batch |-> 0]

Init ==
  /\ calls = 0 /\ pc = "idle" /\ call = <<>>
  /\ Constructed /\ FromLsgrid

Resting == pc \in {"idle", "returned"}

(* The setter: turning it on reads the units off the grid, turning it off   *)
(* withdraws what the session holds at the next forward().                  *)
SetRedistributeSlack(on) ==
  /\ Resting
  /\ redistribute' = on
  /\ pending' = IF ~on /\ held.sat THEN [pending EXCEPT !.sat = {<<>>}] ELSE pending
  /\ pc' = "idle"
  /\ call' = <<>>
  /\ UNCHANGED <<calls, lastRows, held, rdMasks, session>>

(* forward() has checked the shapes of its injections.                      *)
Call(c) ==
  /\ Resting
  /\ calls < MaxCalls
  /\ calls' = calls + 1
  /\ call' = c
  /\ pc' = "topology"
  /\ UNCHANGED <<redistribute, lastRows, held, pending, rdMasks, session>>

(* Any check, copy or call into the session may raise; the call's locals    *)
(* are gone and the attributes keep what they were last assigned.           *)
Raise ==
  /\ ~Resting
  /\ pc' = "idle"
  /\ call' = <<>>
  /\ pending' = [pending EXCEPT !.shares = <<>>]
  /\ UNCHANGED <<calls, redistribute, lastRows, held, rdMasks, session>>

(* A session that still holds an array must be told when the argument is    *)
(* back to None: the array differs from the base case, or its rows do.      *)
UndoForgetsRows(arg, mask, in, rows, n) == arg = <<>> /\ mask # <<>>
Undo(arg, mask, in, rows, n) == arg = <<>> /\ (mask # <<>> \/ (in /\ n # rows))

(* The array to hand over, <<>> when the session already has it.            *)
ToGive(arg, mask, in, rows, n) ==
  IF Undo(arg, mask, in, rows, n) THEN Nothing(n)
  ELSE IF arg # mask THEN arg ELSE <<>>
NewMask(arg, mask) == IF arg # mask THEN arg ELSE <<>>

(* _apply_topology: the trip list, if it changed.                           *)
ApplyTopology ==
  /\ pc = "topology"
  /\ pending' = [pending EXCEPT
       !.topology = ToGive(call.status, held.topology, held.topologyIn, held.topologyRows, call.n),
       !.topologyMask = NewMask(call.status, held.topology)]
  /\ pc' = "generators"
  /\ UNCHANGED <<calls, call, redistribute, lastRows, held, rdMasks, session>>

(* _apply_gen_status: the same for the generator mask; the capacity of the  *)
(* session then follows the number of rows.                                 *)
ApplyGenStatus ==
  /\ pc = "generators"
  /\ pending' = [pending EXCEPT
       !.gens = ToGive(call.gens, held.gens, held.gensIn, held.gensRows, call.n),
       !.gensMask = NewMask(call.gens, held.gens)]
  /\ lastRows' = call.n
  /\ session' = IF call.n = lastRows THEN session ELSE [session EXCEPT !.batch = call.n]
  /\ pc' = "conflicts"
  /\ UNCHANGED <<calls, call, redistribute, held, rdMasks>>

(* _apply_gen_v_conflicts: the rows the session must not simulate.          *)
ApplyConflicts ==
  LET bad == Conflicts(GenV(call)) IN
  /\ pc = "conflicts"
  /\ pending' = [pending EXCEPT
       !.skip = IF \E r \in DOMAIN bad : bad[r] THEN {bad}
                ELSE IF held.skip THEN {<<>>} ELSE {}]
  /\ pc' = IF redistribute THEN "slack" ELSE "giveInjections"
  /\ UNCHANGED <<calls, call, redistribute, lastRows, held, rdMasks, session>>

SessionsTopology == held.topology
(* The topology _row_masks() reads: the queued one, else the session's.     *)
SolvedTopology ==
  IF pending.topology # <<>> THEN pending.topologyMask ELSE held.topology

(* _row_masks and _slack_prepass: the masks come from the cache when it was *)
(* filled for this very topology and row count.                             *)
SlackPrepass ==
  LET topo  == SolvedTopology
      hit   == rdMasks # <<>> /\ rdMasks[1] = topo /\ Len(rdMasks[2]) = call.n
      masks == IF hit THEN rdMasks[2] ELSE OrNothing(topo, call.n)
      sat   == Saturated(call, masks)
  IN /\ pc = "slack"
     /\ rdMasks' = <<topo, masks>>
     /\ pending' = [pending EXCEPT !.sat = {sat}, !.shares = sat]
     /\ pc' = "giveInjections"
     /\ UNCHANGED <<calls, call, redistribute, lastRows, held, session>>

-----------------------------------------------------------------------------
(* _BatchPowerFlowOp.forward: the pieces, in the order of the code.         *)

GiveInjections ==
  /\ pc = "giveInjections"
  /\ session' = [session EXCEPT !.sbus = Injections(call, pending.shares)]
  /\ pending' = [pending EXCEPT !.shares = <<>>]
  /\ pc' = "giveTopology"
  /\ UNCHANGED <<calls, call, redistribute, lastRows, held, rdMasks>>

TopologyHeldByFlag(h, p) ==
  [h EXCEPT !.topologyIn = TRUE, !.topologyRows = Len(p.topology)]
TopologyHeld(h, p) ==
  [h EXCEPT !.topology = p.topologyMask, !.topologyIn = TRUE, !.topologyRows = Len(p.topology)]

GiveTopology ==
  /\ pc = "giveTopology"
  /\ pending.topology # <<>> => Len(pending.topology) = Len(session.sbus)
  /\ IF pending.topology = <<>> THEN UNCHANGED <<session, held, pending>>
     ELSE /\ session' = [session EXCEPT !.topology = pending.topology]
          /\ held' = TopologyHeld(held, pending)
          /\ pending' = [pending EXCEPT !.topology = <<>>, !.topologyMask = <<>>]
  /\ pc' = "giveSkip"
  /\ UNCHANGED <<calls, call, redistribute, lastRows, rdMasks>>

GiveSkip ==
  /\ pc = "giveSkip"
  /\ \A m \in pending.skip : m = <<>> \/ Len(m) = Len(session.sbus)
  /\ IF pending.skip = {} THEN UNCHANGED <<session, held, pending>>
     ELSE \E m \in pending.skip :
            /\ session' = [session EXCEPT !.skip = m]
            /\ held' = [held EXCEPT !.skip = (m # <<>>)]
            /\ pending' = [pending EXCEPT !.skip = {}]
  /\ pc' = "giveGens"
  /\ UNCHANGED <<calls, call, redistribute, lastRows, rdMasks>>

(* The session refuses a mask with a remote regulator before storing it.    *)
GiveGens ==
  /\ pc = "giveGens"
  /\ pending.gens # <<>> => /\ Len(pending.gens) = Len(session.sbus)
                            /\ \A r \in DOMAIN pending.gens : pending.gens[r] \cap Refused = {}
  /\ IF pending.gens = <<>> THEN UNCHANGED <<session, held, pending>>
     ELSE /\ session' = [session EXCEPT !.gens = pending.gens]
          /\ held' = [held EXCEPT !.gens = pending.gensMask, !.gensIn = TRUE,
                                  !.gensRows = Len(pending.gens)]
          /\ pending' = [pending EXCEPT !.gens = <<>>, !.gensMask = <<>>]
  /\ pc' = "giveGenV"
  /\ UNCHANGED <<calls, call, redistribute, lastRows, rdMasks>>

GiveGenV ==
  /\ pc = "giveGenV"
  /\ IF call.gen_v = <<>> /\ ~held.gen_v THEN UNCHANGED <<session, held>>
     ELSE /\ session' = [session EXCEPT !.gen_v = GenV(call)]
          /\ held' = [held EXCEPT !.gen_v = (call.gen_v # <<>>)]
  /\ pc' = "giveSat"
  /\ UNCHANGED <<calls, call, redistribute, lastRows, pending, rdMasks>>

GiveSaturation ==
  /\ pc = "giveSat"
  /\ IF pending.sat = {} THEN UNCHANGED <<session, held, pending>>
     ELSE \E s \in pending.sat :
            /\ session' = [session EXCEPT !.sat = s]
            /\ held' = [held EXCEPT !.sat = (s # <<>>)]
            /\ pending' = [pending EXCEPT !.sat = {}]
  /\ pc' = "run"
  /\ UNCHANGED <<calls, call, redistribute, lastRows, rdMasks>>

(* A row the session skips is NaN: get_disconnected() and converged().      *)
Dropped == [r \in 1..call.n |-> session.skip # <<>> /\ session.skip[r]]

(* The row-count checks of ScenarioSweepSession::run().                     *)
Mismatch(array) == array # <<>> /\ Len(array) # Len(session.sbus)
RunRefuses == \/ Mismatch(session.topology) \/ Mismatch(session.gens)
              \/ Mismatch(session.skip) \/ Mismatch(session.gen_v)
              \/ Mismatch(session.sat)

Run ==
  /\ pc = "run"
  /\ ~RunRefuses
  /\ pc' = "returned"
  /\ UNCHANGED <<calls, call, redistribute, lastRows, held, pending, rdMasks, session>>

Next ==
  \/ \E on \in BOOLEAN : SetRedistributeSlack(on)
  \/ \E c \in Calls : Call(c)
  \/ ApplyTopology \/ ApplyGenStatus \/ ApplyConflicts \/ SlackPrepass
  \/ GiveInjections \/ GiveTopology \/ GiveSkip \/ GiveGens \/ GiveGenV \/ GiveSaturation
  \/ Run \/ Raise

Spec == Init /\ [][Next]_vars

-----------------------------------------------------------------------------
(* Types of the wrapper's and the session's state.                          *)
MasksOf(S) == UNION {Arrays(S, n) : n \in 1..MaxRows}
GenVs == MasksOf({[g \in DOMAIN v |-> IF g \in off THEN 0 ELSE v[g]] :
                  v \in VoltRows, off \in GenRows})
SlackRow == [load : Loads, off : GenRows, masked : BranchRows]
Sbus == MasksOf([load : Loads, off : GenRows, share : {<<>>} \cup {<<s>> : s \in SlackRow}])

TypeOK ==
  /\ calls \in 0..MaxCalls
  /\ pc \in {"idle", "returned"} \cup ToSet(Stages)
  /\ IF pc = "idle" THEN call = <<>> ELSE call \in Calls
  /\ redistribute \in BOOLEAN
  /\ lastRows \in 0..MaxRows
  /\ held \in [topology : MasksOf(BranchRows), topologyIn : BOOLEAN, topologyRows : 0..MaxRows,
               gens : MasksOf(GenRows), gensIn : BOOLEAN, gensRows : 0..MaxRows,
               skip : BOOLEAN, gen_v : BOOLEAN, sat : BOOLEAN]
  /\ pending \in [topology : MasksOf(BranchRows), topologyMask : MasksOf(BranchRows),
                  gens : MasksOf(GenRows), gensMask : MasksOf(GenRows),
                  skip : {{}} \cup {{m} : m \in MasksOf(BOOLEAN)},
                  sat : {{}} \cup {{m} : m \in MasksOf(SlackRow)},
                  shares : MasksOf(SlackRow)]
  /\ rdMasks = <<>> \/ rdMasks \in MasksOf(BranchRows) \X MasksOf(BranchRows)
  /\ session \in [sbus : Sbus, topology : MasksOf(BranchRows), gens : MasksOf(GenRows),
                  skip : MasksOf(BOOLEAN), gen_v : GenVs, sat : MasksOf(SlackRow),
                  batch : 0..MaxRows]

(* "a call that raises in between cannot leave them claiming a topology /   *)
(* generator mask the session never received": between any two pieces the   *)
(* wrapper's records say what the session holds, a cleared array included.  *)
Believes(array, in, rows, real) ==
  /\ in = (real # <<>>)
  /\ in => rows = Len(real) /\ real = OrNothing(array, rows)
  /\ array # <<>> => real = array
RecordsMatchSession ==
  /\ Believes(held.topology, held.topologyIn, held.topologyRows, session.topology)
  /\ Believes(held.gens, held.gensIn, held.gensRows, session.gens)
  /\ held.skip = (session.skip # <<>>)
  /\ held.gen_v = (session.gen_v # <<>>)
  /\ held.sat = (session.sat # <<>>)

(* A call that returns was solved with its own inputs, every other one at   *)
(* its base-case value, whatever the calls before left or failed to leave   *)
(* in the session; the saturated units are those of its own topology.       *)
OwnSaturation == Saturated(call, OrNothing(call.status, call.n))
AnswerIsOfThisCall ==
  pc = "returned" =>
    /\ session.sbus = Injections(call, IF redistribute THEN OwnSaturation ELSE <<>>)
    /\ OrNothing(session.topology, call.n) = OrNothing(call.status, call.n)
    /\ OrNothing(session.gens, call.n) = GenOff(call)
    /\ session.gen_v = GenV(call)
    /\ \A r \in 1..call.n : Dropped[r] <=> (call.gen_v # <<>> /\ Conflicts(GenV(call))[r])
    /\ redistribute => session.sat = OwnSaturation
    /\ session.batch = call.n

(* No sequence of calls, with other row counts or cut short by exceptions,  *)
(* makes run() refuse a call for arrays of another row count than its own.  *)
NeverRefusedForRows ==
  pc = "run" =>
    /\ ~Mismatch(session.topology) /\ ~Mismatch(session.gens)
    /\ ~Mismatch(session.skip) /\ ~Mismatch(session.gen_v)
    /\ redistribute => ~Mismatch(session.sat)

(* "So the same inputs always give the same answer whatever the previous    *)
(* call was": without redistribute_slack no row has a saturated unit.       *)
SaturationFollowsSwitch ==
  pc = "returned" /\ ~redistribute => session.sat = <<>>
=============================================================================
