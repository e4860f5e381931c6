------------------------ MODULE BatchPowerFlow_proofs ------------------------
(***************************************************************************)
(* The wrapper's records, and what a call is solved with (BatchPowerFlow). *)
(***************************************************************************)
EXTENDS BatchPowerFlow, SequenceTheorems, TLAPS

(* An array of n rows is a sequence of n elements, none of them None.      *)
LEMMA ArrayLen ==
  ASSUME NEW n \in Nat \ {0}, NEW S, NEW f \in [1..n -> S]
  PROVE  f # <<>> /\ Len(f) = n /\ DOMAIN f = 1..n
<1>1. f \in Seq(S)
  BY SeqDef
<1>2. DOMAIN f = 1..Len(f) /\ Len(f) \in Nat
  BY <1>1, LenProperties
<1>3. Len(f) = n
  BY <1>2
<1>4. Len(<<>>) = 0
  OBVIOUS
<1>5. QED
  BY <1>3, <1>4

Fits(array, n) == array = <<>> \/ (Len(array) = n /\ DOMAIN array = 1..n)

LEMMA NothingLen ==
  ASSUME NEW n \in Nat \ {0}
  PROVE  Nothing(n) # <<>> /\ Len(Nothing(n)) = n /\ DOMAIN Nothing(n) = 1..n
<1>1. Nothing(n) \in [1..n -> {{}}]
  BY DEF Nothing
<1>2. QED
  BY <1>1, ArrayLen

(* The arguments of a call have its number of rows.                        *)
LEMMA ArgumentsFit ==
  ASSUME NEW c \in Calls
  PROVE  /\ c.n \in 1..MaxRows /\ c.n \in Nat \ {0}
         /\ Fits(c.status, c.n) /\ Fits(c.gens, c.n) /\ Fits(c.gen_v, c.n)
<1>1. PICK n \in 1..MaxRows :
        c \in [n : {n}, load : Loads, status : Arrays(BranchRows, n),
               gens : Arrays(GenRows, n), gen_v : Arrays(VoltRows, n)]
  BY RowsAssumption DEF RowsAssumption, ArgumentLists
<1>2. n \in Nat \ {0} /\ c.n = n
  BY <1>1, RowsAssumption DEF RowsAssumption
<1>3. ASSUME NEW S, NEW a \in Arrays(S, n) PROVE Fits(a, n)
  BY <1>2, <1>3, ArrayLen DEF Arrays, Fits
<1>4. c.status \in Arrays(BranchRows, n) /\ c.gens \in Arrays(GenRows, n) /\ c.gen_v \in Arrays(VoltRows, n)
  BY <1>1
<1>5. Fits(c.status, n) /\ Fits(c.gens, n) /\ Fits(c.gen_v, n)
  BY <1>3, <1>4
<1>6. QED
  BY <1>1, <1>2, <1>5

(* Set-points of disconnected generators are dropped row by row.           *)
LEMMA GenVFits ==
  ASSUME NEW c \in Calls
  PROVE  Fits(GenV(c), c.n) /\ ((GenV(c) # <<>>) = (c.gen_v # <<>>))
<1>1. CASE c.gen_v = <<>>
  BY <1>1 DEF GenV, Fits
<1>2. CASE c.gen_v # <<>>
  <2>. DEFINE V(r) == [g \in DOMAIN c.gen_v[r] |->
                        IF g \in GenOff(c)[r] THEN 0 ELSE c.gen_v[r][g]]
  <2>1. GenV(c) = [r \in 1..c.n |-> V(r)]
    BY <1>2 DEF GenV
  <2>2. GenV(c) \in [1..c.n -> {V(r) : r \in 1..c.n}]
    BY <2>1
  <2>3. QED
    BY <1>2, <2>2, ArrayLen, ArgumentsFit DEF Fits
<1>3. QED
  BY <1>1, <1>2

-----------------------------------------------------------------------------
(* What RecordsMatchSession needs of the steps in between: a pending array *)
(* is what its pending record will say of it.                              *)
Shapes ==
  /\ pc \in {"idle", "topology", "generators", "conflicts", "slack", "giveInjections",
             "giveTopology", "giveSkip", "giveGens", "giveGenV", "giveSat", "run", "returned"}
  /\ ~Resting => call \in Calls
  /\ pc = "returned" => call \in Calls
  /\ held = [topology |-> held.topology, topologyIn |-> held.topologyIn,
             topologyRows |-> held.topologyRows, gens |-> held.gens,
             gensIn |-> held.gensIn, gensRows |-> held.gensRows,
             skip |-> held.skip, gen_v |-> held.gen_v, sat |-> held.sat]
  /\ pending = [topology |-> pending.topology, topologyMask |-> pending.topologyMask,
                gens |-> pending.gens, gensMask |-> pending.gensMask,
                skip |-> pending.skip, sat |-> pending.sat, shares |-> pending.shares]
  /\ session = [sbus |-> session.sbus, topology |-> session.topology, gens |-> session.gens,
                skip |-> session.skip, gen_v |-> session.gen_v, sat |-> session.sat,
                batch |-> session.batch]

Tells(mask, array) == array # <<>> => array = OrNothing(mask, Len(array))
PendingTells == Tells(pending.topologyMask, pending.topology) /\ Tells(pending.gensMask, pending.gens)

RecordsInv == Shapes /\ PendingTells /\ RecordsMatchSession

(* What is handed over is told by the record that goes with it.            *)
LEMMA GivenIsTold ==
  ASSUME NEW n \in Nat \ {0}, NEW arg, NEW mask, NEW in, NEW rows
  PROVE  Tells(NewMask(arg, mask), ToGive(arg, mask, in, rows, n))
  BY NothingLen DEF Tells, NewMask, ToGive, Undo, OrNothing

LEMMA RecordsInit == Init => RecordsInv
<1>. SUFFICES ASSUME Init PROVE RecordsInv
  OBVIOUS
<1>1. pc = "idle" /\ Resting
  BY DEF Init, Resting
<1>2. Shapes
  <2>1. held = [topology |-> <<>>, topologyIn |-> FALSE, topologyRows |-> 0,
                gens |-> <<>>, gensIn |-> FALSE, gensRows |-> 0,
                skip |-> FALSE, gen_v |-> FALSE, sat |-> FALSE]
    BY DEF Init, Constructed
  <2>2. pending = [topology |-> <<>>, topologyMask |-> <<>>, gens |-> <<>>,
                   gensMask |-> <<>>, skip |-> {}, sat |-> {}, shares |-> <<>>]
    BY DEF Init, Constructed
  <2>3. session = [sbus |-> <<>>, topology |-> <<>>, gens |-> <<>>, skip |-> <<>>,
                   gen_v |-> <<>>, sat |-> <<>>, batch |-> 0]
    BY DEF Init, FromLsgrid
  <2>4. QED
    BY <1>1, <2>1, <2>2, <2>3 DEF Shapes
<1>3. PendingTells /\ RecordsMatchSession
  BY DEF Init, Constructed, FromLsgrid, PendingTells, Tells, RecordsMatchSession, Believes
<1>4. QED
  BY <1>2, <1>3 DEF RecordsInv

LEMMA RecordsPrepare ==
  ASSUME RecordsInv, ApplyTopology \/ ApplyGenStatus \/ ApplyConflicts \/ SlackPrepass
  PROVE  RecordsInv'
<1>. USE DEF RecordsInv
<1>0. call \in Calls
  BY DEF Shapes, Resting, ApplyTopology, ApplyGenStatus, ApplyConflicts, SlackPrepass
<1>1. CASE ApplyTopology
  <2>1. Shapes'
    BY <1>0, <1>1 DEF Shapes, ApplyTopology
  <2>2. PendingTells'
    BY <1>0, <1>1, GivenIsTold, ArgumentsFit DEF PendingTells, ApplyTopology, Shapes
  <2>3. RecordsMatchSession'
    BY <1>1 DEF ApplyTopology, RecordsMatchSession
  <2>4. QED
    BY <2>1, <2>2, <2>3
<1>2. CASE ApplyGenStatus
  <2>1. Shapes'
    BY <1>0, <1>2 DEF Shapes, ApplyGenStatus
  <2>2. PendingTells'
    BY <1>0, <1>2, GivenIsTold, ArgumentsFit DEF PendingTells, ApplyGenStatus, Shapes
  <2>3. RecordsMatchSession'
    BY <1>2 DEF ApplyGenStatus, RecordsMatchSession, Shapes
  <2>4. QED
    BY <2>1, <2>2, <2>3
<1>3. CASE ApplyConflicts
  <2>1. Shapes'
    BY <1>0, <1>3 DEF Shapes, ApplyConflicts
  <2>2. PendingTells' /\ RecordsMatchSession'
    BY <1>3 DEF ApplyConflicts, Shapes, PendingTells, RecordsMatchSession
  <2>3. QED
    BY <2>1, <2>2
<1>4. CASE SlackPrepass
  <2>1. Shapes'
    BY <1>0, <1>4 DEF Shapes, SlackPrepass
  <2>2. PendingTells' /\ RecordsMatchSession'
    BY <1>4 DEF SlackPrepass, Shapes, PendingTells, RecordsMatchSession
  <2>3. QED
    BY <2>1, <2>2
<1>5. QED
  BY <1>1, <1>2, <1>3, <1>4

(* Handing a value over changes the session and the record of it together. *)
LEMMA RecordsGive ==
  ASSUME RecordsInv,
         GiveInjections \/ GiveTopology \/ GiveSkip \/ GiveGens \/ GiveGenV \/ GiveSaturation
  PROVE  RecordsInv'
<1>. USE DEF RecordsInv
<1>0. call \in Calls
  BY DEF Shapes, Resting, GiveInjections, GiveTopology, GiveSkip, GiveGens, GiveGenV, GiveSaturation
<1>1. CASE GiveInjections
  <2>1. Shapes'
    BY <1>0, <1>1 DEF Shapes, GiveInjections
  <2>2. PendingTells' /\ RecordsMatchSession'
    BY <1>1 DEF GiveInjections, Shapes, PendingTells, RecordsMatchSession
  <2>3. QED
    BY <2>1, <2>2
<1>2. CASE GiveTopology
  <2>1. CASE pending.topology = <<>>
    <3>1. Shapes'
      BY <1>0, <1>2, <2>1 DEF Shapes, GiveTopology
    <3>2. PendingTells' /\ RecordsMatchSession'
      BY <1>2, <2>1 DEF GiveTopology, PendingTells, RecordsMatchSession
    <3>3. QED
      BY <3>1, <3>2
  <2>2. CASE pending.topology # <<>>
    <3>1. Shapes'
      BY <1>0, <1>2, <2>2 DEF Shapes, GiveTopology, TopologyHeld
    <3>2. PendingTells'
      BY <1>2, <2>2 DEF GiveTopology, PendingTells, Shapes, Tells
    <3>3. /\ session'.topology = pending.topology /\ session'.gens = session.gens
          /\ session'.skip = session.skip /\ session'.gen_v = session.gen_v
          /\ session'.sat = session.sat
      BY <1>2, <2>2 DEF GiveTopology, Shapes
    <3>4. /\ held'.topology = pending.topologyMask /\ held'.topologyIn = TRUE
          /\ held'.topologyRows = Len(pending.topology)
          /\ held'.gens = held.gens /\ held'.gensIn = held.gensIn /\ held'.gensRows = held.gensRows
          /\ held'.skip = held.skip /\ held'.gen_v = held.gen_v /\ held'.sat = held.sat
      BY <1>2, <2>2 DEF GiveTopology, TopologyHeld, Shapes
    <3>5. Believes(pending.topologyMask, TRUE, Len(pending.topology), pending.topology)
      BY <2>2 DEF PendingTells, Tells, Believes, OrNothing
    <3>6. RecordsMatchSession'
      BY <3>3, <3>4, <3>5 DEF RecordsMatchSession, Believes
    <3>7. QED
      BY <3>1, <3>2, <3>6
  <2>3. QED
    BY <2>1, <2>2
<1>3. CASE GiveSkip
  <2>1. CASE pending.skip = {}
    <3>1. Shapes'
      BY <1>0, <1>3, <2>1 DEF Shapes, GiveSkip
    <3>2. PendingTells' /\ RecordsMatchSession'
      BY <1>3, <2>1 DEF GiveSkip, PendingTells, RecordsMatchSession
    <3>3. QED
      BY <3>1, <3>2
  <2>2. CASE pending.skip # {}
    <3>1. PICK m \in pending.skip :
            /\ session' = [session EXCEPT !.skip = m]
            /\ held' = [held EXCEPT !.skip = (m # <<>>)]
            /\ pending' = [pending EXCEPT !.skip = {}]
      BY <1>3, <2>2 DEF GiveSkip
    <3>2. Shapes'
      BY <1>0, <1>3, <3>1 DEF Shapes, GiveSkip
    <3>3. PendingTells' /\ RecordsMatchSession'
      BY <3>1 DEF PendingTells, Shapes, RecordsMatchSession
    <3>4. QED
      BY <3>2, <3>3
  <2>3. QED
    BY <2>1, <2>2
<1>4. CASE GiveGens
  <2>1. CASE pending.gens = <<>>
    <3>1. Shapes'
      BY <1>0, <1>4, <2>1 DEF Shapes, GiveGens
    <3>2. PendingTells' /\ RecordsMatchSession'
      BY <1>4, <2>1 DEF GiveGens, PendingTells, RecordsMatchSession
    <3>3. QED
      BY <3>1, <3>2
  <2>2. CASE pending.gens # <<>>
    <3>1. Shapes'
      BY <1>0, <1>4, <2>2 DEF Shapes, GiveGens
    <3>2. PendingTells'
      BY <1>4, <2>2 DEF GiveGens, PendingTells, Shapes, Tells
    <3>3. /\ session'.gens = pending.gens /\ session'.topology = session.topology
          /\ session'.skip = session.skip /\ session'.gen_v = session.gen_v
          /\ session'.sat = session.sat
      BY <1>4, <2>2 DEF GiveGens, Shapes
    <3>4. /\ held'.gens = pending.gensMask /\ held'.gensIn = TRUE
          /\ held'.gensRows = Len(pending.gens)
          /\ held'.topology = held.topology /\ held'.topologyIn = held.topologyIn
          /\ held'.topologyRows = held.topologyRows
          /\ held'.skip = held.skip /\ held'.gen_v = held.gen_v /\ held'.sat = held.sat
      BY <1>4, <2>2 DEF GiveGens, Shapes
    <3>5. Believes(pending.gensMask, TRUE, Len(pending.gens), pending.gens)
      BY <2>2 DEF PendingTells, Tells, Believes, OrNothing
    <3>6. RecordsMatchSession'
      BY <3>3, <3>4, <3>5 DEF RecordsMatchSession, Believes
    <3>7. QED
      BY <3>1, <3>2, <3>6
  <2>3. QED
    BY <2>1, <2>2
<1>5. CASE GiveGenV
  <2>1. CASE call.gen_v = <<>> /\ ~held.gen_v
    <3>1. Shapes'
      BY <1>0, <1>5, <2>1 DEF Shapes, GiveGenV
    <3>2. PendingTells' /\ RecordsMatchSession'
      BY <1>5, <2>1 DEF GiveGenV, PendingTells, RecordsMatchSession
    <3>3. QED
      BY <3>1, <3>2
  <2>2. CASE ~(call.gen_v = <<>> /\ ~held.gen_v)
    <3>1. Shapes'
      BY <1>0, <1>5, <2>2 DEF Shapes, GiveGenV
    <3>2. (GenV(call) # <<>>) = (call.gen_v # <<>>)
      BY <1>0, GenVFits
    <3>3. PendingTells' /\ RecordsMatchSession'
      BY <1>5, <2>2, <3>2 DEF GiveGenV, PendingTells, Shapes, RecordsMatchSession
    <3>4. QED
      BY <3>1, <3>3
  <2>3. QED
    BY <2>1, <2>2
<1>6. CASE GiveSaturation
  <2>1. CASE pending.sat = {}
    <3>1. Shapes'
      BY <1>0, <1>6, <2>1 DEF Shapes, GiveSaturation
    <3>2. PendingTells' /\ RecordsMatchSession'
      BY <1>6, <2>1 DEF GiveSaturation, PendingTells, RecordsMatchSession
    <3>3. QED
      BY <3>1, <3>2
  <2>2. CASE pending.sat # {}
    <3>1. PICK m \in pending.sat :
            /\ session' = [session EXCEPT !.sat = m]
            /\ held' = [held EXCEPT !.sat = (m # <<>>)]
            /\ pending' = [pending EXCEPT !.sat = {}]
      BY <1>6, <2>2 DEF GiveSaturation
    <3>2. Shapes'
      BY <1>0, <1>6, <3>1 DEF Shapes, GiveSaturation
    <3>3. PendingTells' /\ RecordsMatchSession'
      BY <3>1 DEF PendingTells, Shapes, RecordsMatchSession
    <3>4. QED
      BY <3>2, <3>3
  <2>3. QED
    BY <2>1, <2>2
<1>7. QED
  BY <1>1, <1>2, <1>3, <1>4, <1>5, <1>6

(* The start and the end of a call, raised or returned.                    *)
LEMMA RecordsAround ==
  ASSUME RecordsInv,
         \/ \E on \in BOOLEAN : SetRedistributeSlack(on)
         \/ \E c \in Calls : Call(c)
         \/ Run \/ Raise \/ UNCHANGED vars
  PROVE  RecordsInv'
<1>. USE DEF RecordsInv
<1>1. ASSUME NEW on \in BOOLEAN, SetRedistributeSlack(on) PROVE RecordsInv'
  <2>1. Shapes'
    BY <1>1 DEF Shapes, SetRedistributeSlack, Resting
  <2>2. PendingTells' /\ RecordsMatchSession'
    BY <1>1 DEF SetRedistributeSlack, Shapes, PendingTells, RecordsMatchSession
  <2>3. QED
    BY <2>1, <2>2
<1>2. ASSUME NEW c \in Calls, Call(c) PROVE RecordsInv'
  BY <1>2 DEF Shapes, Call, Resting, PendingTells, RecordsMatchSession
<1>3. CASE Run
  BY <1>3 DEF Shapes, Run, Resting, PendingTells, RecordsMatchSession
<1>4. CASE Raise
  <2>1. Shapes'
    BY <1>4 DEF Shapes, Raise, Resting
  <2>2. PendingTells' /\ RecordsMatchSession'
    BY <1>4 DEF Raise, Shapes, PendingTells, RecordsMatchSession
  <2>3. QED
    BY <2>1, <2>2
<1>5. CASE UNCHANGED vars
  BY <1>5 DEF vars, Shapes, Resting, PendingTells, RecordsMatchSession
<1>6. QED
  BY <1>1, <1>2, <1>3, <1>4, <1>5

LEMMA RecordsInductive == RecordsInv /\ [Next]_vars => RecordsInv'
  BY RecordsPrepare, RecordsGive, RecordsAround DEF Next

(* "a call that raises in between cannot leave them claiming a topology /  *)
(* generator mask the session never received" (_batch_pf.py), for every    *)
(* number of calls, rows, branches and generators.                         *)
THEOREM RecordsCorrect == Spec => []RecordsMatchSession
<1>1. RecordsInv => RecordsMatchSession
  BY DEF RecordsInv
<1>2. QED
  BY <1>1, RecordsInit, RecordsInductive, PTL DEF Spec

-----------------------------------------------------------------------------
(* Why an answer is of its own call: at every stage the session, with what *)
(* is still pending for it, is what this call asks for.                    *)
Gave(topic) ==
  pc \in CASE topic = "injections" -> {"giveTopology", "giveSkip", "giveGens", "giveGenV", "giveSat", "run", "returned"}
           [] topic = "topology"   -> {"giveSkip", "giveGens", "giveGenV", "giveSat", "run", "returned"}
           [] topic = "skip"       -> {"giveGens", "giveGenV", "giveSat", "run", "returned"}
           [] topic = "gens"       -> {"giveGenV", "giveSat", "run", "returned"}
           [] topic = "gen_v"      -> {"giveSat", "run", "returned"}
           [] topic = "sat"        -> {"run", "returned"}
Prepared(topic) ==
  \/ Gave("injections") \/ pc = "giveInjections"
  \/ pc = "slack" /\ topic # "sat"
  \/ pc = "conflicts" /\ topic \in {"topology", "gens"}
  \/ pc = "generators" /\ topic = "topology"

WillHold(array, real) == IF array # <<>> THEN array ELSE real
Asked(array, arg, n) == Fits(array, n) /\ OrNothing(array, n) = OrNothing(arg, n)
SkipAsked(c) ==
  LET bad == Conflicts(GenV(c)) IN IF \E r \in DOMAIN bad : bad[r] THEN bad ELSE <<>>
SharesAsked == IF redistribute THEN OwnSaturation ELSE <<>>

TopologyInv ==
  /\ Prepared("topology") => Asked(WillHold(pending.topology, session.topology), call.status, call.n)
  /\ Gave("topology") => pending.topology = <<>>
GensInv ==
  /\ Prepared("gens") => Asked(WillHold(pending.gens, session.gens), call.gens, call.n)
  /\ Gave("gens") => pending.gens = <<>>
SkipInv ==
  /\ Prepared("skip") /\ ~Gave("skip") =>
        \/ pending.skip = {SkipAsked(call)}
        \/ pending.skip = {} /\ session.skip = <<>> /\ SkipAsked(call) = <<>>
  /\ Gave("skip") => session.skip = SkipAsked(call)
GenVInv == Gave("gen_v") => session.gen_v = GenV(call)
BatchInv == session.batch = lastRows /\ (Prepared("gens") => lastRows = call.n)
SharesInv ==
  /\ pc = "slack" => redistribute
  /\ pending.shares = IF pc = "giveInjections" THEN SharesAsked ELSE <<>>
  /\ Gave("injections") => session.sbus = Injections(call, SharesAsked)
SatInv ==
  redistribute =>
    /\ Prepared("sat") /\ ~Gave("sat") => pending.sat = {OwnSaturation}
    /\ Gave("sat") => session.sat = OwnSaturation
MasksInv == rdMasks # <<>> => rdMasks[2] = OrNothing(rdMasks[1], Len(rdMasks[2]))

CallInv ==
  /\ RecordsInv
  /\ TopologyInv /\ GensInv /\ SkipInv /\ GenVInv /\ BatchInv /\ SharesInv /\ SatInv /\ MasksInv

(* Whatever the session holds, what is handed over makes it what is asked. *)
LEMMA ToGiveIsAsked ==
  ASSUME NEW n \in Nat \ {0}, NEW arg, NEW mask, NEW in, NEW rows, NEW real,
         Fits(arg, n), Believes(mask, in, rows, real)
  PROVE  Asked(WillHold(ToGive(arg, mask, in, rows, n), real), arg, n)
<1>1. CASE Undo(arg, mask, in, rows, n)
  BY <1>1, NothingLen DEF Undo, ToGive, WillHold, Asked, Fits, OrNothing
<1>2. CASE ~Undo(arg, mask, in, rows, n) /\ arg # mask
  BY <1>2, NothingLen DEF Undo, ToGive, WillHold, Asked, Fits, OrNothing
<1>3. CASE ~Undo(arg, mask, in, rows, n) /\ arg = mask
  <2>1. ToGive(arg, mask, in, rows, n) = <<>>
    BY <1>3 DEF ToGive
  <2>2. CASE arg # <<>>
    BY <1>3, <2>1, <2>2 DEF WillHold, Asked, Believes
  <2>3. CASE arg = <<>> /\ real = <<>>
    BY <2>1, <2>3 DEF WillHold, Asked, Fits
  <2>4. CASE arg = <<>> /\ real # <<>>
    <3>1. rows = n /\ real = Nothing(n)
      BY <1>3, <2>4 DEF Undo, Believes, OrNothing
    <3>2. QED
      BY <2>1, <2>4, <3>1, NothingLen DEF WillHold, Asked, Fits, OrNothing
  <2>5. QED
    BY <2>2, <2>3, <2>4
<1>4. QED
  BY <1>1, <1>2, <1>3

LEMMA CallInit == Init => CallInv
<1>. SUFFICES ASSUME Init PROVE CallInv
  OBVIOUS
<1>1. RecordsInv
  BY RecordsInit
<1>2. pc = "idle"
  BY DEF Init
<1>3. TopologyInv /\ GensInv /\ SkipInv /\ GenVInv /\ SatInv
  BY <1>2 DEF TopologyInv, GensInv, SkipInv, GenVInv, SatInv, Prepared, Gave
<1>4. BatchInv /\ SharesInv /\ MasksInv
  BY <1>2 DEF Init, Constructed, FromLsgrid, BatchInv, SharesInv, MasksInv, Prepared, Gave
<1>5. QED
  BY <1>1, <1>3, <1>4 DEF CallInv

LEMMA CallTopology ==
  ASSUME CallInv, ApplyTopology
  PROVE  CallInv'
<1>. USE DEF CallInv
<1>1. call \in Calls /\ RecordsInv' /\ Shapes
  BY RecordsPrepare DEF RecordsInv, Shapes, Resting, ApplyTopology
<1>2. pc = "topology" /\ pc' = "generators"
  BY DEF ApplyTopology
<1>3. TopologyInv'
  <2>1. pending'.topology = ToGive(call.status, held.topology, held.topologyIn, held.topologyRows, call.n)
    BY <1>1 DEF Shapes, ApplyTopology
  <2>2. Asked(WillHold(pending'.topology, session.topology), call.status, call.n)
    BY <1>1, <2>1, ToGiveIsAsked, ArgumentsFit DEF RecordsInv, RecordsMatchSession
  <2>3. QED
    BY <1>2, <2>2 DEF ApplyTopology, TopologyInv, Gave
<1>4. GensInv' /\ SkipInv' /\ GenVInv' /\ SatInv'
  BY <1>2 DEF GensInv, SkipInv, GenVInv, SatInv, Prepared, Gave
<1>5. BatchInv' /\ SharesInv' /\ MasksInv'
  BY <1>1, <1>2 DEF ApplyTopology, Shapes, BatchInv, SharesInv, MasksInv, Prepared, Gave
<1>6. QED
  BY <1>1, <1>3, <1>4, <1>5

LEMMA CallGens ==
  ASSUME CallInv, ApplyGenStatus
  PROVE  CallInv'
<1>. USE DEF CallInv
<1>1. call \in Calls /\ RecordsInv' /\ Shapes
  BY RecordsPrepare DEF RecordsInv, Shapes, Resting, ApplyGenStatus
<1>2. pc = "generators" /\ pc' = "conflicts"
  BY DEF ApplyGenStatus
<1>3. session'.topology = session.topology /\ session'.gens = session.gens
      /\ session'.batch = call.n /\ lastRows' = call.n
  BY <1>1 DEF Shapes, ApplyGenStatus, BatchInv
<1>4. pending'.topology = pending.topology /\ pending'.shares = pending.shares
      /\ pending'.gens = ToGive(call.gens, held.gens, held.gensIn, held.gensRows, call.n)
  BY <1>1 DEF Shapes, ApplyGenStatus
<1>5. TopologyInv'
  BY <1>2, <1>3, <1>4 DEF ApplyGenStatus, TopologyInv, Prepared, Gave
<1>6. GensInv'
  <2>1. Asked(WillHold(pending'.gens, session'.gens), call.gens, call.n)
    BY <1>1, <1>3, <1>4, ToGiveIsAsked, ArgumentsFit DEF RecordsInv, RecordsMatchSession
  <2>2. QED
    BY <1>2, <2>1 DEF ApplyGenStatus, GensInv, Gave
<1>7. SkipInv' /\ GenVInv' /\ SatInv'
  BY <1>2 DEF SkipInv, GenVInv, SatInv, Prepared, Gave
<1>8. BatchInv' /\ SharesInv' /\ MasksInv'
  BY <1>2, <1>3, <1>4 DEF ApplyGenStatus, BatchInv, SharesInv, MasksInv, Prepared, Gave
<1>9. QED
  BY <1>1, <1>5, <1>6, <1>7, <1>8

LEMMA CallConflicts ==
  ASSUME CallInv, ApplyConflicts
  PROVE  CallInv'
<1>. USE DEF CallInv
<1>1. call \in Calls /\ RecordsInv' /\ Shapes
  BY RecordsPrepare DEF RecordsInv, Shapes, Resting, ApplyConflicts
<1>2. pc = "conflicts" /\ pc' = IF redistribute THEN "slack" ELSE "giveInjections"
  BY DEF ApplyConflicts
<1>3. pending'.topology = pending.topology /\ pending'.gens = pending.gens
      /\ pending'.shares = pending.shares
  BY <1>1 DEF Shapes, ApplyConflicts
<1>4. TopologyInv' /\ GensInv' /\ GenVInv'
  BY <1>2, <1>3 DEF ApplyConflicts, TopologyInv, GensInv, GenVInv, Prepared, Gave
<1>5. SkipInv'
  <2>1. \/ pending'.skip = {SkipAsked(call)}
        \/ pending'.skip = {} /\ session.skip = <<>> /\ SkipAsked(call) = <<>>
    <3>. DEFINE bad == Conflicts(GenV(call))
                some == \E r \in DOMAIN bad : bad[r]
    <3>1. SkipAsked(call) = IF some THEN bad ELSE <<>>
      BY DEF SkipAsked
    <3>2. pending' = [pending EXCEPT !.skip = IF some THEN {bad}
                                              ELSE IF held.skip THEN {<<>>} ELSE {}]
      BY DEF ApplyConflicts
    <3>3. held.skip = (session.skip # <<>>)
      BY DEF RecordsInv, RecordsMatchSession
    <3>. HIDE DEF bad, some
    <3>4. pending'.skip = IF some THEN {bad} ELSE IF held.skip THEN {<<>>} ELSE {}
      BY <1>1, <3>2 DEF Shapes
    <3>5. QED
      BY <3>1, <3>3, <3>4
  <2>2. QED
    BY <1>2, <2>1 DEF ApplyConflicts, SkipInv, Gave
<1>6. BatchInv' /\ SharesInv' /\ MasksInv'
  BY <1>2, <1>3 DEF ApplyConflicts, BatchInv, SharesInv, SharesAsked, MasksInv, Prepared, Gave
<1>7. SatInv'
  <2>1. CASE redistribute
    BY <1>2, <2>1 DEF SatInv, Prepared, Gave
  <2>2. CASE ~redistribute
    BY <2>2 DEF ApplyConflicts, SatInv
  <2>3. QED
    BY <2>1, <2>2
<1>8. QED
  BY <1>1, <1>4, <1>5, <1>6, <1>7

(* The topology the masks are taken from is the one the session will have. *)
LEMMA SolvedIsAsked ==
  ASSUME CallInv, pc = "slack"
  PROVE  OrNothing(SolvedTopology, call.n) = OrNothing(call.status, call.n)
<1>. USE DEF CallInv
<1>1. call \in Calls
  BY DEF RecordsInv, Shapes, Resting
<1>2. call.n \in Nat \ {0}
  BY <1>1, ArgumentsFit
<1>3. Asked(WillHold(pending.topology, session.topology), call.status, call.n)
  BY DEF TopologyInv, Prepared
<1>4. CASE pending.topology # <<>>
  <2>1. pending.topology = OrNothing(pending.topologyMask, call.n)
    BY <1>3, <1>4 DEF WillHold, Asked, Fits, RecordsInv, PendingTells, Tells
  <2>2. QED
    BY <1>3, <1>4, <2>1 DEF WillHold, Asked, SolvedTopology, OrNothing
<1>5. CASE pending.topology = <<>> /\ held.topology # <<>>
  <2>1. session.topology = held.topology
    BY <1>5 DEF RecordsInv, RecordsMatchSession, Believes
  <2>2. QED
    BY <1>3, <1>5, <2>1 DEF WillHold, Asked, SolvedTopology
<1>6. CASE pending.topology = <<>> /\ held.topology = <<>> /\ session.topology = <<>>
  BY <1>3, <1>6 DEF WillHold, Asked, SolvedTopology
<1>7. CASE pending.topology = <<>> /\ held.topology = <<>> /\ session.topology # <<>>
  <2>1. session.topology = Nothing(held.topologyRows)
    BY <1>7 DEF RecordsInv, RecordsMatchSession, Believes, OrNothing
  <2>2. Len(session.topology) = call.n /\ Len(session.topology) = held.topologyRows
    BY <1>3, <1>7 DEF WillHold, Asked, Fits, RecordsInv, RecordsMatchSession, Believes
  <2>3. QED
    BY <1>2, <1>3, <1>7, <2>1, <2>2, NothingLen DEF WillHold, Asked, SolvedTopology, OrNothing
<1>8. QED
  BY <1>4, <1>5, <1>6, <1>7

LEMMA CallSlack ==
  ASSUME CallInv, SlackPrepass
  PROVE  CallInv'
<1>. USE DEF CallInv
<1>1. call \in Calls /\ RecordsInv' /\ Shapes
  BY RecordsPrepare DEF RecordsInv, Shapes, Resting, SlackPrepass
<1>2. pc = "slack" /\ pc' = "giveInjections" /\ call' = call /\ session' = session
  BY DEF SlackPrepass
<1>3. call.n \in Nat \ {0}
  BY <1>1, ArgumentsFit
<1>. DEFINE hit == rdMasks # <<>> /\ rdMasks[1] = SolvedTopology /\ Len(rdMasks[2]) = call.n
            masks == IF hit THEN rdMasks[2] ELSE OrNothing(SolvedTopology, call.n)
<1>4. masks = OrNothing(SolvedTopology, call.n)
  BY DEF MasksInv
<1>5. masks = OrNothing(call.status, call.n)
  BY <1>2, <1>4, SolvedIsAsked
<1>6. rdMasks' = <<SolvedTopology, masks>>
      /\ pending' = [pending EXCEPT !.sat = {Saturated(call, masks)}, !.shares = Saturated(call, masks)]
  BY DEF SlackPrepass
<1>. HIDE DEF masks
<1>7. pending'.sat = {OwnSaturation} /\ pending'.shares = OwnSaturation
  BY <1>1, <1>5, <1>6 DEF Shapes, OwnSaturation
<1>8. pending'.topology = pending.topology /\ pending'.gens = pending.gens /\ pending'.skip = pending.skip
  BY <1>1, <1>6 DEF Shapes
<1>9. TopologyInv' /\ GensInv' /\ SkipInv' /\ GenVInv' /\ BatchInv'
  BY <1>2, <1>8 DEF SlackPrepass, TopologyInv, GensInv, SkipInv, GenVInv, BatchInv, Prepared, Gave
<1>10. MasksInv'
  BY <1>3, <1>4, <1>6, NothingLen DEF MasksInv, OrNothing
<1>11. redistribute' = redistribute /\ OwnSaturation' = OwnSaturation
  BY <1>2 DEF SlackPrepass, OwnSaturation, Saturated, GenOff, OrNothing, Nothing
<1>12. SatInv'
  BY <1>2, <1>7, <1>11 DEF SatInv, Gave
<1>13. SharesInv'
  BY <1>2, <1>7, <1>11 DEF SharesInv, SharesAsked, Gave
<1>14. QED
  BY <1>1, <1>9, <1>10, <1>12, <1>13

LEMMA SameShares ==
  ASSUME call' = call, redistribute' = redistribute
  PROVE  OwnSaturation' = OwnSaturation /\ SharesAsked' = SharesAsked
  BY DEF OwnSaturation, Saturated, GenOff, OrNothing, Nothing, SharesAsked

LEMMA CallGiveInjections ==
  ASSUME CallInv, GiveInjections
  PROVE  CallInv'
<1>. USE DEF CallInv
<1>1. RecordsInv' /\ Shapes
  BY RecordsGive DEF RecordsInv
<1>2. /\ pc = "giveInjections" /\ pc' = "giveTopology" /\ call' = call
      /\ redistribute' = redistribute /\ lastRows' = lastRows /\ rdMasks' = rdMasks
  BY DEF GiveInjections
<1>3. /\ session'.topology = session.topology /\ session'.gens = session.gens /\ session'.skip = session.skip
      /\ session'.gen_v = session.gen_v /\ session'.sat = session.sat /\ session'.batch = session.batch
      /\ pending'.topology = pending.topology /\ pending'.gens = pending.gens /\ pending'.skip = pending.skip
      /\ pending'.sat = pending.sat
  BY <1>1 DEF Shapes, GiveInjections
<1>4. session'.sbus = Injections(call, SharesAsked) /\ pending'.shares = <<>>
  BY <1>1, <1>2 DEF Shapes, GiveInjections, SharesInv
<1>5. TopologyInv' /\ GensInv' /\ SkipInv' /\ GenVInv' /\ BatchInv' /\ MasksInv'
  BY <1>2, <1>3 DEF TopologyInv, GensInv, SkipInv, GenVInv, BatchInv, MasksInv, Prepared, Gave
<1>6. SharesInv' /\ SatInv'
  BY <1>2, <1>3, <1>4, SameShares DEF SharesInv, SatInv, Prepared, Gave
<1>7. QED
  BY <1>1, <1>5, <1>6

LEMMA CallGiveTopology ==
  ASSUME CallInv, GiveTopology
  PROVE  CallInv'
<1>. USE DEF CallInv
<1>1. RecordsInv' /\ Shapes
  BY RecordsGive DEF RecordsInv
<1>2. /\ pc = "giveTopology" /\ pc' = "giveSkip" /\ call' = call
      /\ redistribute' = redistribute /\ lastRows' = lastRows /\ rdMasks' = rdMasks
  BY DEF GiveTopology
<1>3. /\ session'.sbus = session.sbus /\ session'.gens = session.gens /\ session'.skip = session.skip
      /\ session'.gen_v = session.gen_v /\ session'.sat = session.sat /\ session'.batch = session.batch
      /\ pending'.gens = pending.gens /\ pending'.skip = pending.skip /\ pending'.sat = pending.sat
      /\ pending'.shares = pending.shares
  BY <1>1 DEF Shapes, GiveTopology
<1>4. TopologyInv'
  <2>1. WillHold(pending.topology, session.topology) = session'.topology /\ pending'.topology = <<>>
    BY <1>1 DEF GiveTopology, Shapes, WillHold
  <2>2. Asked(session'.topology, call.status, call.n)
    BY <1>2, <2>1 DEF TopologyInv, Prepared, Gave
  <2>3. QED
    BY <1>2, <2>1, <2>2 DEF TopologyInv, WillHold
<1>5. GensInv' /\ SkipInv' /\ GenVInv' /\ BatchInv' /\ MasksInv'
  BY <1>2, <1>3 DEF GensInv, SkipInv, GenVInv, BatchInv, MasksInv, Prepared, Gave
<1>6. SharesInv' /\ SatInv'
  BY <1>2, <1>3, SameShares DEF SharesInv, SatInv, Prepared, Gave
<1>7. QED
  BY <1>1, <1>4, <1>5, <1>6

LEMMA CallGiveSkip ==
  ASSUME CallInv, GiveSkip
  PROVE  CallInv'
<1>. USE DEF CallInv
<1>1. RecordsInv' /\ Shapes
  BY RecordsGive DEF RecordsInv
<1>2. /\ pc = "giveSkip" /\ pc' = "giveGens" /\ call' = call
      /\ redistribute' = redistribute /\ lastRows' = lastRows /\ rdMasks' = rdMasks
  BY DEF GiveSkip
<1>3. /\ session'.sbus = session.sbus /\ session'.topology = session.topology /\ session'.gens = session.gens
      /\ session'.gen_v = session.gen_v /\ session'.sat = session.sat /\ session'.batch = session.batch
      /\ pending'.topology = pending.topology /\ pending'.gens = pending.gens /\ pending'.sat = pending.sat
      /\ pending'.shares = pending.shares
  BY <1>1 DEF Shapes, GiveSkip
<1>4. SkipInv'
  <2>1. session'.skip = SkipAsked(call)
    BY <1>1, <1>2 DEF GiveSkip, Shapes, SkipInv, Prepared, Gave
  <2>2. QED
    BY <1>2, <2>1 DEF SkipInv, Gave
<1>5. TopologyInv' /\ GensInv' /\ GenVInv' /\ BatchInv' /\ MasksInv'
  BY <1>2, <1>3 DEF TopologyInv, GensInv, GenVInv, BatchInv, MasksInv, Prepared, Gave
<1>6. SharesInv' /\ SatInv'
  BY <1>2, <1>3, SameShares DEF SharesInv, SatInv, Prepared, Gave
<1>7. QED
  BY <1>1, <1>4, <1>5, <1>6

LEMMA CallGiveGens ==
  ASSUME CallInv, GiveGens
  PROVE  CallInv'
<1>. USE DEF CallInv
<1>1. RecordsInv' /\ Shapes
  BY RecordsGive DEF RecordsInv
<1>2. /\ pc = "giveGens" /\ pc' = "giveGenV" /\ call' = call
      /\ redistribute' = redistribute /\ lastRows' = lastRows /\ rdMasks' = rdMasks
  BY DEF GiveGens
<1>3. /\ session'.sbus = session.sbus /\ session'.topology = session.topology /\ session'.skip = session.skip
      /\ session'.gen_v = session.gen_v /\ session'.sat = session.sat /\ session'.batch = session.batch
      /\ pending'.topology = pending.topology /\ pending'.skip = pending.skip /\ pending'.sat = pending.sat
      /\ pending'.shares = pending.shares
  BY <1>1 DEF Shapes, GiveGens
<1>4. GensInv'
  <2>1. WillHold(pending.gens, session.gens) = session'.gens /\ pending'.gens = <<>>
    BY <1>1 DEF GiveGens, Shapes, WillHold
  <2>2. Asked(session'.gens, call.gens, call.n)
    BY <1>2, <2>1 DEF GensInv, Prepared, Gave
  <2>3. QED
    BY <1>2, <2>1, <2>2 DEF GensInv, WillHold
<1>5. TopologyInv' /\ SkipInv' /\ GenVInv' /\ BatchInv' /\ MasksInv'
  BY <1>2, <1>3 DEF TopologyInv, SkipInv, GenVInv, BatchInv, MasksInv, Prepared, Gave
<1>6. SharesInv' /\ SatInv'
  BY <1>2, <1>3, SameShares DEF SharesInv, SatInv, Prepared, Gave
<1>7. QED
  BY <1>1, <1>4, <1>5, <1>6

LEMMA CallGiveGenV ==
  ASSUME CallInv, GiveGenV
  PROVE  CallInv'
<1>. USE DEF CallInv
<1>1. RecordsInv' /\ Shapes
  BY RecordsGive DEF RecordsInv
<1>2. /\ pc = "giveGenV" /\ pc' = "giveSat" /\ call' = call
      /\ redistribute' = redistribute /\ lastRows' = lastRows /\ rdMasks' = rdMasks
  BY DEF GiveGenV
<1>3. /\ session'.sbus = session.sbus /\ session'.topology = session.topology /\ session'.gens = session.gens
      /\ session'.skip = session.skip /\ session'.sat = session.sat /\ session'.batch = session.batch
      /\ pending'.topology = pending.topology /\ pending'.gens = pending.gens /\ pending'.skip = pending.skip
      /\ pending'.sat = pending.sat /\ pending'.shares = pending.shares
  BY <1>1 DEF Shapes, GiveGenV
<1>4. GenVInv'
  <2>1. session'.gen_v = GenV(call)
    <3>1. CASE call.gen_v = <<>> /\ ~held.gen_v
      BY <3>1 DEF GiveGenV, GenV, RecordsInv, RecordsMatchSession
    <3>2. CASE ~(call.gen_v = <<>> /\ ~held.gen_v)
      BY <1>1, <3>2 DEF GiveGenV, Shapes
    <3>3. QED
      BY <3>1, <3>2
  <2>2. GenV(call)' = GenV(call)
    BY <1>2 DEF GenV, GenOff, OrNothing, Nothing
  <2>3. QED
    BY <2>1, <2>2 DEF GenVInv
<1>5. TopologyInv' /\ GensInv' /\ SkipInv' /\ BatchInv' /\ MasksInv'
  BY <1>2, <1>3 DEF TopologyInv, GensInv, SkipInv, BatchInv, MasksInv, Prepared, Gave
<1>6. SharesInv' /\ SatInv'
  BY <1>2, <1>3, SameShares DEF SharesInv, SatInv, Prepared, Gave
<1>7. QED
  BY <1>1, <1>4, <1>5, <1>6

LEMMA CallGiveSaturation ==
  ASSUME CallInv, GiveSaturation
  PROVE  CallInv'
<1>. USE DEF CallInv
<1>1. RecordsInv' /\ Shapes
  BY RecordsGive DEF RecordsInv
<1>2. /\ pc = "giveSat" /\ pc' = "run" /\ call' = call
      /\ redistribute' = redistribute /\ lastRows' = lastRows /\ rdMasks' = rdMasks
  BY DEF GiveSaturation
<1>3. /\ session'.sbus = session.sbus /\ session'.topology = session.topology /\ session'.gens = session.gens
      /\ session'.skip = session.skip /\ session'.gen_v = session.gen_v /\ session'.batch = session.batch
      /\ pending'.topology = pending.topology /\ pending'.gens = pending.gens /\ pending'.skip = pending.skip
      /\ pending'.shares = pending.shares
  BY <1>1 DEF Shapes, GiveSaturation
<1>4. SatInv'
  <2>1. redistribute => session'.sat = OwnSaturation
    BY <1>1, <1>2 DEF GiveSaturation, Shapes, SatInv, Prepared, Gave
  <2>2. QED
    BY <1>2, <2>1, SameShares DEF SatInv, Gave
<1>5. TopologyInv' /\ GensInv' /\ SkipInv' /\ GenVInv' /\ BatchInv' /\ MasksInv'
  BY <1>2, <1>3 DEF TopologyInv, GensInv, SkipInv, GenVInv, BatchInv, MasksInv, Prepared, Gave
<1>6. SharesInv'
  BY <1>2, <1>3, SameShares DEF SharesInv, Prepared, Gave
<1>7. QED
  BY <1>1, <1>4, <1>5, <1>6

LEMMA CallAround ==
  ASSUME CallInv,
         \/ \E on \in BOOLEAN : SetRedistributeSlack(on)
         \/ \E c \in Calls : Call(c)
         \/ Run \/ Raise \/ UNCHANGED vars
  PROVE  CallInv'
<1>. USE DEF CallInv
<1>1. RecordsInv' /\ Shapes
  BY RecordsAround DEF RecordsInv
<1>2. ASSUME pc' = "idle", session' = session, lastRows' = lastRows, rdMasks' = rdMasks,
             pending'.shares = <<>>
      PROVE  CallInv'
  BY <1>1, <1>2 DEF TopologyInv, GensInv, SkipInv, GenVInv, BatchInv, SharesInv, SatInv, MasksInv,
                    Prepared, Gave
<1>3. ASSUME NEW on \in BOOLEAN, SetRedistributeSlack(on) PROVE CallInv'
  <2>1. pending'.shares = <<>>
    BY <1>1, <1>3 DEF SetRedistributeSlack, Shapes, SharesInv, Resting
  <2>2. QED
    BY <1>2, <1>3, <2>1 DEF SetRedistributeSlack
<1>4. CASE Raise
  <2>1. pending'.shares = <<>>
    BY <1>1, <1>4 DEF Raise, Shapes
  <2>2. QED
    BY <1>2, <1>4, <2>1 DEF Raise
<1>5. ASSUME NEW c \in Calls, Call(c) PROVE CallInv'
  <2>1. pc' = "topology" /\ pending.shares = <<>>
    BY <1>5 DEF Call, SharesInv, Resting
  <2>2. TopologyInv' /\ GensInv' /\ SkipInv' /\ GenVInv' /\ SatInv'
    BY <2>1 DEF TopologyInv, GensInv, SkipInv, GenVInv, SatInv, Prepared, Gave
  <2>3. BatchInv' /\ SharesInv' /\ MasksInv'
    BY <1>5, <2>1 DEF Call, BatchInv, SharesInv, MasksInv, Prepared, Gave
  <2>4. QED
    BY <1>1, <2>2, <2>3
<1>6. CASE Run
  <2>1. /\ pc = "run" /\ pc' = "returned" /\ call' = call /\ redistribute' = redistribute
        /\ session' = session /\ pending' = pending /\ lastRows' = lastRows /\ rdMasks' = rdMasks
    BY <1>6 DEF Run
  <2>2. TopologyInv' /\ GensInv' /\ SkipInv' /\ GenVInv' /\ BatchInv' /\ MasksInv'
    BY <2>1 DEF TopologyInv, GensInv, SkipInv, GenVInv, BatchInv, MasksInv, Prepared, Gave
  <2>3. SharesInv' /\ SatInv'
    BY <2>1, SameShares DEF SharesInv, SatInv, Prepared, Gave
  <2>4. QED
    BY <1>1, <2>2, <2>3
<1>7. CASE UNCHANGED vars
  <2>1. /\ pc' = pc /\ call' = call /\ redistribute' = redistribute
        /\ session' = session /\ pending' = pending /\ lastRows' = lastRows /\ rdMasks' = rdMasks
    BY <1>7 DEF vars
  <2>2. TopologyInv' /\ GensInv' /\ SkipInv' /\ GenVInv' /\ BatchInv' /\ MasksInv'
    BY <2>1 DEF TopologyInv, GensInv, SkipInv, GenVInv, BatchInv, MasksInv, Prepared, Gave
  <2>3. SharesInv' /\ SatInv'
    BY <2>1, SameShares DEF SharesInv, SatInv, Prepared, Gave
  <2>4. QED
    BY <1>1, <2>2, <2>3
<1>8. QED
  BY <1>3, <1>4, <1>5, <1>6, <1>7

LEMMA CallInductive == CallInv /\ [Next]_vars => CallInv'
  BY CallTopology, CallGens, CallConflicts, CallSlack, CallGiveInjections, CallGiveTopology,
     CallGiveSkip, CallGiveGens, CallGiveGenV, CallGiveSaturation, CallAround DEF Next

(* One flag per row of the set-points; none without set-points.            *)
LEMMA ConflictsFit ==
  ASSUME NEW c \in Calls
  PROVE  /\ c.gen_v = <<>> => SkipAsked(c) = <<>>
         /\ c.gen_v # <<>> =>
              /\ Conflicts(GenV(c)) \in [1..c.n -> BOOLEAN]
              /\ Conflicts(GenV(c)) # <<>> /\ Len(Conflicts(GenV(c))) = c.n
         /\ Fits(SkipAsked(c), c.n)
<1>1. DOMAIN Conflicts(GenV(c)) = DOMAIN GenV(c)
  BY DEF Conflicts
<1>2. CASE c.gen_v = <<>>
  <2>1. DOMAIN GenV(c) = {}
    BY <1>2 DEF GenV
  <2>2. SkipAsked(c) = <<>>
    BY <1>1, <2>1 DEF SkipAsked
  <2>3. QED
    BY <1>2, <2>2 DEF Fits
<1>3. CASE c.gen_v # <<>>
  <2>1. c.n \in Nat \ {0} /\ DOMAIN GenV(c) = 1..c.n
    BY <1>3, ArgumentsFit, GenVFits DEF Fits
  <2>2. Conflicts(GenV(c)) \in [1..c.n -> BOOLEAN]
    BY <2>1 DEF Conflicts
  <2>3. Conflicts(GenV(c)) # <<>> /\ Len(Conflicts(GenV(c))) = c.n
        /\ DOMAIN Conflicts(GenV(c)) = 1..c.n
    BY <2>1, <2>2, ArrayLen
  <2>4. Fits(SkipAsked(c), c.n)
    BY <2>3 DEF SkipAsked, Fits
  <2>5. QED
    BY <1>3, <2>2, <2>3, <2>4
<1>4. QED
  BY <1>2, <1>3

(* "So the same inputs always give the same answer whatever the previous   *)
(* call was": a call that returns was solved with its own inputs, after    *)
(* any sequence of calls and exceptions, for every number of rows.         *)
THEOREM AnswersCorrect == Spec => []AnswerIsOfThisCall
<1>1. ASSUME CallInv PROVE AnswerIsOfThisCall
  <2>. USE <1>1 DEF CallInv
  <2>. SUFFICES ASSUME pc = "returned"
       PROVE  /\ session.sbus = Injections(call, IF redistribute THEN OwnSaturation ELSE <<>>)
              /\ OrNothing(session.topology, call.n) = OrNothing(call.status, call.n)
              /\ OrNothing(session.gens, call.n) = GenOff(call)
              /\ session.gen_v = GenV(call)
              /\ \A r \in 1..call.n : Dropped[r] <=> (call.gen_v # <<>> /\ Conflicts(GenV(call))[r])
              /\ redistribute => session.sat = OwnSaturation
              /\ session.batch = call.n
    BY DEF AnswerIsOfThisCall
  <2>1. call \in Calls
    BY DEF RecordsInv, Shapes
  <2>2. session.sbus = Injections(call, SharesAsked) /\ (redistribute => session.sat = OwnSaturation)
    BY DEF SharesInv, SatInv, Prepared, Gave
  <2>3. /\ OrNothing(session.topology, call.n) = OrNothing(call.status, call.n)
        /\ OrNothing(session.gens, call.n) = GenOff(call)
    BY DEF TopologyInv, GensInv, Prepared, Gave, WillHold, Asked, GenOff
  <2>4. session.gen_v = GenV(call) /\ session.batch = call.n /\ session.skip = SkipAsked(call)
    BY DEF GenVInv, BatchInv, SkipInv, Prepared, Gave
  <2>5. ASSUME NEW r \in 1..call.n
        PROVE  Dropped[r] <=> (call.gen_v # <<>> /\ Conflicts(GenV(call))[r])
    <3>1. Dropped[r] = (session.skip # <<>> /\ session.skip[r])
      BY DEF Dropped
    <3>2. CASE call.gen_v = <<>>
      BY <2>1, <2>4, <3>1, <3>2, ConflictsFit
    <3>3. CASE call.gen_v # <<>>
      <4>. DEFINE bad == Conflicts(GenV(call))
      <4>1. bad \in [1..call.n -> BOOLEAN] /\ bad # <<>>
        BY <2>1, <3>3, ConflictsFit
      <4>2. session.skip = IF \E q \in DOMAIN bad : bad[q] THEN bad ELSE <<>>
        BY <2>4 DEF SkipAsked
      <4>. HIDE DEF bad
      <4>3. Dropped[r] <=> bad[r]
        BY <3>1, <4>1, <4>2
      <4>4. QED
        BY <3>3, <4>3 DEF bad
    <3>4. QED
      BY <3>2, <3>3
  <2>6. QED
    BY <2>2, <2>3, <2>4, <2>5 DEF SharesAsked
<1>2. QED
  BY <1>1, CallInit, CallInductive, PTL DEF Spec

(* No sequence of calls of other row counts, cut short by exceptions, makes *)
(* run() refuse a call for the rows of an array it was given.              *)
THEOREM NeverRefusedCorrect == Spec => []NeverRefusedForRows
<1>1. ASSUME CallInv PROVE NeverRefusedForRows
  <2>. USE <1>1 DEF CallInv
  <2>. SUFFICES ASSUME pc = "run"
       PROVE  /\ ~Mismatch(session.topology) /\ ~Mismatch(session.gens)
              /\ ~Mismatch(session.skip) /\ ~Mismatch(session.gen_v)
              /\ redistribute => ~Mismatch(session.sat)
    BY DEF NeverRefusedForRows
  <2>1. call \in Calls /\ call.n \in Nat \ {0}
    BY ArgumentsFit DEF RecordsInv, Shapes, Resting
  <2>2. ASSUME NEW f, DOMAIN f = 1..call.n, f = [r \in 1..call.n |-> f[r]] PROVE Len(f) = call.n
    <3>1. f \in [1..call.n -> {f[r] : r \in 1..call.n}]
      BY <2>2
    <3>2. QED
      BY <2>1, <3>1, ArrayLen
  <2>3. Len(session.sbus) = call.n
    <3>. DEFINE sbus == Injections(call, SharesAsked)
    <3>1. DOMAIN sbus = 1..call.n /\ sbus = [r \in 1..call.n |-> sbus[r]]
      BY DEF Injections
    <3>2. session.sbus = sbus
      BY DEF SharesInv, Gave
    <3>. HIDE DEF sbus
    <3>3. QED
      BY <2>2, <3>1, <3>2
  <2>4. ASSUME NEW array, Fits(array, call.n) PROVE ~Mismatch(array)
    BY <2>3, <2>4 DEF Mismatch, Fits
  <2>5. Fits(session.topology, call.n) /\ Fits(session.gens, call.n)
    BY DEF TopologyInv, GensInv, Prepared, Gave, WillHold, Asked
  <2>6. Fits(session.skip, call.n) /\ Fits(session.gen_v, call.n)
    BY <2>1, ConflictsFit, GenVFits DEF SkipInv, GenVInv, Gave
  <2>7. redistribute => Len(session.sat) = call.n
    <3>1. DOMAIN OwnSaturation = 1..call.n /\ OwnSaturation = [r \in 1..call.n |-> OwnSaturation[r]]
      BY DEF OwnSaturation, Saturated
    <3>2. Len(OwnSaturation) = call.n
      BY <2>2, <3>1
    <3>3. QED
      BY <3>2 DEF SatInv, Gave
  <2>8. QED
    BY <2>3, <2>4, <2>5, <2>6, <2>7 DEF Mismatch
<1>2. QED
  BY <1>1, CallInit, CallInductive, PTL DEF Spec
=============================================================================
