-------------------------- MODULE SinglePowerFlow --------------------------
(***************************************************************************)
(* One AC power flow on the device: AcPfNrSession (acpf_nr.cu), its facade  *)
(* AcPfGPU (acpf_nr/gpu_facade.py) and the autograd operation over it       *)
(* (differentiable/_power_flow_op.py).  A session keeps the voltage the     *)
(* Newton loop works on, the injections, the running state of the slack and *)
(* voltage controllers, a copy of the solution and of its Jacobian, and,    *)
(* from the first adjoint solve on, the factors of the transposed Jacobian. *)
(* resolve() runs the loop again on the same buffers, and may raise half    *)
(* way.                                                                    *)
(*                                                                         *)
(* A voltage is the solve it belongs to, its distance to the solution in    *)
(* Newton steps (0: the mismatch is below tol) and the magnitude it has on  *)
(* the buses without a magnitude unknown.  A Jacobian is that of a voltage. *)
(* Devices, ordering and matching choices, sizes and timings other than     *)
(* the number of iterations are left out.                                   *)
(***************************************************************************)
EXTENDS Integers, FiniteSets

CONSTANTS
  None,
  Empty,        \* the empty array ac_pf returns
  Bus,          \* numbered from 1
  FacadeLayouts, OpLayouts,  \* what each bus is, "slack", "pv" or "pq", in the
                \* behaviours of a facade and of autograd contexts
  HaveBridge,   \* the extension was built with the lightsim2grid bridge
  Injections,    \* values of Sbus
  Magnitude,    \* voltage set-points
  Op,           \* autograd contexts of solve_power_flow
  Budgets,      \* values of max_iter
  MaxFar,       \* Newton steps a start may be away
  MaxSolves     \* solves in a behaviour

ASSUME BudgetsAssumption == Budgets \subseteq Nat
ASSUME BridgeAssumption == HaveBridge \in BOOLEAN
ASSUME FarAssumption == MaxFar \in Nat
ASSUME SolvesAssumption == MaxSolves \in Nat
ASSUME BusAssumption == IsFiniteSet(Bus) /\ Bus \subseteq Nat \ {0}
ASSUME LayoutsAssumption ==
  FacadeLayouts \cup OpLayouts \subseteq [Bus -> {"slack", "pv", "pq"}]

Facade == "AcPfGPU"
Owner == Op \cup {Facade}
Far == 0..MaxFar

VARIABLES
  kind,         \* kind of each bus
  grid,         \* the injections the lightsim2grid grid was last solved for, or None
  session,      \* the AcPfNrSession of each owner, or None
  setPoints,    \* AcPfGPU._vm_fixed, the |V| captured, or None
  busy,         \* owner whose Newton loop runs, or None
  call,         \* the call it runs for: what, max_iter, timings t
  result,       \* what ac_pf returned last: a voltage, Empty or None
  clone,        \* V that forward cloned into each context, or None
  gradient,     \* what backward used in each context, or None
  direct,       \* history: session.resolve() ran before the set-points were read
  solves

vars == <<kind, grid, session, setPoints, busy, call, result,
          clone, gradient, direct, solves>>

-----------------------------------------------------------------------------
(* The layout of the bare system: angles and P rows on sorted(pvpq), then   *)
(* magnitudes and Q rows on pq; 0 where a bus owns none.                    *)
PvPq == {b \in Bus : kind[b] # "slack"}
Pq == {b \in Bus : kind[b] = "pq"}
Position(b, S) == Cardinality({c \in S : c <= b})
DimJ == Cardinality(PvPq) + Cardinality(Pq)
ThetaCol(b) == IF b \in PvPq THEN Position(b, PvPq) ELSE 0
VmColFromZero(b) == IF b \in Pq THEN Position(b, Pq) ELSE 0
VmCol(b) == IF b \in Pq THEN Cardinality(PvPq) + Position(b, Pq) ELSE 0
PRow(b) == ThetaCol(b)
QRow(b) == VmCol(b)

(* backward: which bus and component each entry of x-bar takes, and which   *)
(* entry of lambda each component of the gradient reads.                    *)
Scatter == [c \in 1..DimJ |-> {<<b, "angle">> : b \in {d \in Bus : ThetaCol(d) = c}}
                              \cup {<<b, "magnitude">> : b \in {d \in Bus : VmCol(d) = c}}]
Gather == [b \in Bus |-> [p |-> PRow(b), q |-> QRow(b)]]

-----------------------------------------------------------------------------
NoJ == [solve |-> 0, far |-> MaxFar]     \* values never filled
At(v) == [solve |-> v.solve, far |-> v.far]

(* The running state of slack_absorbed and vc_q restarts from the           *)
(* injections alone; the loop moves it away from there.                     *)
Restart(i) == [of |-> i, moved |-> FALSE]
Moved(e) == [e EXCEPT !.moved = TRUE]

(* A state whose voltage and injections are uploaded and nothing solved.    *)
Fresh(v, i, budget) ==
  [volt |-> v, sbus |-> i, absorbed0 |-> i, ext |-> Restart(i), jac |-> NoJ,
   voltBase |-> v, jacBase |-> NoJ, seeds |-> v.mag, maxIter |-> budget,
   analyzed |-> FALSE, factored |-> FALSE, factors |-> NoJ,
   timings |-> [solve |-> 0, iters |-> 0, converged |-> FALSE], torn |-> FALSE]

Start(f, m) == [solve |-> solves + 1, far |-> f, mag |-> m]
Idle == busy = None
CallOf(w, budget) == [what |-> w, budget |-> budget, iters |-> 0, converged |-> FALSE]
NoCall == CallOf("none", 0)

Init ==
  /\ kind \in FacadeLayouts \cup OpLayouts
  /\ grid = None
  /\ session = [o \in Owner |-> None]
  /\ setPoints = None /\ busy = None /\ call = NoCall /\ result = None
  /\ clone = [c \in Op |-> None] /\ gradient = [c \in Op |-> None]
  /\ direct = FALSE /\ solves = 0

(* The owner of the grid gives it injections and solves it.                 *)
SolveGrid ==
  /\ Idle /\ grid' \in Injections
  /\ UNCHANGED <<kind, session, setPoints, busy, call, result, clone,
                 gradient, direct, solves>>

-----------------------------------------------------------------------------
(* The constructor's two ways.  With presolved_v the voltage is kept, the   *)
(* controllers are seeded and the mismatch is checked once: the Jacobian is *)
(* the one at that voltage.  Otherwise the Newton loop starts.  (A bare     *)
(* session may be asked to stop before that check, to debug it,             *)
(* diag_stop_before_state_correction: no facade and no engine asks.)        *)
Presolved(s) ==
  [s EXCEPT !.ext = Moved(@), !.jac = At(s.volt), !.jacBase = At(s.volt),
            !.timings = [solve |-> s.volt.solve, iters |-> 0, converged |-> TRUE]]

Construct(o, s, presolved, w) ==
  /\ solves' = solves + 1
  /\ IF presolved
     THEN /\ s.volt.far = 0
          /\ session' = [session EXCEPT ![o] = Presolved(s)]
          /\ UNCHANGED <<busy, call>>
     ELSE /\ session' = [session EXCEPT ![o] = s]
          /\ busy' = o /\ call' = CallOf(w, s.maxIter)

NewFacade(s, presolved) ==
  /\ Idle /\ solves < MaxSolves /\ kind \in FacadeLayouts
  /\ setPoints' = None /\ direct' = FALSE /\ result' = None
  /\ Construct(Facade, s, presolved, "new")
  /\ UNCHANGED <<kind, clone, gradient>>

(* An explicit array tuple, which excludes use_bridge=True.                 *)
NewFromArrays ==
  /\ \E f \in Far, m \in Magnitude, i \in Injections, n \in Budgets, p \in BOOLEAN :
       NewFacade(Fresh(Start(f, m), i, n), p)
  /\ UNCHANGED grid

(* The bridge reads the last solve of the grid, which must have had one.    *)
(* use_distributed_slack=False poses another system: its voltage may not    *)
(* solve that one.                                                         *)
NewFromBridge ==
  /\ HaveBridge /\ grid # None
  /\ \E distributed \in BOOLEAN, m \in Magnitude, n \in Budgets, p \in BOOLEAN :
       \E f \in IF distributed /\ p THEN {0} ELSE Far :
         NewFacade(Fresh(Start(f, m), grid, n), p)
  /\ UNCHANGED grid

(* Without the bridge extract_grid_arrays() first solves the grid anew, and *)
(* the bare system may not be the one the grid solves.                      *)
EnsureSolved == grid' \in Injections
ExtractGridArrays(f, m, n) == Fresh(Start(f, m), grid', n)

NewFromExtraction ==
  /\ EnsureSolved
  /\ \E f \in Far, m \in Magnitude, n \in Budgets, p \in BOOLEAN :
       NewFacade(ExtractGridArrays(f, m, n), p)

(* PowerFlowFunction.forward makes a session of its own, never presolved.   *)
Forward(c, s) ==
  /\ Idle /\ solves < MaxSolves /\ kind \in OpLayouts
  /\ clone' = [clone EXCEPT ![c] = None] /\ gradient' = [gradient EXCEPT ![c] = None]
  /\ Construct(c, s, FALSE, "forward")
  /\ UNCHANGED <<kind, grid, setPoints, result, direct>>

ForwardBare ==
  \E c \in Op, f \in Far, m \in Magnitude, i \in Injections, n \in Budgets :
    Forward(c, Fresh(Start(f, m), i, n))
ForwardOfGrid ==
  /\ HaveBridge /\ grid # None
  /\ \E c \in Op, f \in Far, m \in Magnitude, i \in Injections, n \in Budgets :
       Forward(c, Fresh(Start(f, m), i, n))

-----------------------------------------------------------------------------
(* AcPfNrState::resolve: what is uploaded before the loop.  Sbus None keeps *)
(* the injections, and the sum the slack restarts from is of the same.      *)
UploadedWithoutSum(s, v, i) ==
  LET inj == IF i = None THEN s.sbus ELSE i
  IN [s EXCEPT !.volt = v, !.sbus = inj, !.ext = Restart(s.absorbed0), !.torn = FALSE]
Uploaded(s, v, i) ==
  LET inj == IF i = None THEN s.sbus ELSE i
      sum == IF i = None THEN s.absorbed0 ELSE i
  IN [s EXCEPT !.volt = v, !.sbus = inj, !.absorbed0 = sum,
               !.ext = Restart(sum), !.torn = FALSE]

(* max_iter None (-1) means the constructor's.                              *)
BudgetOf(s, n) == IF n = None THEN s.maxIter ELSE n

(* What solve() and v_dlpack() hand out, and the timings.                   *)
GetV(o) == session[o].volt
Timings(o) == session[o].timings

(* |V| of the Vm-fixed buses, read once.                                    *)
SetPointsOfNow == GetV(Facade).mag
VmSetPoints == IF setPoints = None THEN GetV(Facade).mag ELSE setPoints

Resolving(v, i, n, w) ==
  /\ Idle /\ session[Facade] # None /\ solves < MaxSolves
  /\ solves' = solves + 1
  /\ session' = [session EXCEPT ![Facade] = Uploaded(@, v, i)]
  /\ busy' = Facade /\ call' = CallOf(w, BudgetOf(session[Facade], n))
  /\ UNCHANGED <<kind, grid, clone, gradient>>

Resolve ==
  /\ \E f \in Far, m \in Magnitude, i \in Injections \cup {None}, n \in Budgets \cup {None} :
       Resolving(Start(f, m), i, n, "resolve")
  /\ setPoints' = VmSetPoints
  /\ UNCHANGED <<result, direct>>

(* Sizes are refused before anything moves, but the set-points were read.   *)
ResolveRefused ==
  /\ Idle /\ session[Facade] # None /\ setPoints = None
  /\ setPoints' = VmSetPoints
  /\ UNCHANGED <<kind, grid, session, busy, call, result, clone,
                 gradient, direct, solves>>

(* ac_pf writes the set-points into the start, whatever |V| it has.         *)
AcPf ==
  /\ \E f \in Far, n \in Budgets : Resolving(Start(f, VmSetPoints), None, n, "ac_pf")
  /\ setPoints' = VmSetPoints /\ result' = None
  /\ UNCHANGED direct

(* AcPfGPU.session.resolve(), the escape hatch, reads no set-point.         *)
SessionResolve ==
  /\ \E f \in Far, m \in Magnitude, i \in Injections \cup {None} :
       Resolving(Start(f, m), i, None, "resolve")
  /\ direct' = (direct \/ setPoints = None)
  /\ UNCHANGED <<setPoints, result>>

-----------------------------------------------------------------------------
(* The Newton loop (run_single_system_nr).  A step takes the mismatch and   *)
(* the Jacobian at the voltage it finds, factorizes, and moves the voltage; *)
(* the test that follows is on that mismatch, of the voltage before.        *)
MismatchBelowTol(before, after) == before.far = 0

Stepped(s, far) ==
  [s EXCEPT !.volt.far = far, !.jac = At(s.volt), !.ext = Moved(@)]

MayStep(c) == ~c.converged /\ c.iters < c.budget

CountedAnew(c, converged) ==      \* a loop that starts over until it converges
  [c EXCEPT !.iters = IF converged THEN @ + 1 ELSE (@ + 1) % c.budget, !.converged = converged]
Counted(c, converged) == [c EXCEPT !.iters = @ + 1, !.converged = converged]

NrStep(o) ==
  /\ busy = o /\ MayStep(call)
  /\ LET s == session[o] IN
     \E f \in IF s.volt.far = 0 THEN {0} ELSE Far :
       /\ session' = [session EXCEPT ![o] = Stepped(s, f)]
       /\ call' = Counted(call, MismatchBelowTol(s.volt, [s.volt EXCEPT !.far = f]))
  /\ UNCHANGED <<kind, grid, setPoints, busy, result, clone, gradient,
                 direct, solves>>

(* The factorization or the solve raises: a session under construction is   *)
(* gone, one that resolves keeps its copies and what was uploaded.          *)
NrRaises(o) ==
  /\ busy = o /\ MayStep(call)
  /\ session' = [session EXCEPT ![o] =
       IF call.what \in {"new", "forward"} THEN None
       ELSE [session[o] EXCEPT !.jac = At(session[o].volt), !.torn = TRUE]]
  /\ busy' = None /\ call' = NoCall
  /\ UNCHANGED <<kind, grid, setPoints, result, clone, gradient, direct, solves>>

(* The loop is over: the copies are taken, the factors of the adjoint are   *)
(* out of date, the timings become those of this solve, the call returns.   *)
SolvedKeepingFactors(s) ==
  [s EXCEPT !.voltBase = s.volt, !.jacBase = s.jac,
            !.timings = [solve |-> s.volt.solve, iters |-> call.iters,
                         converged |-> call.converged]]
Solved(s) ==
  [s EXCEPT !.voltBase = s.volt, !.jacBase = s.jac, !.factored = FALSE,
            !.timings = [solve |-> s.volt.solve, iters |-> call.iters,
                         converged |-> call.converged]]

NrEnds(o) ==
  /\ busy = o /\ (call.converged \/ call.iters = call.budget)
  /\ session' = [session EXCEPT ![o] = Solved(@)]
  /\ busy' = None /\ call' = NoCall
  /\ result' = IF call.what # "ac_pf" THEN result
               ELSE IF call.converged THEN GetV(o) ELSE Empty
  /\ clone' = IF call.what = "forward" THEN [clone EXCEPT ![o] = GetV(o)] ELSE clone
  /\ UNCHANGED <<kind, grid, setPoints, gradient, direct, solves>>

-----------------------------------------------------------------------------
(* AcPfNrState::ensure_JT, then the solve.  The structure is analyzed once; *)
(* the factors are made anew after a solve.                                 *)
EnsuredJT(s) ==
  IF s.factored THEN s
  ELSE [s EXCEPT !.analyzed = TRUE, !.factored = TRUE, !.factors = s.jacBase]

SolveJT ==
  /\ Idle /\ session[Facade] # None
  /\ session' = [session EXCEPT ![Facade] = EnsuredJT(@)]
  /\ UNCHANGED <<kind, grid, setPoints, busy, call, result, clone,
                 gradient, direct, solves>>

(* The analysis or the factorization raises.                                *)
SolveJTRaises ==
  /\ Idle
  /\ \E o \in Owner, a \in BOOLEAN :
       /\ session[o] # None /\ ~session[o].factored
       /\ session' = [session EXCEPT ![o].analyzed = @ \/ a, ![o].factors = NoJ]
  /\ UNCHANGED <<kind, grid, setPoints, busy, call, result, clone,
                 gradient, direct, solves>>

(* PowerFlowFunction.backward: x-bar from the clone, lambda from the        *)
(* session's factors.                                                       *)
Backward ==
  /\ Idle
  /\ \E c \in Op :
       /\ clone[c] # None
       /\ session' = [session EXCEPT ![c] = EnsuredJT(@)]
       /\ gradient' = [gradient EXCEPT ![c] =
            [at |-> clone[c], of |-> session'[c].factors]]
  /\ UNCHANGED <<kind, grid, setPoints, busy, call, result, clone,
                 direct, solves>>

Steps(o) == NrStep(o) \/ NrRaises(o) \/ NrEnds(o)

Next ==
  \/ SolveGrid \/ NewFromArrays \/ NewFromBridge \/ NewFromExtraction
  \/ ForwardBare \/ ForwardOfGrid
  \/ Resolve \/ ResolveRefused \/ AcPf \/ SessionResolve
  \/ (\E o \in Owner : NrStep(o)) \/ (\E o \in Owner : NrRaises(o)) \/ (\E o \in Owner : NrEnds(o))
  \/ SolveJT \/ SolveJTRaises \/ Backward

(* A caller never has to call; a loop that was entered runs on.             *)
Spec == Init /\ [][Next]_vars /\ \A o \in Owner : WF_vars(Steps(o))

-----------------------------------------------------------------------------
Voltage == [solve : 0..MaxSolves, far : Far, mag : Magnitude]
Jacobian == [solve : 0..MaxSolves, far : Far]
Session ==
  [volt : Voltage, sbus : Injections, absorbed0 : Injections,
   ext : [of : Injections, moved : BOOLEAN], jac : Jacobian,
   voltBase : Voltage, jacBase : Jacobian, seeds : Magnitude, maxIter : Budgets,
   analyzed : BOOLEAN, factored : BOOLEAN, factors : Jacobian,
   timings : [solve : 0..MaxSolves, iters : Nat, converged : BOOLEAN], torn : BOOLEAN]

TypeOK ==
  /\ kind \in [Bus -> {"slack", "pv", "pq"}]
  /\ grid \in Injections \cup {None}
  /\ session \in [Owner -> Session \cup {None}]
  /\ setPoints \in Magnitude \cup {None}
  /\ busy \in Owner \cup {None}
  /\ busy # None => session[busy] # None
  /\ call \in [what : {"none", "new", "forward", "resolve", "ac_pf"},
               budget : Nat, iters : Nat, converged : BOOLEAN]
  /\ call.iters <= call.budget
  /\ result \in Voltage \cup {None, Empty}
  /\ clone \in [Op -> Voltage \cup {None}]
  /\ gradient \in [Op -> [at : Voltage, of : Jacobian] \cup {None}]
  /\ direct \in BOOLEAN /\ solves \in 0..MaxSolves

ASSUME NoneAssumption ==
  /\ None \notin Injections \cup Magnitude \cup Budgets \cup Voltage \cup Session
  /\ None \notin Owner \cup [at : Voltage, of : Jacobian]
  /\ Empty \notin Voltage \cup {None}
ASSUME OwnersAssumption == Facade \notin Op

(* The voltage copied, the Jacobian copied, the timings and the factors of  *)
(* the adjoint are of one solve, whatever calls raised in between; the      *)
(* adjoint is of a solution whenever the timings say converged; and the     *)
(* voltage handed out is the one copied unless a resolve() raised.          *)
AdjointOfTheSolution ==
  \A o \in Owner : session[o] # None =>
    LET s == session[o] IN
    /\ s.factored => s.analyzed /\ s.factors = s.jacBase
    /\ s.timings.iters > 0 => s.jacBase.solve = s.timings.solve
    /\ s.timings.converged => /\ s.jacBase = [solve |-> s.timings.solve, far |-> 0]
                              /\ s.voltBase.solve = s.timings.solve /\ s.voltBase.far = 0
    /\ busy # o /\ ~s.torn => s.volt = s.voltBase

(* resolve() gives what a fresh session on the same inputs gives: a loop    *)
(* starts from its voltage, its injections and the state the controllers    *)
(* have for those injections, after any calls, failed ones included.        *)
LoopStartsFresh ==
  \A o \in Owner : busy = o /\ call.iters = 0 =>
    /\ session[o].ext = Restart(session[o].sbus)
    /\ session[o].volt.solve = solves

(* ac_pf lands on the construction's set-points, after any resolve() from   *)
(* other magnitudes, unless the session was resolved behind the facade      *)
(* before they were read; and what it returns is a solution.                *)
AcPfKeepsSetPoints ==
  result \notin {None, Empty} =>
    /\ result.far = 0
    /\ direct \/ result.mag = session[Facade].seeds

(* Each entry of x-bar is of one bus and component, each entry of lambda is *)
(* read once and only by a bus that owns the row; and the factors are those *)
(* of the forward whose voltage was cloned.                                 *)
GradientOfItsForward ==
  \A c \in Op : gradient[c] # None =>
    LET g == gradient[c]
        rows == [b \in Bus |-> {Gather[b].p, Gather[b].q} \ {0}]
    IN /\ \A i \in DOMAIN Scatter : Cardinality(Scatter[i]) = 1
       /\ UNION {rows[b] : b \in Bus} = DOMAIN Scatter
       /\ \A a, b \in Bus : a # b => rows[a] \cap rows[b] = {}
       /\ \A b \in Bus : Cardinality(rows[b]) =
            (CASE kind[b] = "slack" -> 0 [] kind[b] = "pv" -> 1 [] OTHER -> 2)
       /\ session[c].timings.iters > 0 => g.of.solve = g.at.solve

(* A call that entered the Newton loop returns or raises: the loop counts   *)
(* its steps and stops at max_iter, whatever the voltages do.               *)
EverySolveReturns == \A o \in Owner : busy = o ~> busy = None

(* "t.converged is accurate whether the loop exited via break or by         *)
(* exhausting max_iter" (run_single_system_nr): of the voltage handed out.  *)
ConvergedIsAccurate ==
  \A o \in Owner :
    session[o] # None /\ busy # o /\ ~session[o].torn /\ Timings(o).iters > 0
      => (Timings(o).converged <=> GetV(o).far = 0)

-----------------------------------------------------------------------------
(* What makes those four inductive.  The slack's sum is always of the       *)
(* injections it goes with, the copies are of the solve of the timings, and *)
(* the factors of the adjoint of the copies.                                *)
SessionsInv ==
  \A o \in Owner : session[o] # None =>
    LET s == session[o] IN
    /\ s.absorbed0 = s.sbus
    /\ s.timings.iters > 0 => s.voltBase.solve = s.timings.solve

(* A loop runs for its own solve; once it counted a step, the Jacobian is   *)
(* of that solve, and once it converged, of the solution.                   *)
LoopInv ==
  \A o \in Owner : busy = o =>
    LET s == session[o] IN
    /\ s.volt.solve = solves
    /\ call.iters > 0 => s.jac.solve = solves
    /\ call.converged => s.jac.far = 0 /\ s.volt.far = 0 /\ call.iters > 0
    /\ call.what # "none" /\ (call.what = "forward" <=> o # Facade)

(* The set-points are the seeds until the session is resolved behind the    *)
(* facade, read or not; and ac_pf runs on them.                             *)
SetPointsInv ==
  /\ session[Facade] # None /\ ~direct =>
       session[Facade].seeds = VmSetPoints
  /\ busy = Facade /\ call.what = "ac_pf" => setPoints = session[Facade].volt.mag
  /\ busy = Facade /\ call.what = "new" => result = None
  /\ result \notin {None, Empty} => session[Facade] # None

(* A context that returned keeps the session of its only solve.             *)
ContextsInv ==
  \A c \in Op :
    /\ clone[c] # None => busy # c /\ session[c] # None /\ clone[c] = session[c].voltBase
    /\ gradient[c] # None => /\ clone[c] # None /\ gradient[c].at = clone[c]
                             /\ session[c].timings.iters > 0 => gradient[c].of.solve = clone[c].solve

=============================================================================
