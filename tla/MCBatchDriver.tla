--------------------------- MODULE MCBatchDriver ---------------------------
(* A small instance of BatchDriver.  What the caller does is chosen at the *)
(* start of a behaviour: sweeps in batches of any size and any rows, with  *)
(* no autograd context, or the differentiable wrapper's, with room for the *)
(* whole batch and up to MaxContexts forwards alive.                       *)
EXTENDS BatchDriver

VARIABLE use        \* "sweep" or "gradient", constant within a behaviour
mcVars == <<vars, use>>

LargestBatch == CHOOSE b \in BatchSizes : \A c \in BatchSizes : c <= b
SomeKept == {Row, Row \ {1}, {}}

Retopologize == \E A \in SUBSET Row :
    (use = "gradient" => A \in SomeKept) /\ Stage(A)
Reconfigure ==
    \/ \E b \in BatchSizes : (use = "gradient" => b = LargestBatch) /\ SetBatchSize(b)
    \/ \E v \in BOOLEAN : SetFixedBatchCapacity(v) \/ SetKeepFinalJacobian(v)

SweepInit == Init /\ use \in {"sweep", "gradient"}
                  /\ (use = "gradient" => batchSize = LargestBatch)

RunSteps ==
    \/ RunCold \/ RunWarm \/ RunWarmRebuilds \/ RunHot
    \/ RunRefused \/ RunFailsToBuild \/ RunFailsInNewSource \/ RunFails
    \/ SolveRefused \/ SolveBegins \/ SolveChunk \/ SolveChunkFails \/ SolveEnds \/ RunLeaves
GradientSteps ==
    \/ \E snapshot \in BOOLEAN : ForwardReturns(snapshot)
    \/ \E c \in contexts : Forget(c) \/ Backward(c) \/ BackwardFails(c)

MCNext ==
    /\ Retopologize \/ Reconfigure \/ RunSteps \/ (use = "gradient" /\ GradientSteps)
    /\ UNCHANGED use

MCSpec == SweepInit /\ [][MCNext]_mcVars
=============================================================================
