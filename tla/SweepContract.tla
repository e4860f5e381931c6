--------------------------- MODULE SweepContract ---------------------------
(***************************************************************************)
(* What a caller of ScenarioSweepSession relies on, without the driver,    *)
(* the dirty flags and the three paths of run(): the inputs staged last    *)
(* are the ones a run() that returns has solved, whatever was staged,      *)
(* refused or solved before.                                               *)
(***************************************************************************)
CONSTANTS None, Requests   \* a request: one value of every staged input

VARIABLES
    asked,      \* the request staged so far
    exact,      \* FALSE while a refused set_topology() has torn the trip lists
    answer      \* the request the returning run() has solved, or None

Init ==
    /\ asked \in Requests
    /\ exact = TRUE
    /\ answer = None

(* Any setter.  Inputs cannot change under a returning run().              *)
Stage ==
    /\ answer = None
    /\ asked' \in Requests
    /\ exact' \in BOOLEAN
    /\ answer' = None

Solve ==
    /\ answer = None
    /\ answer' \in Requests
    /\ exact => answer' = asked
    /\ UNCHANGED <<asked, exact>>

Return ==
    /\ answer # None
    /\ answer' = None
    /\ UNCHANGED <<asked, exact>>

Next == Stage \/ Solve \/ Return

Spec == Init /\ [][Next]_<<asked, exact, answer>>
=============================================================================
