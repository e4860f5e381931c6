------------------------ MODULE MCContingencyAnalysis ------------------------
(* Small instances of ContingencyAnalysis: a contingency that only loads     *)
(* others, one that splits the grid, one that cuts the reference off, one    *)
(* that diverges; two lists of two rows and one of one.                      *)
EXTENDS ContingencyEngine, Integers, Sequences

CONSTANTS a, split, strand, div

MCLists == {<<a, split>>, <<strand, a>>, <<div>>}
MCSnMva == [x \in Data \cup RdData |-> IF x = "d2" THEN 1 ELSE 100]
(* Ties, more than one capacity keeps, and the most severe last.             *)
Loads == [t \in {"current", "low_voltage", "high_voltage"} |->
            CASE t = "current" -> <<1, 2, 2>> [] t = "low_voltage" -> <<3>> [] OTHER -> <<>>]
Light == [Loads EXCEPT !["current"] = <<>>, !["high_voltage"] = <<1, 1>>]
MCFound == [c \in {a, split, strand, div} |->
  [l \in Limits |-> IF c = a /\ l = "l1" THEN Loads ELSE IF c = strand THEN Loads ELSE Light]]
=============================================================================
