----------------------------- MODULE Algorithms -----------------------------
(***************************************************************************)
(* The sequential programs, one at a time: they share nothing but the run  *)
(* that checks them.                                                       *)
(***************************************************************************)
EXTENDS Histogram, AscendingSum, Trees

VARIABLE program

algorithmVars == <<program, measurements, seq, treeVars>>

InitAlgorithms ==
  /\ program \in {"Histogram", "AscendingSum", "Trees"}
  /\ HistogramInit /\ AscendingSumInit /\ TreesInit

NextAlgorithms ==
  /\ \/ program = "Histogram" /\ HistogramNext /\ UNCHANGED <<seq, treeVars>>
     \/ program = "AscendingSum" /\ AscendingSumNext /\ UNCHANGED <<measurements, treeVars>>
     \/ program = "Trees" /\ TreesNext /\ UNCHANGED <<measurements, seq>>
  /\ UNCHANGED program

SpecAlgorithms == InitAlgorithms /\ [][NextAlgorithms]_algorithmVars
=============================================================================
