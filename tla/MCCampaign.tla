------------------------------ MODULE MCCampaign ------------------------------
(* Model-checking instance of Campaign, whose tasks and processes are             *)
(* interchangeable, and of Materialize.  The two have no state in common: one only *)
(* moves while the other has not begun.                                           *)
EXTENDS Campaign, Materialize, TLC

Symmetry == Permutations(Task) \cup Permutations(Proc)

NoFilesYet == FilesInit /\ workload = "apps" /\ ~wipe /\ dest = "absent"

PreparationInit == Init /\ FilesInit
PreparationNext ==
  \/ Next /\ NoFilesYet /\ UNCHANGED filesVars
  \/ FilesNext /\ Init /\ UNCHANGED vars
PreparationSpec == PreparationInit /\ [][PreparationNext]_<<vars, filesVars>>
===============================================================================
