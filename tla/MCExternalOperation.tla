------------------------ MODULE MCExternalOperation -------------------------
(***************************************************************************)
(* Instances of ExternalOperation for TLC.  Processes and slots are model  *)
(* values that no definition tells apart: symmetric in the safety runs.    *)
(***************************************************************************)
EXTENDS ExternalOperation, TLC

Symmetry == Permutations(Process) \union Permutations(Slot)
=============================================================================
