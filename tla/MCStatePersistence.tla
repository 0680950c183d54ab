------------------------- MODULE MCStatePersistence -------------------------
(* Instances of StatePersistence for TLC: the bounds are in the .cfg files. *)
EXTENDS StatePersistence
=============================================================================
