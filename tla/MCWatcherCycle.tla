-------------------------- MODULE MCWatcherCycle ---------------------------
(* Slots and comments are interchangeable: no action tells them apart.     *)
EXTENDS WatcherCycle, TLC

Symmetry == Permutations(Process) \union Permutations(Slot)
=============================================================================
