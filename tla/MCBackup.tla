------------------------------ MODULE MCBackup ------------------------------
(***************************************************************************)
(* Instances of Backup for TLC.  UpdateSketch changes one element of each  *)
(* operator per item (Updates = 1); the merger changes many.               *)
(***************************************************************************)
EXTENDS Backup, TLC

\* Threads are interchangeable.
Symmetry == Permutations(Threads)
=============================================================================
