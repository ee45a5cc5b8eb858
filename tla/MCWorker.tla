------------------------------ MODULE MCWorker ------------------------------
(***************************************************************************)
(* Instances of Worker for TLC.  One slot per writer, so that emitting      *)
(* blocks until the down thread has sent the previous item.                *)
(***************************************************************************)
EXTENDS Worker
=============================================================================
