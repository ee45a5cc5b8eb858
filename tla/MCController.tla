---------------------------- MODULE MCController ----------------------------
(* Small instances of the membership protocol for TLC. *)
EXTENDS Controller
=============================================================================
