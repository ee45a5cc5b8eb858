------------------------------- MODULE MCMesh -------------------------------
(***************************************************************************)
(* The reverse path twice: the slot mesh by itself (Mesh), and the up      *)
(* threads that end a round with answers taken from it (Rounds).  They     *)
(* share no state; a behaviour exercises the one that `part' names.        *)
(***************************************************************************)
EXTENDS Mesh, Rounds

VARIABLE part

MCMaxEmits == <<4, 1>>

\* Uninitialised memory: zero, or a count that makes Clean wait for the one slot
\* that nobody publishes.
MCGarbage == <<{-1, 0}, {0}>>

\* The part that is not exercised starts in one of its initial states.
ReverseStart ==
  /\ part \in {"mesh", "rounds"}
  /\ MeshStart
  /\ part # "mesh" => num_in_ = 1 /\ clean_cnt[1] = 1
  /\ RoundsStart
  /\ part # "rounds" => ~up.batches /\ num_records = 0 /\ \A b \in BackupSizes : backup_size <= b

ReverseNext ==
  /\ UNCHANGED part
  /\ \/ part = "mesh" /\ MeshNext /\ UNCHANGED roundsVars
     \/ part = "rounds" /\ RoundsNext /\ UNCHANGED meshVars

ReverseSpec == ReverseStart /\ [][ReverseNext]_<<part, meshVars, roundsVars>>
=============================================================================
