---------------------------- MODULE BoundedFIFO ----------------------------
(***************************************************************************)
(* What a ring of AF-Stream promises to the two threads it connects: a     *)
(* first-in first-out queue of at most Capacity items, each delivered      *)
(* exactly once.  `delivered' is the item the reader copied last.          *)
(***************************************************************************)
EXTENDS Naturals, Sequences

CONSTANTS Items, Capacity, NoItem

VARIABLES queue, delivered

vars == <<queue, delivered>>

Init == /\ queue = <<>>
        /\ delivered = NoItem

Put(d) == /\ Len(queue) < Capacity
          /\ queue' = Append(queue, d)
          /\ UNCHANGED delivered

Get == /\ queue # <<>>
       /\ delivered' = Head(queue)
       /\ queue' = Tail(queue)

Next == Get \/ \E d \in Items : Put(d)

Spec == Init /\ [][Next]_vars
=============================================================================
