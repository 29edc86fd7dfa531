-------------------------- MODULE MCMatchingEngine --------------------------
(***************************************************************************)
(* MatchingEngine for TLC.  The pool's slots are interchangeable: no action *)
(* and no property tells two free slots apart.  So that liveness can be     *)
(* checked too, which a symmetry set does not allow, an incoming order is   *)
(* given the least free slot in the place of any.                           *)
(***************************************************************************)
EXTENDS MatchingEngine

LeastFree == CHOOSE s \in Slots \ Live : \A t \in Slots \ Live : s <= t

LeastSlotTaken == incoming = NULL /\ incoming' # NULL => incoming' = LeastFree

LeastSlotSpec ==
    /\ Init
    /\ [][Next /\ LeastSlotTaken]_vars
    /\ WF_vars(Match \/ Rest \/ Finish)
=============================================================================
