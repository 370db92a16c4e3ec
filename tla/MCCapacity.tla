---------------------------- MODULE MCCapacity ----------------------------
(* Model values for PlusOneCapacity: the plus-ones are interchangeable,    *)
(* and so are the requests and the parents.                                *)
EXTENDS PlusOneCapacity, TLC

CapacitySymmetry ==
    Permutations(Parent) \cup Permutations(Kid) \cup Permutations(Request)
=============================================================================
