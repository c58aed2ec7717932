------------------------------ MODULE MCGcHeap ------------------------------
(***************************************************************************)
(* GcHeap for TLC: tasks are interchangeable.  A native function is looked *)
(* at beside one task and no joins, a destructor beside two tasks.         *)
(***************************************************************************)
EXTENDS GcHeap, TLC

Symmetry == Permutations(Tasks)
Used == Referenced \cup {t \in Tasks : result[t] # NoObj}
Focus ==
    /\ native = {} \/ (joins = {} /\ Cardinality(Used) <= 1)
    /\ calls = <<>> \/ Cardinality(Used) <= 2
=============================================================================
