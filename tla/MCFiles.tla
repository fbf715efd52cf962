------------------------------ MODULE MCFiles ------------------------------
(***************************************************************************)
(* Files on a disk of three clusters of two sectors of two bytes, with a   *)
(* file in two clusters that are not neighbours and one in the cluster     *)
(* between; a directory with a deleted entry; and damaged disks, where the *)
(* chain ends early, runs in a circle or leaves the disk.                  *)
(***************************************************************************)
EXTENDS Files, TLC

A == [name |-> "a", first |-> 2, size |-> 6]
B == [name |-> "b", first |-> 3, size |-> 3]
Gone == [name |-> NoName, first |-> 0, size |-> 0]

Split == (2 :> 4) @@ (3 :> Stop) @@ (4 :> Stop)
MCName == {"a", "b"}
MCImages ==
    {[fat |-> Split, root |-> r] : r \in {<<A, B>>, <<A, Gone, B>>, <<B, A, Gone>>}}
    \cup {[fat |-> f, root |-> <<A>>] :
            f \in {[Split EXCEPT ![2] = Stop], [Split EXCEPT ![4] = 2], [Split EXCEPT ![2] = Beyond]}}
=============================================================================
