---------------------------- MODULE MCPathLookup ----------------------------
(***************************************************************************)
(* A disk with a directory in the root directory and one inside it, a file *)
(* in each, and paths to a file, with an empty part behind it, and to the  *)
(* inner directory, to something missing, to nothing, and through a file,  *)
(* so long that it is parsed only while there is much memory.  Of three    *)
(* descriptors two can be closed; with less than 31 blocks the table of    *)
(* descriptors is never full.                                              *)
(***************************************************************************)
EXTENDS PathLookup, TLC

MCTree ==
    ("root" :> ("d" :> "D" @@ "a" :> "A")) @@
    ("D" :> ("e" :> "E" @@ "d" :> "B")) @@
    ("E" :> ("b" :> "C"))

MCPaths ==
    {<<"a", "", "b">>, <<"d", "e">>, <<"x", "b">>, <<"">>,
     <<"a", "b", "b", "b", "b", "b", "b", "b", "b", "b">>}
=============================================================================
