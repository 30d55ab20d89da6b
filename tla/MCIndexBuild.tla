---------------------------- MODULE MCIndexBuild ----------------------------
(***************************************************************************)
(* Instances of IndexBuild for TLC: two paths and two commits, of which    *)
(* one adds a file to the other's tree and changes one of its files.       *)
(* Reading them in turn, and one of them twice, gives every outcome of the *)
(* comparison with the files known before.                                 *)
(***************************************************************************)
EXTENDS IndexBuild, TLC

CONSTANTS p1, p2

MCCommits == {"edited", "first"}
MCTree ==
    "edited" :> (p1 :> "z" @@ p2 :> "y") @@
    "first"  :> (p1 :> "x" @@ p2 :> "absent")
=============================================================================
