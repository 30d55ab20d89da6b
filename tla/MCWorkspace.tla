---------------------------- MODULE MCWorkspace ----------------------------
(***************************************************************************)
(* Instances of Workspace for TLC: an organization of two and a guest.     *)
(***************************************************************************)
EXTENDS Workspace, TLC

CONSTANTS a, b, c, home

MCTeam == <<a, b>>
Alike == Permutations(Requests) \cup Permutations(Names) \cup Permutations(Servers)
=============================================================================
