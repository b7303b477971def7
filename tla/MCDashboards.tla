---------------------------- MODULE MCDashboards ----------------------------
(***************************************************************************)
(* Users are interchangeable, and so are names.                            *)
(***************************************************************************)
EXTENDS Dashboards, TLC

Interchangeable == Permutations(User) \cup Permutations(Name)
=============================================================================
