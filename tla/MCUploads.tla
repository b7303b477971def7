------------------------------ MODULE MCUploads ------------------------------
(***************************************************************************)
(* Instances of Uploads for TLC.                                           *)
(***************************************************************************)
EXTENDS Uploads, TLC

CONSTANTS u1, u2, c1, c2, f1, f2

\* One user with two tabs and two uploads.
OneOwner == [f \in Files |-> u1]
OneUserOf == [o \in Objects |-> u1]

\* Two users with a tab and an upload each.
TwoOwners == [f \in Files |-> IF f = f1 THEN u1 ELSE u2]
TwoUserOf == [o \in Objects |-> IF o \in {c1, u1} THEN u1 ELSE u2]

\* Uploads of one user, and tabs of one user, are interchangeable.
Interchangeable == Permutations(Files) \cup Permutations(Conns)
=============================================================================
