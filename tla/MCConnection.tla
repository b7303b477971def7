---------------------------- MODULE MCConnection ----------------------------
(***************************************************************************)
(* Two elements, one of which has an id that encodeURI() changes, and two  *)
(* uploads.                                                                *)
(***************************************************************************)
EXTENDS Connection, TLC

CONSTANTS a, b, bEncoded

MCEncodeURI == (a :> a) @@ (b :> bEncoded)
=============================================================================
