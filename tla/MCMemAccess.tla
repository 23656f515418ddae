---------------------------- MODULE MCMemAccess ----------------------------
(***************************************************************************)
(* Values for MemAccess.                                                   *)
(***************************************************************************)
EXTENDS MemAccess

(* enough memory, less than a page, and none *)
SomePages == {-2, 0, 1000003}
=============================================================================
