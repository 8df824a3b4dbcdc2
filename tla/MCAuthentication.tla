--------------------------- MODULE MCAuthentication -------------------------
(***************************************************************************)
(* Two controllers with objects of two tenants.                            *)
(***************************************************************************)
EXTENDS Authentication, TLC
=============================================================================
