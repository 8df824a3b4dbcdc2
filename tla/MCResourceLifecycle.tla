------------------------ MODULE MCResourceLifecycle -------------------------
(***************************************************************************)
(* ResourceLifecycle for TLC.                                              *)
(***************************************************************************)
EXTENDS ResourceLifecycle
=============================================================================
