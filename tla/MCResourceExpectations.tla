---------------------- MODULE MCResourceExpectations ------------------------
(***************************************************************************)
(* ResourceExpectations for TLC.                                           *)
(***************************************************************************)
EXTENDS ResourceExpectations
=============================================================================
