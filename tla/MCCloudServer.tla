---------------------------- MODULE MCCloudServer ---------------------------
(***************************************************************************)
(* Two data volumes and two settings of the properties, one of them with   *)
(* an elastic address.                                                     *)
(***************************************************************************)
EXTENDS CloudServer, TLC
=============================================================================
