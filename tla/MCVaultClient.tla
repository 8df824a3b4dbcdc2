---------------------------- MODULE MCVaultClient ---------------------------
(***************************************************************************)
(* A lease shorter than the least margin, one just above it, and one that  *)
(* is renewed after 80 percent.                                            *)
(***************************************************************************)
EXTENDS VaultClient, TLC
=============================================================================
