----------------------------- MODULE MCRetryTimer ---------------------------
(***************************************************************************)
(* A timeout of three intervals and the rest of a fourth.                  *)
(***************************************************************************)
EXTENDS RetryTimer, TLC
=============================================================================
