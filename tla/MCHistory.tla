----------------------------- MODULE MCHistory -----------------------------
(***************************************************************************)
(* Instances of History: a fold is due after five messages and keeps two.  *)
(***************************************************************************)
EXTENDS History
=============================================================================
