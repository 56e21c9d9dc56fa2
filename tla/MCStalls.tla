------------------------------ MODULE MCStalls ------------------------------
(* The instances of MCLifecycle, with calls that may hang.                   *)
EXTENDS MCLifecycle, Stalls
=============================================================================
