----------------------------- MODULE MCAccounts -----------------------------
(* Small instances of Accounts. *)
EXTENDS Accounts

CONSTANTS d1, d2, d3, p1, p2

ThreeDevices == {d1, d2, d3}
TwoPanels == {p1, p2}
=============================================================================
