--------------------------- MODULE MCPanelAccess ---------------------------
(* A small instance of PanelAccess: two requests and a chat command at a     *)
(* time, two e-mails racing through /setup.                                  *)
EXTENDS PanelAccess, TLC

CONSTANTS e1, e2, r1, r2

TwoEmails == {e1, e2}
TwoRequests == {r1, r2}
Interchangeable == Permutations(TwoRequests) \cup Permutations(TwoEmails)
=============================================================================
