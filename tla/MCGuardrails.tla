---------------------------- MODULE MCGuardrails ----------------------------
(* A small instance of Guardrails: a user and a group, whose limits share   *)
(* nothing but the clock.                                                    *)
EXTENDS Guardrails

CONSTANTS u1, g1

OneUser == {u1}
OneGroup == {g1}
=============================================================================
