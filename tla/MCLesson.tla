------------------------------ MODULE MCLesson ------------------------------
(* A small instance of Lesson: two clients, a channel with one place. *)
EXTENDS Lesson, TLC

CONSTANTS c1, c2

BothClients == {c1, c2}
ClientSymmetry == Permutations(BothClients)
=============================================================================
