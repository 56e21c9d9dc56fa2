--------------------------- MODULE MCStudyGroups ---------------------------
(* A small instance of StudyGroups: two students, two chats, and room for    *)
(* their two groups or one of them and one made by /newgroup.                *)
EXTENDS StudyGroups, TLC

CONSTANTS p1, p2, c1, c2

TwoPeople == {p1, p2}
TwoChats == {c1, c2}
Interchangeable == Permutations(TwoPeople) \cup Permutations(TwoChats)
=============================================================================
