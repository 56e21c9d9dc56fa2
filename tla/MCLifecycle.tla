---------------------------- MODULE MCLifecycle ----------------------------
(* Small instances of Lifecycle: an administrator, a student and the owner  *)
(* of a linked phone.                                                       *)
EXTENDS Lifecycle

CONSTANTS admin, student, owner

\* admin and student are in the database at first boot; owner is not.
BothRegistered == <<admin, student>>
AdminRegistered == <<admin>>
TheAdmin == {admin}
TheOwner == {owner}
Everyone == {admin, student, owner}

SharedOnly == {SharedClient}
SharedAndOwner == {SharedClient, owner}

From(n, cmds) == [from : {n}, cmd : cmds, to : {n}]

\* The student writes and leaves, the administrator adds and removes them.
TwoPayload == From(student, {"chat", "forget", "group"})
              \cup [from : {admin}, cmd : {"add", "delete"}, to : {student}]
ThreePayload == TwoPayload \cup From(owner, {"chat"})
StudentPayload == From(student, {"chat", "profile", "forget", "group"})
                  \cup [from : {admin}, cmd : {"delete"}, to : {student}]
LeaverPayload == From(student, {"chat", "forget"})
Students == {admin, student}
=============================================================================
