----------------------------- MODULE StudyGroups -----------------------------
(***************************************************************************)
(* Study groups and whose AI answers (internal/repository/group_repo.go,   *)
(* internal/service/whatsapp.go): WhatsApp groups become study groups at   *)
(* their first message, /newgroup and /join make and enter others, /groupai*)
(* gives a group a shared AI, /myai a student a personal one.              *)
(*                                                                         *)
(* The one worker runs a message statement by statement; the panel erases, *)
(* wipes and saves whole rows of users in between.  Codes stand for the    *)
(* group they name: the column is unique.  Two tables have no constraint:  *)
(* nothing but the order of the worker's statements keeps a chat from two  *)
(* groups, or a student from two entries in one.                           *)
(***************************************************************************)
EXTENDS Integers

CONSTANTS People,      \* phone numbers
          Chats,       \* WhatsApp groups
          NoChat,      \* whatsapp_jid of a group made by /newgroup; a direct message
          MaxUsers, MaxGroups, MaxMembers,  \* bounds: rows ever inserted
          MaxJobs      \* bound: messages

ASSUME StudyGroupsAssumption ==
    /\ NoChat \notin Chats
    /\ MaxUsers \in Nat /\ MaxGroups \in Nat /\ MaxMembers \in Nat /\ MaxJobs \in Nat

VARIABLES users,    \* usuarios, by number: id, active group, personal AI
          groups,   \* grupo_estudos
          members,  \* grupo_membros
          lastUser, lastGroup, lastMember,  \* sqlite_sequence: ids are not reused
          worker,   \* the message under way
          panel,    \* the panel's request under way
          jobs,
          answer,   \* the group whose AI gave the last answer
          outlived  \* ids whose row outlived the erasure of its entries

tables == <<users, groups, members, lastUser, lastGroup, lastMember>>
vars == <<tables, worker, panel, jobs, answer, outlived>>

NoGroup == 0
User == [id : Nat, active : Nat, personal : BOOLEAN]
NoUser == [id |-> 0, active |-> NoGroup, personal |-> FALSE]
Group == [id : Nat, chat : Chats \cup {NoChat}, shared : BOOLEAN]
Nothing == [id |-> NoGroup, chat |-> NoChat, shared |-> FALSE]
Member == [no : Nat, group : Nat, user : Nat, role : {"ADMIN", "MEMBER"}]

Steps == {"idle", "associate", "autoGroup", "addAdmin", "isMember", "addMember",
          "activate", "answer", "newGroup", "newAdmin", "join", "joined", "groupAI",
          "isAdmin", "saveGroup", "myAI", "forget", "purgeUser"}

\* user and group are the rows read so far, as changed in memory.
Worker == [pc : Steps, who : People, chat : Chats \cup {NoChat}, user : User,
           group : Group]
Idle == [pc |-> "idle", chat |-> NoChat, user |-> NoUser, group |-> Nothing]

PanelSteps == {"idle", "save", "purgeMembers", "purgeUser", "wipeMembers",
               "wipeGroups", "wipeUsers"}

At(step) == worker.pc = step
Goto(step) == worker' = [worker EXCEPT !.pc = step]
Finish == worker' = [worker EXCEPT !.pc = "idle", !.chat = NoChat, !.user = NoUser,
                                   !.group = Nothing]
PanelBusy == panel.pc # "idle"

\* The student's entries are gone and the row is to follow.
Erasing(id) == \/ At("purgeUser") /\ worker.user.id = id
               \/ panel.pc = "purgeUser" /\ panel.user.id = id
               \/ panel.pc \in {"wipeGroups", "wipeUsers"}

-----------------------------------------------------------------------------
(* The repositories. *)

\* gorm's Save: the row is inserted if its id is gone, unless the number has
\* another row.  Inserted again, it has outlived its erasure.
SaveUser(p, row) ==
    /\ users' = [users EXCEPT ![p] = IF @ = NoUser \/ @.id = row.id THEN row ELSE @]
    /\ outlived' = IF users[p] = NoUser THEN outlived \cup {row.id} ELSE outlived

PurgeUser(id) ==
    users' = [p \in People |-> IF users[p].id = id THEN NoUser ELSE users[p]]

PurgeMemberships(id) == members' = {m \in members : m.user # id}

SaveGroup(row) == groups' = {g \in groups : g.id # row.id} \cup {row}

\* CreateAutoGroup, and Create of /newgroup.
NewGroupRow(chat) == [id |-> lastGroup + 1, chat |-> chat, shared |-> FALSE]

CreateGroup(chat) ==
    /\ lastGroup < MaxGroups
    /\ lastGroup' = lastGroup + 1
    /\ groups' = groups \cup {NewGroupRow(chat)}

\* The code is taken from the clock, modulo 0xFFFFF: that of another group of
\* the same kind may come out again, and the index refuses it.
CodeTaken(chat) == \E g \in groups : (g.chat = NoChat) <=> (chat = NoChat)

IsMember(g, u) == \E m \in members : m.group = g /\ m.user = u

\* GetMember: the first entry.
IsAdmin(g, u) ==
    \E m \in members :
        /\ m.group = g /\ m.user = u /\ m.role = "ADMIN"
        /\ \A n \in members : n.group = g /\ n.user = u => m.no <= n.no

AddMember(role) ==
    /\ lastMember < MaxMembers
    /\ lastMember' = lastMember + 1
    /\ members' = members \cup {[no |-> lastMember', group |-> worker.group.id,
                                 user |-> worker.user.id, role |-> role]}

\* GetByJID: the first group of the chat.
GroupOf(chat, g) == /\ g \in groups /\ g.chat = chat
                    /\ \A h \in groups : h.chat = chat => g.id <= h.id

-----------------------------------------------------------------------------
Init == /\ users = [p \in People |-> NoUser]
        /\ groups = {}
        /\ members = {}
        /\ lastUser = 0 /\ lastGroup = 0 /\ lastMember = 0
        /\ worker \in [pc : {"idle"}, who : People, chat : {NoChat},
                       user : {NoUser}, group : {Nothing}]
        /\ panel = [pc |-> "idle", who |-> worker.who, user |-> NoUser]
        /\ jobs = 0
        /\ answer = NoGroup
        /\ outlived = {}

\* The worker takes a message of p, from a chat or direct, and fetches or
\* creates p's row.
Begin(p, chat, step) ==
    /\ At("idle")
    /\ jobs < MaxJobs
    /\ jobs' = jobs + 1
    /\ IF users[p] = NoUser
       THEN /\ lastUser < MaxUsers
            /\ lastUser' = lastUser + 1
            /\ users' = [users EXCEPT ![p].id = lastUser']
       ELSE UNCHANGED <<users, lastUser>>
    /\ worker' = [pc |-> step, who |-> p, chat |-> chat, user |-> users'[p],
                  group |-> Nothing]
    /\ answer' = NoGroup
    /\ UNCHANGED <<groups, members, lastGroup, lastMember, panel, outlived>>

-----------------------------------------------------------------------------
(* A message in a chat: the association, and then handleGroupMessage. *)

Associate ==
    /\ At("associate")
    /\ \/ /\ \A g \in groups : g.chat # worker.chat
          /\ Goto("autoGroup")
       \/ \E g \in groups :
             /\ GroupOf(worker.chat, g)
             /\ worker' = [worker EXCEPT !.pc = "isMember", !.group = g]
    /\ UNCHANGED <<tables, panel, jobs, answer, outlived>>

\* Without a group the message is answered all the same.
AutoGroup ==
    /\ At("autoGroup")
    /\ \/ /\ CreateGroup(worker.chat)
          /\ worker' = [worker EXCEPT !.pc = "addAdmin",
                                      !.group = NewGroupRow(worker.chat)]
       \/ /\ CodeTaken(worker.chat)
          /\ Goto("answer")
          /\ UNCHANGED <<groups, lastGroup>>
    /\ UNCHANGED <<users, members, lastUser, lastMember, panel, jobs, answer, outlived>>

AddAdmin ==
    /\ At("addAdmin")
    /\ AddMember("ADMIN")
    /\ Goto("activate")
    /\ UNCHANGED <<users, groups, lastUser, lastGroup, panel, jobs, answer, outlived>>

CheckMember ==
    /\ At("isMember")
    /\ Goto(IF IsMember(worker.group.id, worker.user.id) THEN "activate" ELSE "addMember")
    /\ UNCHANGED <<tables, panel, jobs, answer, outlived>>

EnterGroup ==
    /\ At("addMember")
    /\ AddMember("MEMBER")
    /\ Goto("activate")
    /\ UNCHANGED <<users, groups, lastUser, lastGroup, panel, jobs, answer, outlived>>

\* Rejected: only who has no active group yet gets one.
ActivateFirst ==
    /\ At("activate")
    /\ LET row == [worker.user EXCEPT !.active = IF @ = NoGroup THEN worker.group.id ELSE @]
       IN /\ SaveUser(worker.who, row)
          /\ worker' = [worker EXCEPT !.pc = "answer", !.user = row]
    /\ UNCHANGED <<groups, members, lastUser, lastGroup, lastMember, panel, jobs,
                   answer>>

Activate ==
    /\ At("activate")
    /\ LET row == [worker.user EXCEPT !.active = worker.group.id]
       IN /\ SaveUser(worker.who, row)
          /\ worker' = [worker EXCEPT !.pc = "answer", !.user = row]
    /\ UNCHANGED <<groups, members, lastUser, lastGroup, lastMember, panel, jobs,
                   answer>>

\* resolveGroupLLM in a chat: the active group's AI, then the personal one.
\* resolveLLMParams in a direct message: the other way round.
SharedAI == \E g \in groups : g.id = worker.user.active /\ g.shared

Answer ==
    /\ At("answer")
    /\ answer' = IF SharedAI /\ (worker.chat # NoChat \/ ~worker.user.personal)
                 THEN worker.user.active ELSE NoGroup
    /\ Finish
    /\ UNCHANGED <<tables, panel, jobs, outlived>>

\* Nobody called the tutor, or the chat is on cooldown.
StaySilent ==
    /\ At("answer") /\ worker.chat # NoChat
    /\ Finish
    /\ UNCHANGED <<tables, panel, jobs, answer, outlived>>

-----------------------------------------------------------------------------
(* Direct messages: /newgroup, /join, /groupai, /myai, /forget. *)

NewGroup ==
    /\ At("newGroup")
    /\ \/ /\ CreateGroup(NoChat)
          /\ worker' = [worker EXCEPT !.pc = "newAdmin", !.group = NewGroupRow(NoChat)]
       \/ CodeTaken(NoChat) /\ Finish /\ UNCHANGED <<groups, lastGroup>>
    /\ UNCHANGED <<users, members, lastUser, lastMember, panel, jobs, answer, outlived>>

NewAdmin ==
    /\ At("newAdmin")
    /\ AddMember("ADMIN")
    /\ Finish
    /\ UNCHANGED <<users, groups, lastUser, lastGroup, panel, jobs, answer, outlived>>

\* GetByInviteCode, with any code that names a group.
FindGroup(step, next) ==
    /\ At(step)
    /\ \/ \E g \in groups : worker' = [worker EXCEPT !.pc = next, !.group = g]
       \/ Finish
    /\ UNCHANGED <<tables, panel, jobs, answer, outlived>>

\* Rejected: whoever has the code is entered.
JoinUnchecked ==
    /\ At("joined")
    /\ AddMember("MEMBER") /\ Finish
    /\ UNCHANGED <<users, groups, lastUser, lastGroup, panel, jobs, answer, outlived>>

\* IsMember and AddMember: the panel may come between, but only takes away.
Join ==
    /\ At("joined")
    /\ IF IsMember(worker.group.id, worker.user.id)
       THEN Finish /\ UNCHANGED <<members, lastMember>>
       ELSE AddMember("MEMBER") /\ Finish
    /\ UNCHANGED <<users, groups, lastUser, lastGroup, panel, jobs, answer, outlived>>

CheckAdmin ==
    /\ At("isAdmin")
    /\ IF IsAdmin(worker.group.id, worker.user.id)
       THEN worker' = [worker EXCEPT !.pc = "saveGroup", !.group.shared = TRUE]
       ELSE Finish
    /\ UNCHANGED <<tables, panel, jobs, answer, outlived>>

GroupAI ==
    /\ At("saveGroup")
    /\ SaveGroup(worker.group)
    /\ Finish
    /\ UNCHANGED <<users, members, lastUser, lastGroup, lastMember, panel, jobs,
                   answer, outlived>>

MyAI ==
    /\ At("myAI")
    /\ SaveUser(worker.who, [worker.user EXCEPT !.personal = TRUE])
    /\ Finish
    /\ UNCHANGED <<groups, members, lastUser, lastGroup, lastMember, panel, jobs,
                   answer>>

\* eraseUser
Forget ==
    /\ At("forget")
    /\ PurgeMemberships(worker.user.id)
    /\ Goto("purgeUser")
    /\ UNCHANGED <<users, groups, lastUser, lastGroup, lastMember, panel, jobs,
                   answer, outlived>>

ForgetUser ==
    /\ At("purgeUser")
    /\ PurgeUser(worker.user.id)
    /\ Finish
    /\ UNCHANGED <<groups, members, lastUser, lastGroup, lastMember, panel, jobs,
                   answer, outlived>>

WorkerStep ==
    \/ Associate \/ AutoGroup \/ AddAdmin \/ CheckMember \/ EnterGroup \/ Activate
    \/ Answer \/ StaySilent
    \/ NewGroup \/ NewAdmin \/ FindGroup("join", "joined") \/ Join
    \/ FindGroup("groupAI", "isAdmin") \/ CheckAdmin \/ GroupAI \/ MyAI
    \/ Forget \/ ForgetUser

Message(p) == \/ \E c \in Chats : Begin(p, c, "associate")
              \/ \E step \in {"newGroup", "join", "groupAI", "myAI", "forget", "answer"} :
                    Begin(p, NoChat, step)

-----------------------------------------------------------------------------
(* The panel: handlers that save a row they read, eraseUser, wipeUserData. *)

PanelRead(p) ==
    /\ ~PanelBusy
    /\ users[p] # NoUser
    /\ \E step \in {"save", "purgeMembers"} :
          panel' = [pc |-> step, who |-> p, user |-> users[p]]
    /\ UNCHANGED <<tables, worker, jobs, answer, outlived>>

PanelDone == panel' = [panel EXCEPT !.pc = "idle", !.user = NoUser]
PanelGoto(step) == panel' = [panel EXCEPT !.pc = step]

PanelSave ==
    /\ panel.pc = "save"
    /\ SaveUser(panel.who, panel.user)
    /\ PanelDone
    /\ UNCHANGED <<groups, members, lastUser, lastGroup, lastMember, worker, jobs, answer>>

PanelPurgeMembers ==
    /\ panel.pc = "purgeMembers"
    /\ PurgeMemberships(panel.user.id)
    /\ PanelGoto("purgeUser")
    /\ UNCHANGED <<users, groups, lastUser, lastGroup, lastMember, worker, jobs,
                   answer, outlived>>

PanelPurgeUser ==
    /\ panel.pc = "purgeUser"
    /\ PurgeUser(panel.user.id)
    /\ PanelDone
    /\ UNCHANGED <<groups, members, lastUser, lastGroup, lastMember, worker, jobs,
                   answer, outlived>>

PanelWipe ==
    /\ ~PanelBusy
    /\ PanelGoto("wipeMembers")
    /\ UNCHANGED <<tables, worker, jobs, answer, outlived>>

WipeMembers ==
    /\ panel.pc = "wipeMembers"
    /\ members' = {}
    /\ PanelGoto("wipeGroups")
    /\ UNCHANGED <<users, groups, lastUser, lastGroup, lastMember, worker, jobs,
                   answer, outlived>>

WipeGroups ==
    /\ panel.pc = "wipeGroups"
    /\ groups' = {}
    /\ PanelGoto("wipeUsers")
    /\ UNCHANGED <<users, members, lastUser, lastGroup, lastMember, worker, jobs,
                   answer, outlived>>

WipeUsers ==
    /\ panel.pc = "wipeUsers"
    /\ users' = [p \in People |-> NoUser]
    /\ PanelDone
    /\ UNCHANGED <<groups, members, lastUser, lastGroup, lastMember, worker, jobs,
                   answer, outlived>>

PanelStep == \/ PanelSave \/ PanelPurgeMembers \/ PanelPurgeUser
             \/ WipeMembers \/ WipeGroups \/ WipeUsers

\* The process stops between two statements: the tables are what is left, with
\* the rows whose entries an erasure had taken and which it did not come to.
Restart ==
    /\ Finish
    /\ PanelDone
    /\ outlived' = outlived \cup {users[p].id : p \in {q \in People : users[q] # NoUser
                                                      /\ Erasing(users[q].id)}}
    /\ UNCHANGED <<tables, jobs, answer>>

Next == \/ \E p \in People : Message(p) \/ PanelRead(p)
        \/ WorkerStep \/ PanelWipe \/ PanelStep \/ Restart

Spec == Init /\ [][Next]_vars

-----------------------------------------------------------------------------
TypeOK == /\ users \in [People -> User]
          /\ groups \subseteq Group
          /\ members \subseteq Member
          /\ lastUser \in Nat /\ lastGroup \in Nat /\ lastMember \in Nat
          /\ worker \in Worker
          /\ panel \in [pc : PanelSteps, who : People, user : User]
          /\ jobs \in 0 .. MaxJobs
          /\ answer \in Nat
          /\ outlived \subseteq Nat

\* No chat has two study groups, and nobody two entries in one, whatever the
\* panel deletes between the worker's look-up and its insertion, and whatever a
\* late whole-row save brings back: GetByJID and GetMember rely on it, as no
\* index does.
OneEntryEach ==
    /\ \A g, h \in groups : g.chat = h.chat /\ g.chat # NoChat => g = h
    /\ \A m, n \in members : m.group = n.group /\ m.user = n.user => m = n

\* The group's AI answers a student only while the student has an entry in it,
\* and in a chat it is the AI of that chat's group ("first the group's shared
\* AI"); a direct message gets that of the student's active group.  No entry
\* backs the answer where an erasure came between: it is under way, or took the
\* row during the message, or a stop cut it before the row's own statement, or a
\* late save of the whole row brought the row back.  And a chat whose group could
\* not be created has the student's active group pay.
SharedAIOwn ==
    [][At("answer") /\ worker'.pc = "idle" /\ answer' # NoGroup =>
          /\ \/ IsMember(answer', worker.user.id)
             \/ Erasing(worker.user.id)
             \/ users[worker.who].id # worker.user.id
             \/ worker.user.id \in outlived
          /\ worker.group # Nothing =>
                \E g \in groups : g.id = answer' /\ g.chat = worker.chat]_vars

=============================================================================
