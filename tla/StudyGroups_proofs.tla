-------------------------- MODULE StudyGroups_proofs --------------------------
(***************************************************************************)
(* Proofs about the study groups (StudyGroups), for any number of students,*)
(* chats and messages, and a panel that erases, wipes and saves at any     *)
(* time.  No index keeps the two tables free of doubles; that the worker's *)
(* statements do rests on ids that are not reused and on nobody else       *)
(* inserting.  The last part proves the limits of Guardrails, which study  *)
(* groups share with direct messages.                                      *)
(***************************************************************************)
EXTENDS StudyGroups, Guardrails, SequenceTheorems, TLAPS

\* Ids are those given out so far.
Numbered == /\ \A g \in groups : g.id \in 1 .. lastGroup
            /\ \A m \in members : m.no \in 1 .. lastMember /\ m.group \in 0 .. lastGroup
            /\ worker.group.id \in 0 .. lastGroup

\* The group in the worker's hands is the one its chat has.
HeldGroup ==
    \A g \in groups :
        g.chat = worker.group.chat /\ g.chat # NoChat => g.id = worker.group.id

\* What the worker has looked up is still so at the insertion.
LookedUp ==
    /\ At("autoGroup") => \A g \in groups : g.chat # worker.chat
    /\ worker.pc \in {"addAdmin", "newAdmin", "addMember"} =>
          ~IsMember(worker.group.id, worker.user.id)
    /\ worker.pc \in {"isAdmin", "saveGroup"} => worker.group.id # NoGroup

OneId == \A g, h \in groups : g.id = h.id => g = h

IInv == TypeOK /\ Numbered /\ HeldGroup /\ LookedUp /\ OneId /\ OneEntryEach

-----------------------------------------------------------------------------
LEMMA Initially == Init => IInv
<1> SUFFICES ASSUME Init PROVE IInv OBVIOUS
<1>1. /\ worker.pc = "idle" /\ worker.group = Nothing
      /\ worker \in Worker /\ worker.who \in People
  <2>1. worker \in [pc : {"idle"}, who : People, chat : {NoChat}, user : {NoUser},
                    group : {Nothing}]
    BY DEF Init
  <2>2. NoUser \in User /\ Nothing \in Group /\ "idle" \in Steps
    BY DEF Steps, NoUser, User, NoGroup, Nothing, Group
  <2> QED BY <2>1, <2>2 DEF Worker
<1>2. TypeOK
  BY <1>1, StudyGroupsAssumption
     DEF Init, TypeOK, NoUser, User, NoGroup, PanelSteps
<1>3. Numbered /\ HeldGroup /\ LookedUp /\ OneId /\ OneEntryEach
  BY <1>1 DEF Init, Numbered, HeldGroup, LookedUp, OneId, OneEntryEach, At, Nothing,
              NoGroup
<1> QED BY <1>2, <1>3 DEF IInv

\* The types of the worker's record, for steps that change it field by field.
LEMMA WorkerTypes ==
    ASSUME TypeOK
    PROVE  /\ worker \in Worker
           /\ worker.user \in User /\ worker.group \in Group /\ worker.who \in People
           /\ NoUser \in User /\ Nothing \in Group
           /\ \A step \in Steps : [worker EXCEPT !.pc = step] \in Worker
           /\ [worker EXCEPT !.pc = "idle", !.chat = NoChat, !.user = NoUser,
                             !.group = Nothing] \in Worker
BY DEF TypeOK, Worker, NoUser, User, Nothing, NoGroup, Group, Steps

LEMMA SaveUserTypes ==
    ASSUME TypeOK, NEW p \in People, NEW row \in User, SaveUser(p, row)
    PROVE  users' \in [People -> User] /\ outlived' \subseteq Nat
BY DEF TypeOK, SaveUser, User

LEMMA PurgeUserTypes ==
    ASSUME TypeOK, NEW id, PurgeUser(id)
    PROVE  users' \in [People -> User]
BY DEF TypeOK, PurgeUser, NoUser, User, NoGroup

\* A step that only takes rows away from the two tables, or none, and leaves
\* the worker at a step that inserts nothing, or where it is.
LEMMA TakesAway ==
    ASSUME IInv, TypeOK',
           groups' \subseteq groups, members' \subseteq members,
           UNCHANGED <<lastGroup, lastMember>>,
           \/ UNCHANGED worker
           \/ /\ worker'.group = worker.group \/ worker'.group = Nothing
              /\ worker'.pc \notin {"autoGroup", "addAdmin", "newAdmin", "addMember",
                                   "isAdmin", "saveGroup"}
    PROVE  IInv'
<1>0. lastGroup \in Nat BY DEF IInv, TypeOK
<1>1. Numbered' BY <1>0 DEF IInv, Numbered, Nothing, NoGroup
<1>2. HeldGroup' BY DEF IInv, HeldGroup, Nothing
<1>3. LookedUp' BY DEF IInv, LookedUp, At, IsMember
<1>4. OneId' /\ OneEntryEach' BY DEF IInv, OneId, OneEntryEach
<1> QED BY <1>1, <1>2, <1>3, <1>4 DEF IInv

\* An insertion into grupo_membros of an entry that was looked for.
LEMMA Inserts ==
    ASSUME IInv, TypeOK', NEW role \in {"ADMIN", "MEMBER"}, AddMember(role),
           ~IsMember(worker.group.id, worker.user.id),
           UNCHANGED <<groups, lastGroup>>,
           worker'.group = worker.group \/ worker'.group = Nothing,
           worker'.pc \in {"activate", "idle"}
    PROVE  IInv'
<1>0. /\ lastGroup \in Nat /\ lastMember \in Nat /\ lastMember' = lastMember + 1
      /\ \A m \in members' :
            \/ m \in members
            \/ m = [no |-> lastMember', group |-> worker.group.id,
                    user |-> worker.user.id, role |-> role]
  BY DEF IInv, TypeOK, AddMember
<1>1. Numbered'
  <2>1. ASSUME NEW m \in members'
        PROVE  m.no \in 1 .. lastMember' /\ m.group \in 0 .. lastGroup'
    BY <1>0 DEF IInv, Numbered
  <2> QED BY <1>0, <2>1 DEF IInv, Numbered, Nothing, NoGroup
<1>2. HeldGroup' BY DEF IInv, HeldGroup, Nothing
<1>3. LookedUp' BY DEF IInv, LookedUp, At
<1>4. OneId' BY DEF IInv, OneId
<1>5. OneEntryEach'
  <2>1. ASSUME NEW m \in members', NEW n \in members', m.group = n.group, m.user = n.user
        PROVE  m = n
    BY <1>0, <2>1 DEF IInv, OneEntryEach, IsMember
  <2>2. \A g, h \in groups' : g.chat = h.chat /\ g.chat # NoChat => g = h
    BY DEF IInv, OneEntryEach
  <2> QED BY <2>1, <2>2 DEF OneEntryEach
<1> QED BY <1>1, <1>2, <1>3, <1>4, <1>5 DEF IInv

\* An insertion into grupo_estudos, for a chat that has none or for no chat.
LEMMA Creates ==
    ASSUME IInv, TypeOK', NEW chat \in Chats \cup {NoChat}, CreateGroup(chat),
           chat # NoChat => \A g \in groups : g.chat # chat,
           UNCHANGED <<members, lastMember>>,
           worker'.group.id = lastGroup',
           worker'.group.chat \in {chat, NoChat},
           worker'.pc \in {"addAdmin", "newAdmin"}
    PROVE  IInv'
<1>0. /\ lastGroup \in Nat /\ lastGroup' = lastGroup + 1
      /\ \A g \in groups' :
            \/ g \in groups
            \/ g = [id |-> lastGroup', chat |-> chat, shared |-> FALSE]
  BY DEF IInv, TypeOK, CreateGroup, NewGroupRow
<1>1. \A g \in groups : g.id # lastGroup'
  BY <1>0 DEF IInv, Numbered
<1>2. Numbered'
  <2>1. ASSUME NEW g \in groups' PROVE g.id \in 1 .. lastGroup'
    BY <1>0 DEF IInv, Numbered
  <2>2. ASSUME NEW m \in members'
        PROVE  m.no \in 1 .. lastMember' /\ m.group \in 0 .. lastGroup'
    BY <1>0 DEF IInv, Numbered
  <2> QED BY <1>0, <2>1, <2>2 DEF Numbered
<1>3. HeldGroup'
  <2>1. ASSUME NEW g \in groups', g.chat = worker'.group.chat, g.chat # NoChat
        PROVE  g.id = worker'.group.id
    BY <1>0, <2>1
  <2> QED BY <2>1 DEF HeldGroup
<1>4. LookedUp'
  <2>1. ASSUME NEW m \in members' PROVE m.group # lastGroup'
    BY <1>0 DEF IInv, Numbered
  <2> QED BY <2>1 DEF LookedUp, IsMember, At
<1>5. OneId'
  <2>1. ASSUME NEW g \in groups', NEW h \in groups', g.id = h.id PROVE g = h
    <3>1. CASE g \in groups /\ h \in groups BY <2>1, <3>1 DEF IInv, OneId
    <3>2. CASE g.id = lastGroup' BY <1>0, <1>1, <2>1, <3>2
    <3> QED BY <1>0, <2>1, <3>1, <3>2
  <2> QED BY <2>1 DEF OneId
<1>6. OneEntryEach'
  <2>1. ASSUME NEW g \in groups', NEW h \in groups', g.chat = h.chat, g.chat # NoChat
        PROVE  g = h
    <3>1. CASE g \in groups /\ h \in groups BY <2>1, <3>1 DEF IInv, OneEntryEach
    <3>2. CASE g \notin groups \/ h \notin groups
      <4>1. g.chat = chat /\ chat # NoChat BY <1>0, <2>1, <3>2
      <4>2. g \notin groups /\ h \notin groups BY <2>1, <4>1
      <4> QED BY <1>0, <4>2
    <3> QED BY <3>1, <3>2
  <2>2. \A m, n \in members' : m.group = n.group /\ m.user = n.user => m = n
    BY DEF IInv, OneEntryEach
  <2> QED BY <2>1, <2>2 DEF OneEntryEach
<1> QED BY <1>2, <1>3, <1>4, <1>5, <1>6 DEF IInv

\* Save of a row of grupo_estudos that was read before.
LEMMA Saves ==
    ASSUME IInv, TypeOK', SaveGroup(worker.group),
           worker.group.id # NoGroup,
           UNCHANGED <<members, lastGroup, lastMember>>,
           worker'.group = Nothing, worker'.pc = "idle"
    PROVE  IInv'
<1>0. /\ \A g \in groups' : \/ g \in groups /\ g.id # worker.group.id
                            \/ g = worker.group
      /\ lastGroup \in Nat
  BY DEF SaveGroup, IInv, TypeOK
<1>1. Numbered'
  <2>1. ASSUME NEW g \in groups' PROVE g.id \in 1 .. lastGroup'
    <3>1. CASE g \in groups BY <3>1 DEF IInv, Numbered
    <3>2. CASE g = worker.group
      <4>1. worker.group.id \in 0 .. lastGroup BY DEF IInv, Numbered
      <4> QED BY <1>0, <3>2, <4>1 DEF NoGroup
    <3> QED BY <1>0, <3>1, <3>2
  <2>2. worker'.group.id \in 0 .. lastGroup' BY <1>0 DEF Nothing, NoGroup
  <2> QED BY <2>1, <2>2 DEF IInv, Numbered
<1>2. HeldGroup' /\ LookedUp' BY DEF HeldGroup, LookedUp, Nothing, At
<1>3. OneId'
  <2>1. ASSUME NEW g \in groups', NEW h \in groups', g.id = h.id PROVE g = h
    BY <1>0, <2>1 DEF IInv, OneId
  <2> QED BY <2>1 DEF OneId
<1>4. OneEntryEach'
  <2>1. ASSUME NEW g \in groups', NEW h \in groups', g.chat = h.chat, g.chat # NoChat
        PROVE  g = h
    BY <1>0, <2>1 DEF IInv, OneEntryEach, HeldGroup
  <2>2. \A m, n \in members' : m.group = n.group /\ m.user = n.user => m = n
    BY DEF IInv, OneEntryEach
  <2> QED BY <2>1, <2>2 DEF OneEntryEach
<1> QED BY <1>1, <1>2, <1>3, <1>4 DEF IInv

\* A look-up: the tables stay.
LEMMA Looks ==
    ASSUME IInv, TypeOK', HeldGroup', LookedUp',
           worker'.group.id \in 0 .. lastGroup,
           UNCHANGED <<groups, members, lastGroup, lastMember>>
    PROVE  IInv'
<1>1. Numbered' BY DEF IInv, Numbered
<1>2. OneId' /\ OneEntryEach' BY DEF IInv, OneId, OneEntryEach
<1> QED BY <1>1, <1>2 DEF IInv

\* The steps that change only the worker keep the types, if its record does.
LEMMA OnlyWorker ==
    ASSUME TypeOK, worker' \in Worker, UNCHANGED <<tables, panel, jobs, outlived>>,
           answer' \in Nat
    PROVE  TypeOK'
BY DEF TypeOK, tables

-----------------------------------------------------------------------------
LEMMA BeginKeeps ==
    ASSUME IInv, NEW p \in People, NEW chat \in Chats \cup {NoChat}, NEW step \in
              {"associate", "newGroup", "join", "groupAI", "myAI", "forget", "answer"},
           Begin(p, chat, step)
    PROVE  IInv'
<1>1. users' \in [People -> User] /\ lastUser' \in Nat
  BY StudyGroupsAssumption DEF IInv, TypeOK, Begin, User
<1>2. worker' \in Worker /\ worker'.group = Nothing /\ worker'.pc = step
  BY <1>1, WorkerTypes DEF IInv, Begin, Worker, Steps
<1>3. jobs' \in 0 .. MaxJobs /\ answer' \in Nat
  BY StudyGroupsAssumption DEF IInv, TypeOK, Begin, NoGroup
<1>4. TypeOK'
  BY <1>1, <1>2, <1>3 DEF IInv, TypeOK, Begin
<1> QED BY <1>2, <1>4, TakesAway DEF Begin

LEMMA AssociateKeeps == ASSUME IInv, Associate PROVE IInv'
<1>0. TypeOK /\ worker \in Worker BY DEF IInv, TypeOK
<1>1. CASE /\ \A g \in groups : g.chat # worker.chat
           /\ Goto("autoGroup")
  <2>1. worker' \in Worker /\ worker'.pc = "autoGroup" /\ worker'.group = worker.group
        /\ worker'.chat = worker.chat
    BY <1>0, <1>1, WorkerTypes DEF Goto, Steps, Worker
  <2>2. HeldGroup' /\ LookedUp'
    BY <1>1, <2>1 DEF Associate, tables, IInv, HeldGroup, LookedUp, At
  <2>3. worker'.group.id \in 0 .. lastGroup BY <2>1 DEF IInv, Numbered
  <2>4. TypeOK' BY <1>0, <2>1, OnlyWorker DEF Associate, TypeOK
  <2> QED BY <2>2, <2>3, <2>4, Looks DEF Associate, tables
<1>2. ASSUME NEW g \in groups, GroupOf(worker.chat, g),
             worker' = [worker EXCEPT !.pc = "isMember", !.group = g]
      PROVE  IInv'
  <2>1. g \in Group /\ g.id \in 0 .. lastGroup
    BY DEF IInv, TypeOK, Numbered
  <2>2. worker' \in Worker /\ worker'.pc = "isMember" /\ worker'.group = g
    BY <1>0, <1>2, <2>1 DEF Worker, Steps
  <2>3. HeldGroup' /\ LookedUp'
    BY <2>2 DEF Associate, tables, IInv, HeldGroup, LookedUp, OneEntryEach, At
  <2>4. TypeOK' BY <1>0, <2>2, OnlyWorker DEF Associate, TypeOK
  <2> QED BY <2>1, <2>2, <2>3, <2>4, Looks DEF Associate, tables
<1> QED BY <1>1, <1>2 DEF Associate, GroupOf

LEMMA AutoGroupKeeps == ASSUME IInv, AutoGroup PROVE IInv'
<1>0. TypeOK /\ worker \in Worker /\ worker.chat \in Chats \cup {NoChat}
      /\ worker.group \in Group /\ lastGroup \in Nat
  BY DEF IInv, TypeOK, Worker
<1>1. CASE /\ CreateGroup(worker.chat)
           /\ worker' = [worker EXCEPT !.pc = "addAdmin",
                                       !.group = NewGroupRow(worker.chat)]
  <2> DEFINE new == NewGroupRow(worker.chat)
  <2>1. /\ new \in Group /\ new.id = lastGroup' /\ new.chat = worker.chat
        /\ lastGroup' \in Nat
    BY <1>0, <1>1 DEF CreateGroup, NewGroupRow, Group
  <2>2. groups' = groups \cup {new} BY <1>1 DEF CreateGroup
  <2> HIDE DEF new
  <2>3. worker' \in Worker /\ worker'.pc = "addAdmin" /\ worker'.group = new
    BY <1>0, <1>1, <2>1 DEF Worker, Steps, new
  <2>4. groups' \subseteq Group BY <1>0, <2>1, <2>2 DEF TypeOK
  <2>5. TypeOK' BY <1>0, <2>1, <2>3, <2>4 DEF AutoGroup, TypeOK
  <2>6. \A g \in groups : g.chat # worker.chat
    BY DEF AutoGroup, IInv, LookedUp
  <2> QED BY <1>0, <1>1, <2>1, <2>3, <2>5, <2>6, Creates DEF AutoGroup
<1>2. CASE Goto("answer") /\ UNCHANGED <<groups, lastGroup>>
  <2>1. worker' \in Worker /\ worker'.pc = "answer" /\ worker'.group = worker.group
    BY <1>0, <1>2, WorkerTypes DEF Goto, Steps, Worker
  <2>2. TypeOK' BY <1>0, <1>2, <2>1 DEF AutoGroup, TypeOK
  <2> QED BY <1>2, <2>1, <2>2, TakesAway DEF AutoGroup
<1> QED BY <1>1, <1>2 DEF AutoGroup

\* The three insertions of an entry.
LEMMA AddMemberTypes ==
    ASSUME TypeOK, NEW role \in {"ADMIN", "MEMBER"}, AddMember(role)
    PROVE  members' \subseteq Member /\ lastMember' \in Nat
BY DEF TypeOK, AddMember, Member, Worker, Group, User

LEMMA EntersKeeps ==
    ASSUME IInv, NEW role \in {"ADMIN", "MEMBER"}, AddMember(role),
           ~IsMember(worker.group.id, worker.user.id),
           Goto("activate") \/ Finish,
           UNCHANGED <<users, groups, lastUser, lastGroup, panel, jobs, answer, outlived>>
    PROVE  IInv'
<1>0. TypeOK BY DEF IInv
<1>1. /\ worker' \in Worker /\ worker'.pc \in {"activate", "idle"}
      /\ worker'.group = worker.group \/ worker'.group = Nothing
  <2>1. CASE Goto("activate") BY <1>0, <2>1, WorkerTypes DEF Goto, Steps, Worker
  <2>2. CASE Finish BY <1>0, <2>2, WorkerTypes DEF Finish, Worker
  <2> QED BY <2>1, <2>2
<1>2. TypeOK' BY <1>0, <1>1, AddMemberTypes DEF TypeOK
<1> QED BY <1>1, <1>2, Inserts

\* The steps that leave both tables and end the message or go on to a step
\* that inserts nothing.
LEMMA Leaves ==
    ASSUME IInv, users' \in [People -> User], UNCHANGED groups,
           members' \subseteq members, answer' \in Nat,
           worker' \in Worker, worker'.group = worker.group \/ worker'.group = Nothing,
           worker'.pc \in {"idle", "answer", "activate", "purgeUser"},
           UNCHANGED <<lastUser, lastGroup, lastMember, panel, jobs>>,
           outlived' \subseteq Nat
    PROVE  IInv'
<1>1. TypeOK' BY DEF IInv, TypeOK
<1> QED BY <1>1, TakesAway

\* Finish and Goto, as the lemmas above take them.
LEMMA Moves ==
    ASSUME IInv
    PROVE  /\ Finish => /\ worker' \in Worker /\ worker'.pc = "idle"
                        /\ worker'.group = Nothing
           /\ \A step \in Steps :
                 Goto(step) => /\ worker' \in Worker /\ worker'.pc = step
                               /\ worker'.group = worker.group
                               /\ worker'.chat = worker.chat
                               /\ worker'.user = worker.user
<1>0. TypeOK /\ worker \in Worker BY DEF IInv, TypeOK
<1>1. Finish => /\ worker' \in Worker /\ worker'.pc = "idle"
                /\ worker'.group = Nothing
  BY <1>0, WorkerTypes DEF Finish, Worker
<1>2. ASSUME NEW step \in Steps, Goto(step)
      PROVE  /\ worker' \in Worker /\ worker'.pc = step
             /\ worker'.group = worker.group /\ worker'.chat = worker.chat
             /\ worker'.user = worker.user
  BY <1>0, <1>2, WorkerTypes DEF Goto, Worker
<1> QED BY <1>1, <1>2

LEMMA CheckMemberKeeps == ASSUME IInv, CheckMember PROVE IInv'
<1> DEFINE next == IF IsMember(worker.group.id, worker.user.id) THEN "activate"
                   ELSE "addMember"
<1>0. TypeOK /\ next \in Steps /\ next \in {"activate", "addMember"}
  BY DEF IInv, Steps
<1>1. /\ worker' \in Worker /\ worker'.pc = next
      /\ worker'.group = worker.group /\ worker'.user = worker.user
  BY <1>0, Moves DEF CheckMember
<1>2. HeldGroup' BY <1>1 DEF CheckMember, tables, IInv, HeldGroup
<1>3. LookedUp'
  <2>1. next = "addMember" => ~IsMember(worker.group.id, worker.user.id) OBVIOUS
  <2> HIDE DEF next
  <2> QED BY <1>0, <1>1, <2>1 DEF CheckMember, tables, LookedUp, IsMember, At
<1>4. TypeOK' BY <1>0, <1>1, OnlyWorker DEF CheckMember, TypeOK
<1> QED BY <1>1, <1>2, <1>3, <1>4, Looks DEF CheckMember, tables, IInv, Numbered

LEMMA NewGroupKeeps == ASSUME IInv, NewGroup PROVE IInv'
<1>0. TypeOK /\ worker \in Worker /\ lastGroup \in Nat
  BY DEF IInv, TypeOK
<1>1. CASE /\ CreateGroup(NoChat)
           /\ worker' = [worker EXCEPT !.pc = "newAdmin", !.group = NewGroupRow(NoChat)]
  <2> DEFINE new == NewGroupRow(NoChat)
  <2>1. new \in Group /\ new.id = lastGroup' /\ new.chat = NoChat /\ lastGroup' \in Nat
    BY <1>0, <1>1 DEF CreateGroup, NewGroupRow, Group
  <2>2. groups' = groups \cup {new} BY <1>1 DEF CreateGroup
  <2> HIDE DEF new
  <2>3. worker' \in Worker /\ worker'.pc = "newAdmin" /\ worker'.group = new
    BY <1>0, <1>1, <2>1 DEF Worker, Steps, new
  <2>4. groups' \subseteq Group BY <1>0, <2>1, <2>2 DEF TypeOK
  <2>5. TypeOK' BY <1>0, <2>1, <2>3, <2>4 DEF NewGroup, TypeOK
  <2> QED BY <1>0, <1>1, <2>1, <2>3, <2>5, Creates DEF NewGroup
<1>2. CASE Finish /\ UNCHANGED <<groups, lastGroup>>
  BY <1>0, <1>2, Moves, Leaves DEF NewGroup, TypeOK
<1> QED BY <1>1, <1>2 DEF NewGroup

LEMMA FindGroupKeeps ==
    ASSUME IInv, NEW step \in Steps, NEW next \in {"joined", "isAdmin"},
           FindGroup(step, next)
    PROVE  IInv'
<1>0. TypeOK /\ worker \in Worker BY DEF IInv, TypeOK
<1>1. ASSUME NEW g \in groups, worker' = [worker EXCEPT !.pc = next, !.group = g]
      PROVE  IInv'
  <2>1. g \in Group /\ g.id \in 1 .. lastGroup /\ g.id \in 0 .. lastGroup
        /\ lastGroup \in Nat
    BY DEF IInv, TypeOK, Numbered
  <2>2. worker' \in Worker /\ worker'.pc = next /\ worker'.group = g
    BY <1>0, <1>1, <2>1 DEF Worker, Steps
  <2>3. HeldGroup' BY <2>2 DEF FindGroup, tables, IInv, HeldGroup, OneEntryEach
  <2>4. LookedUp' BY <2>1, <2>2 DEF LookedUp, NoGroup, At
  <2>5. TypeOK' BY <1>0, <2>2, OnlyWorker DEF FindGroup, TypeOK
  <2> QED BY <2>1, <2>2, <2>3, <2>4, <2>5, Looks DEF FindGroup, tables
<1>2. CASE Finish
  BY <1>0, <1>2, Moves, Leaves DEF FindGroup, tables, TypeOK
<1> QED BY <1>1, <1>2 DEF FindGroup

LEMMA CheckAdminKeeps == ASSUME IInv, CheckAdmin PROVE IInv'
<1>0. TypeOK /\ worker \in Worker /\ worker.group \in Group BY DEF IInv, TypeOK, Worker
<1>1. CASE worker' = [worker EXCEPT !.pc = "saveGroup", !.group.shared = TRUE]
  <2> DEFINE g == [worker.group EXCEPT !.shared = TRUE]
  <2>1. g \in Group /\ g.id = worker.group.id /\ g.chat = worker.group.chat
    BY <1>0 DEF Group
  <2>2. worker' = [worker EXCEPT !.pc = "saveGroup", !.group = g] BY <1>1
  <2> HIDE DEF g
  <2>3. worker' \in Worker /\ worker'.pc = "saveGroup" /\ worker'.group = g
    BY <1>0, <2>1, <2>2 DEF Worker, Steps
  <2>4. HeldGroup' BY <2>1, <2>3 DEF CheckAdmin, tables, IInv, HeldGroup
  <2>5. LookedUp' BY <2>1, <2>3 DEF CheckAdmin, IInv, LookedUp, At
  <2>6. TypeOK' BY <1>0, <2>3, OnlyWorker DEF CheckAdmin, TypeOK
  <2> QED BY <2>1, <2>3, <2>4, <2>5, <2>6, Looks DEF CheckAdmin, tables, IInv, Numbered
<1>2. CASE Finish
  BY <1>0, <1>2, Moves, Leaves DEF CheckAdmin, tables, TypeOK
<1> QED BY <1>1, <1>2 DEF CheckAdmin

LEMMA GroupAIKeeps == ASSUME IInv, GroupAI PROVE IInv'
<1>0. TypeOK /\ worker.group \in Group BY DEF IInv, TypeOK, Worker
<1>1. worker' \in Worker /\ worker'.pc = "idle" /\ worker'.group = Nothing
  BY Moves DEF GroupAI
<1>2. TypeOK' BY <1>0, <1>1 DEF GroupAI, TypeOK, SaveGroup
<1>3. worker.group.id # NoGroup BY DEF GroupAI, At, IInv, LookedUp
<1> QED BY <1>1, <1>2, <1>3, Saves DEF GroupAI

LEMMA ActivateKeeps == ASSUME IInv, Activate PROVE IInv'
<1> DEFINE row == [worker.user EXCEPT !.active = worker.group.id]
<1>0. TypeOK /\ worker \in Worker /\ worker.who \in People /\ worker.group \in Group
      /\ worker.user \in User
  BY WorkerTypes DEF IInv
<1>1. row \in User BY <1>0 DEF User, Group
<1>2. SaveUser(worker.who, row) /\ worker' = [worker EXCEPT !.pc = "answer", !.user = row]
  BY DEF Activate
<1> HIDE DEF row
<1>3. worker' \in Worker /\ worker'.pc = "answer" /\ worker'.group = worker.group
  BY <1>0, <1>1, <1>2 DEF Worker, Steps
<1>4. users' \in [People -> User] /\ outlived' \subseteq Nat
  BY <1>0, <1>1, <1>2, SaveUserTypes
<1> QED BY <1>0, <1>3, <1>4, Leaves DEF Activate, TypeOK

LEMMA WorkerKeeps == IInv /\ WorkerStep => IInv'
<1> SUFFICES ASSUME IInv, WorkerStep PROVE IInv' OBVIOUS
<1>0. TypeOK /\ worker \in Worker /\ worker.who \in People /\ worker.user \in User
      /\ users \in [People -> User] /\ answer \in Nat /\ outlived \subseteq Nat
  BY WorkerTypes DEF IInv, TypeOK
<1>1. CASE Associate \/ AutoGroup \/ CheckMember \/ NewGroup \/ Activate
           \/ CheckAdmin \/ GroupAI
  BY <1>1, AssociateKeeps, AutoGroupKeeps, CheckMemberKeeps, NewGroupKeeps,
     ActivateKeeps, CheckAdminKeeps, GroupAIKeeps
<1>2. CASE AddAdmin \/ EnterGroup \/ NewAdmin
  <2>1. ~IsMember(worker.group.id, worker.user.id)
    BY <1>2 DEF AddAdmin, EnterGroup, NewAdmin, At, IInv, LookedUp
  <2> QED BY <1>2, <2>1, EntersKeeps DEF AddAdmin, EnterGroup, NewAdmin
<1>3. CASE Answer
  <2>1. answer' \in Nat BY <1>0, <1>3 DEF Answer, NoGroup, User
  <2> QED BY <1>0, <1>3, <2>1, Moves, Leaves DEF Answer, tables
<1>4. CASE StaySilent
  BY <1>0, <1>4, Moves, Leaves DEF StaySilent, tables
<1>5. CASE FindGroup("join", "joined") \/ FindGroup("groupAI", "isAdmin")
  BY <1>5, FindGroupKeeps DEF Steps
<1>6. CASE Join
  <2>1. CASE Finish /\ UNCHANGED <<members, lastMember>>
    BY <1>0, <1>6, <2>1, Moves, Leaves DEF Join
  <2>2. CASE /\ ~IsMember(worker.group.id, worker.user.id)
             /\ AddMember("MEMBER") /\ Finish
    BY <1>6, <2>2, EntersKeeps DEF Join
  <2> QED BY <1>6, <2>1, <2>2 DEF Join
<1>7. CASE MyAI
  <2>1. [worker.user EXCEPT !.personal = TRUE] \in User BY <1>0 DEF User
  <2>2. users' \in [People -> User] /\ outlived' \subseteq Nat
    BY <1>0, <1>7, <2>1, SaveUserTypes DEF MyAI
  <2> QED BY <1>0, <1>7, <2>2, Moves, Leaves DEF MyAI
<1>8. CASE Forget
  <2>1. Goto("purgeUser") /\ "purgeUser" \in Steps BY <1>8 DEF Forget, Steps
  <2>2. /\ worker' \in Worker /\ worker'.pc = "purgeUser"
        /\ worker'.group = worker.group
    BY <2>1, Moves
  <2> QED BY <1>0, <1>8, <2>2, Leaves DEF Forget, PurgeMemberships
<1>9. CASE ForgetUser
  <2>1. users' \in [People -> User] BY <1>0, <1>9, PurgeUserTypes DEF ForgetUser
  <2> QED BY <1>0, <1>9, <2>1, Moves, Leaves DEF ForgetUser
<1> QED BY <1>1, <1>2, <1>3, <1>4, <1>5, <1>6, <1>7, <1>8, <1>9 DEF WorkerStep

\* The panel takes rows away, or saves one of users, which no double concerns.
LEMMA PanelKeeps ==
    IInv /\ (PanelStep \/ PanelWipe \/ Restart \/ \E p \in People : PanelRead(p)) => IInv'
<1> SUFFICES ASSUME IInv, PanelStep \/ PanelWipe \/ Restart \/ \E p \in People : PanelRead(p)
             PROVE  IInv'
  OBVIOUS
<1>0. TypeOK /\ panel.who \in People /\ panel.user \in User /\ NoUser \in User
  BY WorkerTypes DEF IInv, TypeOK
<1>1. users' \in [People -> User]
  <2>1. CASE PanelSave BY <1>0, <2>1, SaveUserTypes DEF PanelSave
  <2>2. CASE PanelPurgeUser BY <1>0, <2>2, PurgeUserTypes DEF PanelPurgeUser
  <2>3. CASE WipeUsers BY <1>0, <2>3 DEF WipeUsers
  <2> QED BY <1>0, <2>1, <2>2, <2>3
       DEF PanelStep, PanelPurgeMembers, WipeMembers, WipeGroups, PanelWipe, Restart,
           PanelRead, tables, TypeOK
<1>2. groups' \subseteq groups /\ members' \subseteq members
      /\ UNCHANGED <<lastUser, lastGroup, lastMember, jobs, answer>>
  BY DEF PanelStep, PanelSave, PanelPurgeMembers, PanelPurgeUser, PurgeMemberships,
         WipeMembers, WipeGroups, WipeUsers, PanelWipe, Restart, PanelRead, tables
<1>3. \/ UNCHANGED worker
      \/ worker' \in Worker /\ worker'.pc = "idle" /\ worker'.group = Nothing
  BY Moves DEF PanelStep, PanelSave, PanelPurgeMembers, PanelPurgeUser, WipeMembers,
               WipeGroups, WipeUsers, PanelWipe, Restart, PanelRead
<1>4. panel' \in [pc : PanelSteps, who : People, user : User]
  <2>1. ASSUME NEW p \in People, PanelRead(p)
        PROVE  panel' \in [pc : PanelSteps, who : People, user : User]
    BY <1>0, <2>1 DEF PanelRead, PanelSteps, TypeOK
  <2>2. CASE PanelStep \/ PanelWipe \/ Restart
    BY <1>0, <2>2 DEF PanelStep, PanelSave, PanelPurgeMembers, PanelPurgeUser,
       WipeMembers, WipeGroups, WipeUsers, PanelWipe, Restart, PanelDone, PanelGoto,
       PanelSteps, TypeOK
  <2> QED BY <2>1, <2>2
<1>5. outlived' \subseteq Nat
  <2>1. CASE PanelSave BY <1>0, <2>1, SaveUserTypes DEF PanelSave
  <2>2. CASE Restart BY <1>0, <2>2 DEF Restart, TypeOK, User
  <2> QED BY <1>0, <2>1, <2>2
       DEF PanelStep, PanelPurgeUser, WipeUsers, PanelPurgeMembers, WipeMembers, WipeGroups,
           PanelWipe, PanelRead, TypeOK
<1>6. TypeOK' BY <1>0, <1>1, <1>2, <1>3, <1>4, <1>5 DEF TypeOK
<1> QED BY <1>2, <1>3, <1>6, TakesAway

LEMMA Inductive == IInv /\ [Next]_vars => IInv'
<1> SUFFICES ASSUME IInv, [Next]_vars PROVE IInv' OBVIOUS
<1>1. ASSUME NEW p \in People, Message(p) PROVE IInv'
  <2>1. ASSUME NEW c \in Chats, Begin(p, c, "associate") PROVE IInv'
    BY <2>1, BeginKeeps
  <2>2. ASSUME NEW step \in {"newGroup", "join", "groupAI", "myAI", "forget", "answer"},
               Begin(p, NoChat, step)
        PROVE  IInv'
    BY <2>2, BeginKeeps
  <2> QED BY <1>1, <2>1, <2>2 DEF Message
<1>2. CASE UNCHANGED vars
  BY <1>2 DEF vars, tables, IInv, TypeOK, Numbered, HeldGroup, LookedUp, OneId,
              OneEntryEach, At, IsMember
<1> QED BY <1>1, <1>2, WorkerKeeps, PanelKeeps DEF Next

LEMMA Invariance == Spec => []IInv
BY Initially, Inductive, PTL DEF Spec

-----------------------------------------------------------------------------
(* Whose AI answers. *)

\* Ids of students are those given out so far, and no row in hand has none.
UserIds ==
    /\ \A p \in People : /\ users[p].id \in 0 .. lastUser
                         /\ users[p] # NoUser => users[p].id # 0
    /\ worker.user.id \in 0 .. lastUser
    /\ worker.pc # "idle" => worker.user.id # 0
    /\ panel.user.id \in 0 .. lastUser
    /\ panel.pc = "save" => panel.user.id # 0

\* The student has an entry in the group, but for the erasures.
Backed(g, id) == g # NoGroup => IsMember(g, id) \/ Erasing(id) \/ id \in outlived

\* Every row's active group is backed, and so is that of a copy in hand as long
\* as the table has the row: the save may then put it back.
RowsBacked == \A p \in People : Backed(users[p].active, users[p].id)
CopyBacked ==
    worker.pc # "idle" /\ users[worker.who].id = worker.user.id =>
        /\ Backed(worker.user.active, worker.user.id)
        /\ worker.pc = "activate" => Backed(worker.group.id, worker.user.id)
PanelBacked ==
    panel.pc = "save" /\ users[panel.who].id = panel.user.id =>
        Backed(panel.user.active, panel.user.id)

\* In a chat, the worker's group is that chat's, and becomes the active one.
InChat == {"addAdmin", "isMember", "addMember", "activate", "answer"}
ChatsGroup ==
    /\ worker.pc \in InChat /\ worker.group # Nothing =>
          \A g \in groups : g.id = worker.group.id => g.chat = worker.chat
    /\ worker.pc = "answer" /\ worker.group # Nothing =>
          worker.user.active = worker.group.id
    /\ worker.pc \in {"associate", "autoGroup"} => worker.group = Nothing
    /\ worker.pc # "idle" => answer = NoGroup

SInv == UserIds /\ RowsBacked /\ CopyBacked /\ PanelBacked /\ ChatsGroup

\* What backs an active group stays: no entry is taken and no erasure ends.
Holds == /\ members \subseteq members' /\ outlived \subseteq outlived'
         /\ \A id \in Nat : Erasing(id) => Erasing(id)'

LEMMA StaysBacked ==
    ASSUME Holds, NEW g, NEW id \in Nat, Backed(g, id)
    PROVE  Backed(g, id)'
BY DEF Holds, Backed, IsMember

\* The types these facts rest on.
LEMMA RowTypes ==
    ASSUME IInv
    PROVE  /\ users \in [People -> User] /\ \A p \in People : users[p].id \in Nat
           /\ worker \in Worker /\ worker.who \in People /\ worker.user \in User
           /\ worker.user.id \in Nat /\ worker.group \in Group
           /\ panel \in [pc : PanelSteps, who : People, user : User]
           /\ panel.who \in People /\ panel.user \in User /\ panel.user.id \in Nat
           /\ lastUser \in Nat /\ NoUser.id = 0 /\ NoUser.active = NoGroup
BY WorkerTypes DEF IInv, TypeOK, User, NoUser

LEMMA InitiallyBacked == Init => SInv
<1> SUFFICES ASSUME Init PROVE SInv OBVIOUS
<1>1. worker.pc = "idle" /\ worker.user = NoUser BY DEF Init
<1>2. UserIds BY <1>1 DEF Init, UserIds, NoUser
<1> QED BY <1>1, <1>2 DEF Init, SInv, RowsBacked, CopyBacked, PanelBacked, ChatsGroup,
             InChat, Backed, NoUser

\* A step of the worker that leaves users alone and takes no entry away.
LEMMA WorkerOnly ==
    ASSUME IInv, IInv', SInv, UNCHANGED <<users, lastUser, panel, outlived>>,
           members \subseteq members',
           worker.pc \notin {"idle", "purgeUser"},
           \/ worker'.pc = "idle" /\ worker'.user = NoUser
           \/ worker'.pc # "idle" /\ worker'.user = worker.user /\ worker'.who = worker.who,
           worker'.pc = "activate" => IsMember(worker.group.id, worker.user.id)',
           ChatsGroup'
    PROVE  SInv'
<1>1. Holds BY DEF Holds, Erasing, At
<1>2. UserIds' BY RowTypes DEF SInv, UserIds
<1>3. RowsBacked' BY <1>1, StaysBacked, RowTypes DEF SInv, RowsBacked
<1>4. CopyBacked'
  <2> SUFFICES ASSUME worker'.pc # "idle", users'[worker'.who].id = worker'.user.id
               PROVE  /\ Backed(worker.user.active, worker.user.id)'
                      /\ worker'.pc = "activate" => Backed(worker.group.id, worker.user.id)'
    BY DEF CopyBacked
  <2>1. Backed(worker.user.active, worker.user.id)
    BY DEF SInv, CopyBacked
  <2>2. Backed(worker.user.active, worker.user.id)' BY <1>1, <2>1, StaysBacked, RowTypes
  <2> QED BY <2>2 DEF Backed
<1>5. PanelBacked' BY <1>1, StaysBacked, RowTypes DEF SInv, PanelBacked
<1> QED BY <1>2, <1>3, <1>4, <1>5 DEF SInv

\* The end of a message in which nothing else changes.
LEMMA Ends ==
    ASSUME IInv, IInv', SInv, UNCHANGED <<users, lastUser, panel, outlived>>,
           members \subseteq members',
           worker.pc \notin {"idle", "purgeUser"}, Finish
    PROVE  SInv'
<1>1. worker'.pc = "idle" /\ worker'.user = NoUser BY RowTypes DEF Finish, Worker
<1>2. ChatsGroup' BY <1>1 DEF ChatsGroup, InChat
<1> QED BY <1>1, <1>2, WorkerOnly

LEMMA ChatBacked ==
    ASSUME IInv, IInv', SInv,
           Associate \/ AutoGroup \/ AddAdmin \/ CheckMember \/ EnterGroup
    PROVE  SInv'
<1>0. /\ TypeOK /\ worker \in Worker /\ worker.group \in Group /\ lastGroup \in Nat
      /\ \A step \in Steps : [worker EXCEPT !.pc = step] \in Worker
      /\ UNCHANGED <<users, lastUser, panel, outlived, answer>>
      /\ members \subseteq members'
      /\ worker.pc \notin {"idle", "purgeUser"} /\ answer = NoGroup
  BY WorkerTypes DEF IInv, TypeOK, Associate, AutoGroup, AddAdmin, CheckMember, EnterGroup,
     tables, At, AddMember, SInv, ChatsGroup
<1>1. CASE Associate
  <2>1. CASE Goto("autoGroup")
    <3>1. /\ worker'.pc = "autoGroup" /\ worker'.group = worker.group
          /\ worker'.user = worker.user /\ worker'.who = worker.who
      BY <1>0, <2>1 DEF Goto, Worker
    <3>2. ChatsGroup'
      BY <1>0, <1>1, <3>1 DEF Associate, At, SInv, ChatsGroup, InChat
    <3> QED BY <1>0, <3>1, <3>2, WorkerOnly
  <2>2. ASSUME NEW g \in groups, GroupOf(worker.chat, g),
               worker' = [worker EXCEPT !.pc = "isMember", !.group = g]
        PROVE  SInv'
    <3>1. /\ worker'.pc = "isMember" /\ worker'.group = g /\ worker'.chat = worker.chat
          /\ worker'.user = worker.user /\ worker'.who = worker.who
      BY <1>0, <2>2 DEF Worker
    <3>2. ChatsGroup'
      BY <1>0, <1>1, <2>2, <3>1 DEF Associate, tables, ChatsGroup, InChat, GroupOf, IInv, OneId
    <3> QED BY <1>0, <3>1, <3>2, WorkerOnly
  <2> QED BY <1>1, <2>1, <2>2 DEF Associate, GroupOf
<1>2. CASE AutoGroup
  <2>1. CASE CreateGroup(worker.chat)
             /\ worker' = [worker EXCEPT !.pc = "addAdmin",
                                         !.group = NewGroupRow(worker.chat)]
    <3> DEFINE new == NewGroupRow(worker.chat)
    <3>1. /\ worker'.pc = "addAdmin" /\ worker'.group = new /\ worker'.chat = worker.chat
          /\ worker'.user = worker.user /\ worker'.who = worker.who
      BY <1>0, <2>1 DEF Worker
    <3>2. new \in groups' /\ new.chat = worker.chat
      BY <2>1 DEF CreateGroup, NewGroupRow
    <3> HIDE DEF new
    <3>3. ChatsGroup' BY <1>0, <3>1, <3>2 DEF ChatsGroup, InChat, IInv, OneId
    <3> QED BY <1>0, <3>1, <3>3, WorkerOnly
  <2>2. CASE Goto("answer") /\ UNCHANGED <<groups, lastGroup>>
    <3>1. /\ worker'.pc = "answer" /\ worker'.group = worker.group
          /\ worker'.user = worker.user /\ worker'.who = worker.who
      BY <1>0, <2>2 DEF Goto, Worker
    <3>2. ChatsGroup' BY <1>0, <1>2, <3>1 DEF AutoGroup, At, SInv, ChatsGroup, InChat
    <3> QED BY <1>0, <3>1, <3>2, WorkerOnly
  <2> QED BY <1>2, <2>1, <2>2 DEF AutoGroup
<1>3. CASE CheckMember
  <2> DEFINE next == IF IsMember(worker.group.id, worker.user.id) THEN "activate"
                     ELSE "addMember"
  <2>0. /\ next \in {"activate", "addMember"}
        /\ next = "activate" => IsMember(worker.group.id, worker.user.id)
        /\ worker' = [worker EXCEPT !.pc = next]
    BY <1>3 DEF CheckMember, Goto
  <2> HIDE DEF next
  <2>1. /\ worker'.pc = next /\ worker'.group = worker.group /\ worker'.chat = worker.chat
        /\ worker'.user = worker.user /\ worker'.who = worker.who
    BY <1>0, <2>0 DEF Worker
  <2>2. ChatsGroup'
    BY <1>0, <1>3, <2>0, <2>1 DEF CheckMember, At, tables, SInv, ChatsGroup, InChat
  <2>3. worker'.pc = "activate" => IsMember(worker.group.id, worker.user.id)'
    BY <1>0, <2>0, <2>1 DEF IsMember
  <2> QED BY <1>0, <2>0, <2>1, <2>2, <2>3, WorkerOnly
<1>4. CASE AddAdmin \/ EnterGroup
  <2>1. Goto("activate") /\ worker.pc \in {"addAdmin", "addMember"} /\ groups' = groups
    BY <1>4 DEF AddAdmin, EnterGroup, At
  <2>2. /\ worker'.pc = "activate" /\ worker'.group = worker.group
        /\ worker'.chat = worker.chat
        /\ worker'.user = worker.user /\ worker'.who = worker.who
    BY <1>0, <2>1 DEF Goto, Worker
  <2>3. IsMember(worker.group.id, worker.user.id)'
    <3>1. PICK role \in {"ADMIN", "MEMBER"} : AddMember(role)
      BY <1>4 DEF AddAdmin, EnterGroup
    <3> DEFINE new == [no |-> lastMember', group |-> worker.group.id,
                       user |-> worker.user.id, role |-> role]
    <3>2. new.group = worker.group.id /\ new.user = worker.user.id OBVIOUS
    <3>3. new \in members' BY <3>1 DEF AddMember
    <3> HIDE DEF new
    <3> QED BY <2>2, <3>2, <3>3 DEF IsMember
  <2>4. ChatsGroup' BY <1>0, <2>1, <2>2 DEF SInv, ChatsGroup, InChat
  <2> QED BY <1>0, <2>2, <2>3, <2>4, WorkerOnly
<1> QED BY <1>1, <1>2, <1>3, <1>4

LEMMA DirectBacked ==
    ASSUME IInv, IInv', SInv,
           \/ Answer \/ StaySilent \/ NewGroup \/ NewAdmin \/ FindGroup("join", "joined")
           \/ Join \/ FindGroup("groupAI", "isAdmin") \/ CheckAdmin \/ GroupAI
    PROVE  SInv'
<1>0. /\ TypeOK /\ worker \in Worker /\ worker.pc \notin {"idle", "purgeUser"}
      /\ UNCHANGED <<users, lastUser, panel, outlived>> /\ members \subseteq members'
  BY DEF IInv, TypeOK, Answer, StaySilent, NewGroup, NewAdmin, FindGroup, Join, CheckAdmin,
         GroupAI, At, tables, AddMember
<1>1. CASE Finish BY <1>0, <1>1, Ends
<1>2. ASSUME NEW next \in {"newAdmin", "joined", "isAdmin", "saveGroup"}, NEW g,
             worker' = [worker EXCEPT !.pc = next, !.group = g], answer' = answer
      PROVE  SInv'
  <2>1. /\ worker'.pc = next /\ worker'.user = worker.user /\ worker'.who = worker.who
    BY <1>0, <1>2 DEF Worker
  <2>2. ChatsGroup' BY <1>0, <1>2, <2>1 DEF SInv, ChatsGroup, InChat
  <2> QED BY <1>0, <2>1, <2>2, WorkerOnly
<1>3. CASE CheckAdmin /\ ~Finish
  <2>1. worker' = [worker EXCEPT !.pc = "saveGroup",
                                 !.group = [worker.group EXCEPT !.shared = TRUE]]
        /\ answer' = answer
    BY <1>3 DEF CheckAdmin
  <2> QED BY <1>2, <2>1
<1>4. CASE (NewGroup \/ FindGroup("join", "joined") \/ FindGroup("groupAI", "isAdmin"))
           /\ ~Finish
  BY <1>2, <1>4 DEF NewGroup, FindGroup
<1>5. Answer \/ StaySilent \/ NewAdmin \/ Join \/ GroupAI => Finish
  BY DEF Answer, StaySilent, NewAdmin, Join, GroupAI
<1> QED BY <1>1, <1>3, <1>4, <1>5

\* A save of a whole row, on time or late.  What it brings back has outlived its
\* erasure, and what it replaces was backed.
LEMMA Saving ==
    ASSUME IInv, SInv, Holds, lastUser' = lastUser,
           NEW p \in People, NEW row \in User, SaveUser(p, row),
           row.id \in 0 .. lastUser, row.id # 0,
           users[p].id = row.id => Backed(row.active, row.id)
    PROVE  /\ \A q \in People : /\ users'[q].id \in 0 .. lastUser'
                                /\ users'[q] # NoUser => users'[q].id # 0
           /\ RowsBacked'
           /\ \A q \in People : users'[q].id = users[q].id \/ users'[q].id \in outlived'
<1>1. /\ users \in [People -> User] /\ row.id \in Nat
      /\ \A q \in People : users'[q] = IF q = p /\ (users[p] = NoUser \/ users[p].id = row.id)
                                       THEN row ELSE users[q]
      /\ users[p] = NoUser => row.id \in outlived'
  BY RowTypes DEF SaveUser, User
<1>2. \A q \in People : /\ users'[q].id \in 0 .. lastUser'
                        /\ users'[q] # NoUser => users'[q].id # 0
  BY <1>1 DEF SInv, UserIds
<1>3. ASSUME NEW q \in People PROVE Backed(users[q].active, users[q].id)'
  <2>1. CASE users'[q] = users[q]
    <3>1. Backed(users[q].active, users[q].id) BY DEF SInv, RowsBacked
    <3>2. users[q].id \in Nat BY RowTypes
    <3> QED BY <2>1, <3>1, <3>2, StaysBacked
  <2>2. CASE users'[q] = row /\ users[p] = NoUser
    BY <1>1, <2>2 DEF Backed
  <2>3. CASE users'[q] = row /\ users[p].id = row.id
    BY <1>1, <2>3, StaysBacked
  <2> QED BY <1>1, <2>1, <2>2, <2>3
<1>4. \A q \in People : users'[q].id = users[q].id \/ users'[q].id \in outlived'
  BY <1>1
<1> QED BY <1>2, <1>3, <1>4 DEF RowsBacked

LEMMA ActivateBacked == ASSUME IInv, IInv', SInv, Activate PROVE SInv'
<1> PICK row : row = [worker.user EXCEPT !.active = worker.group.id] OBVIOUS
<1>0. TypeOK /\ worker \in Worker /\ worker.who \in People /\ worker.group \in Group
      /\ worker.user \in User /\ worker.user.id \in Nat
  BY RowTypes DEF IInv
<1>1. row \in User /\ row.id = worker.user.id /\ row.active = worker.group.id
  BY <1>0 DEF User, Group
<1>2. SaveUser(worker.who, row) /\ worker' = [worker EXCEPT !.pc = "answer", !.user = row]
  BY DEF Activate
<1>3. /\ worker'.pc = "answer" /\ worker'.group = worker.group /\ worker'.user = row
      /\ worker'.who = worker.who /\ worker'.chat = worker.chat
      /\ worker.pc = "activate" /\ UNCHANGED <<groups, members, lastUser, panel, answer>>
  BY <1>0, <1>1, <1>2 DEF Worker, Activate, At
<1>4. Holds BY <1>2, <1>3 DEF Holds, Erasing, At, SaveUser
<1>5. users[worker.who].id = row.id => Backed(row.active, row.id)
  BY <1>1, <1>3 DEF SInv, CopyBacked
<1>6. row.id \in 0 .. lastUser /\ row.id # 0 BY <1>1, <1>3 DEF SInv, UserIds
<1>7. /\ \A q \in People : /\ users'[q].id \in 0 .. lastUser'
                           /\ users'[q] # NoUser => users'[q].id # 0
      /\ RowsBacked'
      /\ \A q \in People : users'[q].id = users[q].id \/ users'[q].id \in outlived'
  BY <1>0, <1>1, <1>2, <1>3, <1>4, <1>5, <1>6, Saving
<1>8. UserIds' BY <1>1, <1>3, <1>6, <1>7 DEF SInv, UserIds
<1>9. CopyBacked'
  <2>1. users'[worker.who].id = row.id => Backed(row.active, row.id)'
    <3>1. CASE users[worker.who].id = row.id
      BY <1>0, <1>1, <1>4, <1>5, <3>1, StaysBacked, <1>3 DEF Backed
    <3>2. CASE users'[worker.who].id # users[worker.who].id
      BY <1>0, <1>1, <1>3, <1>7, <3>2 DEF Backed
    <3> QED BY <3>1, <3>2
  <2> QED BY <1>3, <2>1 DEF CopyBacked, Backed
<1>10. PanelBacked'
  BY <1>3, <1>4, <1>7, StaysBacked, RowTypes DEF SInv, PanelBacked, Backed
<1>11. ChatsGroup' BY <1>1, <1>3 DEF SInv, ChatsGroup, InChat
<1> QED BY <1>7, <1>8, <1>9, <1>10, <1>11 DEF SInv

LEMMA MyAIBacked == ASSUME IInv, IInv', SInv, MyAI PROVE SInv'
<1> DEFINE row == [worker.user EXCEPT !.personal = TRUE]
<1>0. worker.who \in People /\ worker \in Worker /\ worker.user \in User
  BY RowTypes
<1>1. row \in User /\ row.id = worker.user.id /\ row.active = worker.user.active
  BY <1>0 DEF User
<1>2. SaveUser(worker.who, row) BY DEF MyAI
<1> HIDE DEF row
<1>3. /\ worker'.pc = "idle" /\ worker'.user = NoUser
      /\ worker.pc = "myAI" /\ UNCHANGED <<groups, members, lastUser, panel, answer>>
  BY <1>0 DEF MyAI, Finish, Worker, At
<1>4. Holds BY <1>2, <1>3 DEF Holds, Erasing, At, SaveUser
<1>5. users[worker.who].id = row.id => Backed(row.active, row.id)
  BY <1>1, <1>3 DEF SInv, CopyBacked
<1>6. row.id \in 0 .. lastUser /\ row.id # 0 BY <1>1, <1>3 DEF SInv, UserIds
<1>7. /\ \A q \in People : /\ users'[q].id \in 0 .. lastUser'
                           /\ users'[q] # NoUser => users'[q].id # 0
      /\ RowsBacked'
      /\ \A q \in People : users'[q].id = users[q].id \/ users'[q].id \in outlived'
  BY <1>0, <1>1, <1>2, <1>3, <1>4, <1>5, <1>6, Saving
<1>8. UserIds' BY <1>3, <1>7, RowTypes DEF SInv, UserIds
<1>9. PanelBacked'
  BY <1>3, <1>4, <1>7, StaysBacked, RowTypes DEF SInv, PanelBacked, Backed
<1>10. CopyBacked' /\ ChatsGroup' BY <1>3 DEF CopyBacked, ChatsGroup, InChat
<1> QED BY <1>7, <1>8, <1>9, <1>10 DEF SInv

\* eraseUser of /forget: the entries go and then the row, and between the two
\* the erasure is under way.
LEMMA ForgetBacked ==
    ASSUME IInv, IInv', SInv, Forget \/ ForgetUser PROVE SInv'
<1>0. /\ worker \in Worker /\ worker.who \in People /\ users \in [People -> User]
      /\ worker.user.id \in Nat
  BY RowTypes
<1>1. CASE Forget
  <2>1. /\ worker'.pc = "purgeUser" /\ worker'.user = worker.user
        /\ worker'.who = worker.who /\ worker.pc = "forget"
        /\ UNCHANGED <<users, groups, lastUser, panel, answer, outlived>>
    BY <1>0, <1>1 DEF Forget, Goto, Worker, At
  <2>2. ASSUME NEW g, NEW id \in Nat, Backed(g, id) PROVE Backed(g, id)'
    <3>1. CASE id = worker.user.id BY <2>1, <3>1 DEF Backed, Erasing, At
    <3>2. CASE id # worker.user.id /\ IsMember(g, id)
      BY <1>1, <3>2 DEF Forget, PurgeMemberships, IsMember, Backed
    <3>3. CASE id # worker.user.id /\ ~IsMember(g, id)
      BY <2>1, <2>2, <3>3 DEF Backed, Erasing, At
    <3> QED BY <3>1, <3>2, <3>3
  <2>3. UserIds' BY <2>1 DEF SInv, UserIds
  <2>4. RowsBacked' BY <2>1, <2>2, RowTypes DEF SInv, RowsBacked
  <2>5. CopyBacked' BY <2>1, <2>2, RowTypes DEF SInv, CopyBacked
  <2>6. PanelBacked' BY <2>1, <2>2, RowTypes DEF SInv, PanelBacked
  <2>7. ChatsGroup' BY <2>1 DEF SInv, ChatsGroup, InChat
  <2> QED BY <2>3, <2>4, <2>5, <2>6, <2>7 DEF SInv
<1>2. CASE ForgetUser
  <2>1. /\ worker.pc = "purgeUser" /\ worker'.pc = "idle" /\ worker'.user = NoUser
        /\ UNCHANGED <<groups, members, lastUser, panel, answer, outlived>>
        /\ \A p \in People : users'[p] = IF users[p].id = worker.user.id THEN NoUser
                                         ELSE users[p]
    BY <1>0, <1>2 DEF ForgetUser, Finish, Worker, At, PurgeUser
  <2>2. ASSUME NEW g, NEW id \in Nat, Backed(g, id), id # worker.user.id
        PROVE  Backed(g, id)'
    BY <2>1, <2>2 DEF Backed, IsMember, Erasing, At
  <2>3. NoUser.id = 0 /\ NoUser.active = NoGroup /\ worker.user.id # 0
    BY <2>1 DEF NoUser, SInv, UserIds
  <2>4. UserIds' BY <2>1, <2>3, RowTypes DEF SInv, UserIds
  <2>5. RowsBacked'
    <3>1. ASSUME NEW p \in People PROVE Backed(users[p].active, users[p].id)'
      <4>1. CASE users[p].id = worker.user.id BY <2>1, <2>3, <4>1 DEF Backed
      <4>2. CASE users[p].id # worker.user.id
        BY <2>1, <2>2, <4>2, RowTypes DEF SInv, RowsBacked
      <4> QED BY <4>1, <4>2
    <3> QED BY <3>1 DEF RowsBacked
  <2>6. PanelBacked'
    <3>1. CASE panel.pc = "save" /\ users'[panel.who].id = panel.user.id
      <4>1. users[panel.who].id = panel.user.id /\ panel.user.id # worker.user.id
        BY <2>1, <2>3, <3>1, RowTypes DEF SInv, UserIds
      <4> QED BY <2>1, <2>2, <3>1, <4>1, RowTypes DEF SInv, PanelBacked
    <3> QED BY <2>1, <3>1 DEF PanelBacked
  <2>7. CopyBacked' /\ ChatsGroup' BY <2>1 DEF CopyBacked, ChatsGroup, InChat
  <2> QED BY <2>4, <2>5, <2>6, <2>7 DEF SInv
<1> QED BY <1>1, <1>2

\* The row the message works with: the table's, or a new one.
LEMMA BeginBacked ==
    ASSUME IInv, IInv', SInv, NEW p \in People, NEW chat, NEW step \in
              {"associate", "newGroup", "join", "groupAI", "myAI", "forget", "answer"},
           Begin(p, chat, step)
    PROVE  SInv'
<1>0. /\ users \in [People -> User] /\ users' \in [People -> User] /\ worker.pc = "idle"
      /\ lastUser \in Nat
  BY RowTypes DEF IInv, TypeOK, Begin, At
<1>1. /\ worker'.pc = step /\ worker'.user = users'[p] /\ worker'.who = p
      /\ worker'.group = Nothing
      /\ UNCHANGED <<groups, members, panel, outlived>> /\ answer' = NoGroup
  BY DEF Begin
<1>2. /\ \A q \in People : q # p \/ users[p] # NoUser => users'[q] = users[q]
      /\ users[p] # NoUser => lastUser' = lastUser
      /\ users[p] = NoUser => /\ lastUser' = lastUser + 1 /\ users'[p].id = lastUser'
                              /\ users'[p].active = NoGroup
  BY <1>0 DEF Begin, User, NoUser
<1>3. Holds BY <1>0, <1>1 DEF Holds, Erasing, At
<1>4. UserIds' BY <1>0, <1>1, <1>2 DEF SInv, UserIds
<1>5. \A q \in People : Backed(users[q].active, users[q].id)'
  <2> TAKE q \in People
  <2>1. CASE users'[q] = users[q]
    <3>1. Backed(users[q].active, users[q].id) BY DEF SInv, RowsBacked
    <3> QED BY <1>3, <2>1, <3>1, StaysBacked, RowTypes
  <2>2. CASE users'[q] # users[q] BY <1>2, <2>2 DEF Backed
  <2> QED BY <2>1, <2>2
<1>6. RowsBacked' BY <1>5 DEF RowsBacked
<1>7. CopyBacked' BY <1>1, <1>5 DEF CopyBacked
<1>8. PanelBacked'
  <2>1. CASE panel.pc = "save" /\ users'[panel.who].id = panel.user.id
    <3>1. users[panel.who].id = panel.user.id
      BY <1>0, <1>2, <2>1, RowTypes DEF SInv, UserIds
    <3>2. Backed(panel.user.active, panel.user.id)
      BY <2>1, <3>1 DEF SInv, PanelBacked
    <3> QED BY <1>1, <1>3, <3>2, StaysBacked, RowTypes DEF PanelBacked
  <2> QED BY <1>1, <2>1 DEF PanelBacked
<1>9. ChatsGroup' BY <1>1 DEF ChatsGroup, InChat
<1> QED BY <1>4, <1>6, <1>7, <1>8, <1>9 DEF SInv

\* The panel's late save, and its erasures from the first statement to the last.
LEMMA PanelSaveBacked == ASSUME IInv, IInv', SInv, PanelSave PROVE SInv'
<1>1. /\ panel.pc = "save" /\ panel'.pc = "idle" /\ panel'.user = NoUser
      /\ UNCHANGED <<groups, members, lastUser, worker, answer>>
  BY RowTypes DEF PanelSave, PanelDone
<1> PICK row : row = panel.user OBVIOUS
<1>2. /\ SaveUser(panel.who, row) /\ row \in User /\ panel.who \in People
      /\ row.id \in 0 .. lastUser /\ row.id # 0
      /\ users[panel.who].id = row.id => Backed(row.active, row.id)
  BY <1>1, RowTypes DEF PanelSave, SInv, UserIds, PanelBacked
<1>3. Holds BY <1>1, <1>2 DEF Holds, Erasing, At, SaveUser
<1>4. /\ \A q \in People : /\ users'[q].id \in 0 .. lastUser'
                           /\ users'[q] # NoUser => users'[q].id # 0
      /\ RowsBacked'
      /\ \A q \in People : users'[q].id = users[q].id \/ users'[q].id \in outlived'
  BY <1>1, <1>2, <1>3, Saving
<1>5. UserIds' BY <1>1, <1>4, RowTypes DEF SInv, UserIds
<1>6. CopyBacked'
  <2>1. CASE worker.pc # "idle" /\ users[worker.who].id = worker.user.id
    <3>1. /\ Backed(worker.user.active, worker.user.id)
          /\ worker.pc = "activate" => Backed(worker.group.id, worker.user.id)
      BY <2>1 DEF SInv, CopyBacked
    <3> QED BY <1>1, <1>3, <3>1, StaysBacked, RowTypes DEF CopyBacked
  <2>2. CASE users[worker.who].id # worker.user.id
    BY <1>1, <1>4, <2>2, RowTypes DEF CopyBacked, Backed
  <2> QED BY <1>1, <2>1, <2>2 DEF CopyBacked
<1>7. PanelBacked' /\ ChatsGroup' BY <1>1 DEF PanelBacked, SInv, ChatsGroup, InChat
<1> QED BY <1>4, <1>5, <1>6, <1>7 DEF SInv

\* The first statements: the entries go, and from then on the erasure is under way.
LEMMA EntriesGo ==
    ASSUME IInv, IInv', SInv, PanelPurgeMembers \/ WipeMembers PROVE SInv'
<1>1. /\ panel'.pc \in {"purgeUser", "wipeGroups"} /\ panel'.user = panel.user
      /\ UNCHANGED <<users, groups, lastUser, worker, answer, outlived>>
      /\ panel.pc \in {"purgeMembers", "wipeMembers"}
  BY RowTypes DEF PanelPurgeMembers, WipeMembers, PanelGoto
<1>2. ASSUME NEW g, NEW id \in Nat, Backed(g, id) PROVE Backed(g, id)'
  <2>1. CASE WipeMembers
    BY <2>1, RowTypes DEF WipeMembers, PanelGoto, Backed, Erasing
  <2>2. CASE PanelPurgeMembers /\ id = panel.user.id
    BY <2>2, RowTypes DEF PanelPurgeMembers, PanelGoto, Backed, Erasing
  <2>3. CASE PanelPurgeMembers /\ id # panel.user.id
    <3>1. IsMember(g, id) => IsMember(g, id)'
      BY <2>3 DEF PanelPurgeMembers, PurgeMemberships, IsMember
    <3>2. Erasing(id) => Erasing(id)' BY <1>1 DEF Erasing, At
    <3> QED BY <1>1, <1>2, <3>1, <3>2 DEF Backed
  <2> QED BY <2>1, <2>2, <2>3
<1>3. UserIds' BY <1>1 DEF SInv, UserIds
<1>4. RowsBacked' BY <1>1, <1>2, RowTypes DEF SInv, RowsBacked
<1>5. CopyBacked' BY <1>1, <1>2, RowTypes DEF SInv, CopyBacked
<1>6. PanelBacked' /\ ChatsGroup' BY <1>1 DEF PanelBacked, SInv, ChatsGroup, InChat
<1> QED BY <1>3, <1>4, <1>5, <1>6 DEF SInv

\* The last statement: the row goes, and a copy of it is no longer the table's.
LEMMA RowGoes == ASSUME IInv, IInv', SInv, PanelPurgeUser \/ WipeUsers PROVE SInv'
<1>1. /\ panel.pc \in {"purgeUser", "wipeUsers"}
      /\ panel'.pc = "idle" /\ panel'.user = NoUser
      /\ UNCHANGED <<groups, members, lastUser, worker, answer, outlived>>
  BY RowTypes DEF PanelPurgeUser, WipeUsers, PanelDone
<1>2. /\ NoUser.id = 0 /\ NoUser.active = NoGroup
      /\ \A p \in People : \/ users'[p] = NoUser
                           \/ /\ users'[p] = users[p]
                              /\ panel.pc = "purgeUser" /\ users[p].id # panel.user.id
  BY <1>1, RowTypes DEF PanelPurgeUser, WipeUsers, PurgeUser
<1>3. ASSUME NEW g, NEW id \in Nat, Backed(g, id), panel.pc = "purgeUser",
             id # panel.user.id
      PROVE  Backed(g, id)'
  BY <1>1, <1>3 DEF Backed, IsMember, Erasing, At
<1>4. UserIds' BY <1>1, <1>2, RowTypes DEF SInv, UserIds
<1>5. RowsBacked'
  <2>1. ASSUME NEW p \in People PROVE Backed(users[p].active, users[p].id)'
    <3>1. CASE users'[p] = NoUser BY <1>2, <3>1 DEF Backed
    <3>2. CASE users'[p] # NoUser
      BY <1>2, <1>3, <3>2, RowTypes DEF SInv, RowsBacked
    <3> QED BY <3>1, <3>2
  <2> QED BY <2>1 DEF RowsBacked
<1>6. CopyBacked'
  <2>1. CASE worker.pc # "idle" /\ users'[worker.who].id = worker.user.id
    <3>1. /\ users[worker.who].id = worker.user.id /\ panel.pc = "purgeUser"
          /\ worker.user.id # panel.user.id
      BY <1>2, <2>1, RowTypes DEF SInv, UserIds
    <3> QED BY <1>1, <1>3, <2>1, <3>1, RowTypes DEF SInv, CopyBacked
  <2> QED BY <1>1, <2>1 DEF CopyBacked
<1>7. PanelBacked' /\ ChatsGroup' BY <1>1 DEF PanelBacked, SInv, ChatsGroup, InChat
<1> QED BY <1>4, <1>5, <1>6, <1>7 DEF SInv

LEMMA PanelStepBacked ==
    ASSUME IInv, IInv', SInv, PanelStep \/ PanelWipe \/ \E p \in People : PanelRead(p)
    PROVE  SInv'
<1>1. CASE PanelSave BY <1>1, PanelSaveBacked
<1>2. CASE PanelPurgeMembers \/ WipeMembers BY <1>2, EntriesGo
<1>3. CASE PanelPurgeUser \/ WipeUsers BY <1>3, RowGoes
<1>4. CASE WipeGroups
  <2>1. /\ panel.pc = "wipeGroups" /\ panel'.pc = "wipeUsers" /\ panel'.user = panel.user
        /\ UNCHANGED <<users, members, lastUser, worker, answer, outlived>> /\ groups' = {}
    BY <1>4, RowTypes DEF WipeGroups, PanelGoto
  <2>2. UserIds' /\ ChatsGroup' /\ PanelBacked'
    BY <2>1 DEF SInv, UserIds, ChatsGroup, InChat, PanelBacked
  <2>3. RowsBacked' /\ CopyBacked'
    BY <2>1 DEF RowsBacked, CopyBacked, Backed, Erasing
  <2> QED BY <2>2, <2>3 DEF SInv
<1>5. CASE PanelWipe
  <2>1. /\ panel.pc = "idle" /\ panel'.pc = "wipeMembers" /\ panel'.user = panel.user
        /\ UNCHANGED <<users, groups, members, lastUser, worker, answer, outlived>>
    BY <1>5, RowTypes DEF PanelWipe, PanelGoto, PanelBusy, tables
  <2>2. Holds BY <2>1 DEF Holds, Erasing, At
  <2> QED BY <2>1, <2>2, StaysBacked, RowTypes
       DEF SInv, UserIds, RowsBacked, CopyBacked, PanelBacked, ChatsGroup, InChat
<1>6. ASSUME NEW p \in People, PanelRead(p) PROVE SInv'
  <2>1. /\ panel.pc = "idle" /\ panel'.pc \in {"save", "purgeMembers"}
        /\ panel'.user = users[p] /\ panel'.who = p /\ users[p] # NoUser
        /\ UNCHANGED <<users, groups, members, lastUser, worker, answer, outlived>>
    BY <1>6 DEF PanelRead, PanelBusy, tables
  <2>2. Holds BY <2>1 DEF Holds, Erasing, At
  <2>3. UserIds' BY <2>1 DEF SInv, UserIds
  <2>4. RowsBacked' BY <2>1, <2>2, StaysBacked, RowTypes DEF SInv, RowsBacked
  <2>5. CopyBacked' BY <2>1, <2>2, StaysBacked, RowTypes DEF SInv, CopyBacked
  <2>6. PanelBacked' BY <2>1, <2>4 DEF RowsBacked, PanelBacked
  <2>7. ChatsGroup' BY <2>1 DEF SInv, ChatsGroup, InChat
  <2> QED BY <2>3, <2>4, <2>5, <2>6, <2>7 DEF SInv
<1> QED BY <1>1, <1>2, <1>3, <1>4, <1>5, <1>6 DEF PanelStep

\* A stop ends every erasure under way; what it had not come to has outlived it.
LEMMA RestartBacked == ASSUME IInv, IInv', SInv, Restart PROVE SInv'
<1>1. /\ worker'.pc = "idle" /\ worker'.user = NoUser
      /\ panel'.pc = "idle" /\ panel'.user = NoUser
      /\ UNCHANGED <<users, groups, members, lastUser, answer>>
  BY RowTypes DEF Restart, Finish, PanelDone, Worker, tables
<1>2. outlived \subseteq outlived'
      /\ \A p \in People : users[p] # NoUser /\ Erasing(users[p].id) =>
            users[p].id \in outlived'
  BY DEF Restart
<1>3. UserIds' BY <1>1, RowTypes DEF SInv, UserIds
<1>4. RowsBacked'
  <2>1. ASSUME NEW p \in People, users[p].active # NoGroup
        PROVE  IsMember(users[p].active, users[p].id) \/ users[p].id \in outlived'
    BY <1>2, <2>1, RowTypes DEF SInv, RowsBacked, Backed
  <2> QED BY <1>1, <2>1 DEF RowsBacked, Backed, IsMember
<1>5. CopyBacked' /\ PanelBacked' /\ ChatsGroup'
  BY <1>1 DEF CopyBacked, PanelBacked, ChatsGroup, InChat
<1> QED BY <1>3, <1>4, <1>5 DEF SInv

LEMMA StaysSInv == IInv /\ IInv' /\ SInv /\ [Next]_vars => SInv'
<1> SUFFICES ASSUME IInv, IInv', SInv, [Next]_vars PROVE SInv' OBVIOUS
<1>1. ASSUME NEW p \in People, Message(p) PROVE SInv'
  <2>1. PICK chat \in Chats \cup {NoChat}, step \in
              {"associate", "newGroup", "join", "groupAI", "myAI", "forget", "answer"} :
           Begin(p, chat, step)
    BY <1>1 DEF Message
  <2> QED BY <2>1, BeginBacked
<1>2. CASE WorkerStep
  BY <1>2, ChatBacked, ActivateBacked, DirectBacked, MyAIBacked, ForgetBacked DEF WorkerStep
<1>3. CASE UNCHANGED vars
  BY <1>3 DEF vars, tables, SInv, UserIds, RowsBacked, CopyBacked, PanelBacked, ChatsGroup,
              InChat, Backed, IsMember, Erasing, At
<1> QED BY <1>1, <1>2, <1>3, PanelStepBacked, RestartBacked DEF Next

LEMMA BackedInvariance == Spec => []SInv
BY InitiallyBacked, StaysSInv, Invariance, PTL DEF Spec

-----------------------------------------------------------------------------
\* The types of the study groups' state, for all constants.
THEOREM GroupTypes == Spec => []TypeOK
<1>1. IInv => TypeOK BY DEF IInv
<1> QED BY <1>1, Invariance, PTL

\* One group per chat and one entry per member, although no index says so, for
\* any students and chats, and with a panel that erases and wipes in between.
THEOREM NoDoubles == Spec => []OneEntryEach
<1>1. IInv => OneEntryEach BY DEF IInv
<1> QED BY <1>1, Invariance, PTL

\* A group's AI answers a student who has an entry in the group, in a chat only
\* that of the chat's own group, for any students, chats and messages, late saves
\* of the panel, wipes and stops at any point.  Without an entry it answers only
\* a student whose erasure is under way, took the row during the message, or was
\* outlived by the row; and a chat without a group has the active one answer.
THEOREM SharedAIStaysInGroup == Spec => SharedAIOwn
<1> DEFINE Own ==
      At("answer") /\ worker'.pc = "idle" /\ answer' # NoGroup =>
          /\ \/ IsMember(answer', worker.user.id)
             \/ Erasing(worker.user.id)
             \/ users[worker.who].id # worker.user.id
             \/ worker.user.id \in outlived
          /\ worker.group # Nothing =>
                \E g \in groups : g.id = answer' /\ g.chat = worker.chat
<1>1. SInv /\ [Next]_vars => [Own]_vars
  <2> SUFFICES ASSUME SInv, Next, At("answer"), worker'.pc = "idle", answer' # NoGroup
               PROVE  Own
    BY DEF vars, At
  <2>0. worker.pc = "answer" /\ answer = NoGroup
    BY DEF At, SInv, ChatsGroup
  <2>1. Answer
    <3>1. WorkerStep => Answer
      BY <2>0 DEF WorkerStep, Associate, AutoGroup, AddAdmin, CheckMember, EnterGroup,
         Activate, StaySilent, NewGroup, NewAdmin, FindGroup, Join, CheckAdmin, GroupAI,
         MyAI, Forget, ForgetUser, At
    <3>2. ~(PanelStep \/ PanelWipe \/ Restart \/ \E p \in People : PanelRead(p))
      BY <2>0 DEF PanelStep, PanelWipe, PanelRead, PanelSave, PanelPurgeMembers,
         PanelPurgeUser, WipeMembers, WipeGroups, WipeUsers, Restart
    <3>3. ~(\E p \in People : Message(p)) BY <2>0 DEF Message, Begin, At
    <3> QED BY <3>1, <3>2, <3>3 DEF Next
  <2>2. answer' = worker.user.active /\ SharedAI BY <2>1 DEF Answer
  <2>3. \/ IsMember(answer', worker.user.id)
        \/ Erasing(worker.user.id)
        \/ users[worker.who].id # worker.user.id
        \/ worker.user.id \in outlived
    BY <2>0, <2>2 DEF SInv, CopyBacked, Backed
  <2>4. ASSUME worker.group # Nothing
        PROVE  \E g \in groups : g.id = answer' /\ g.chat = worker.chat
    <3>1. PICK g \in groups : g.id = worker.user.active BY <2>2 DEF SharedAI
    <3>2. g.chat = worker.chat
      BY <2>0, <2>4, <3>1 DEF SInv, ChatsGroup, InChat
    <3> QED BY <2>2, <3>1, <3>2
  <2> QED BY <2>3, <2>4
<1>2. Spec => [][Own]_vars BY <1>1, BackedInvariance, PTL DEF Spec
<1> QED BY <1>2 DEF SharedAIOwn

-----------------------------------------------------------------------------
(* What groups and senders may cost (Guardrails).  A limiter forgets: it     *)
(* keeps the times it needs and drops the rest, so the proofs follow what it *)
(* keeps inside the whole history of what it let through.                    *)

\* At time t the list h of a limiter is the end of the history a of what it let
\* through: the times are in order, what is no longer in the list has left the
\* window, and no window ever held more than the limit.
Windowed(h, a, limit, window, t) ==
    /\ Len(h) <= Len(a)
    /\ \A i \in 1..Len(h) : h[i] = a[Len(a) - Len(h) + i]
    /\ \A i \in 1..(Len(a) - Len(h)) : a[i] <= t - window
    /\ \A i \in 1..Len(a) : a[i] <= t
    /\ Spread(a, limit, window)

\* The time kept by a cooldown is the last one of its history a.
Spaced(last, a, window, t) ==
    /\ last = Never => Len(a) = 0
    /\ last # Never => Len(a) > 0 /\ a[Len(a)] = last /\ last <= t
    /\ Spread(a, 1, window)

LimitsInv ==
    /\ \A u \in Users :
          /\ Windowed(userRateHits[u], admitted[u], UserLimit, UserWindow, now)
          /\ Spaced(userRateNotify[u], noticed[u], UserWindow, now)
    /\ \A g \in Groups :
          /\ Windowed(groupRateHits[g], activities[g], GroupLimit, GroupWindow, now)
          /\ Spaced(groupCooldown[g], answered[g], CooldownWindow, now)

\* A quiz that waits is the last one posted, and was not revealed yet.
QuizInv ==
    \A g \in Groups :
       /\ groupQuizState[g] \in {NoQuiz, polls[g]}
       /\ \A i \in 1..Len(revealed[g]) :
             /\ revealed[g][i] <= polls[g]
             /\ groupQuizState[g] # NoQuiz => revealed[g][i] < polls[g]

LEMMA KeptFacts ==
    ASSUME NEW h \in Seq(Nat), NEW n \in 0..Len(h)
    PROVE  /\ Kept(h, n) \in Seq(Nat)
           /\ Len(Kept(h, n)) = Len(h) - n
           /\ \A i \in 1..(Len(h) - n) : Kept(h, n)[i] = h[n + i]
<1>1. Len(h) \in Nat
  OBVIOUS
<1>2. CASE n = Len(h)
  BY <1>1, <1>2, SubSeqProperties DEF Kept
<1>3. CASE n < Len(h)
  BY <1>1, <1>3, SubSeqProperties DEF Kept
<1> QED  BY <1>1, <1>2, <1>3

\* Time passes.
LEMMA WindowedLater ==
    ASSUME NEW h \in Seq(Nat), NEW a \in Seq(Nat), NEW limit, NEW window \in Nat,
           NEW t \in Nat, NEW later \in Nat, t <= later,
           Windowed(h, a, limit, window, t)
    PROVE  Windowed(h, a, limit, window, later)
<1>1. Len(h) \in Nat /\ Len(a) \in Nat /\ \A i \in 1..Len(a) : a[i] \in Nat
  OBVIOUS
<1>2. \A i \in 1..(Len(a) - Len(h)) : i \in 1..Len(a)
  BY <1>1
<1> QED  BY <1>1, <1>2 DEF Windowed

\* What has left the window is dropped from the list.
LEMMA WindowedKept ==
    ASSUME NEW h \in Seq(Nat), NEW a \in Seq(Nat), NEW limit, NEW window \in Nat,
           now \in Nat, Windowed(h, a, limit, window, now),
           NEW n \in 0..Len(h), Expires(h, n, window)
    PROVE  Windowed(Kept(h, n), a, limit, window, now)
<1> DEFINE k == Kept(h, n)
<1>1. /\ Len(h) \in Nat /\ Len(a) \in Nat /\ n \in Nat
      /\ Len(k) = Len(h) - n
      /\ \A i \in 1..(Len(h) - n) : k[i] = h[n + i]
  <2>1. /\ Len(k) = Len(h) - n
        /\ \A i \in 1..(Len(h) - n) : k[i] = h[n + i]
    BY KeptFacts, Zenon
  <2> QED  BY <2>1
<1> HIDE DEF k
<1>2. \A i \in 1..Len(k) : k[i] = a[Len(a) - Len(k) + i]
  BY <1>1 DEF Windowed
<1>3. ASSUME NEW i \in 1..(Len(a) - Len(k))
      PROVE  a[i] <= now - window
  <2>1. CASE i <= Len(a) - Len(h)
    BY <1>1, <2>1 DEF Windowed
  <2>2. CASE i > Len(a) - Len(h)
    <3>1. PICK j \in 1..n : j \in 1..Len(h) /\ i = Len(a) - Len(h) + j
      <4>1. i - (Len(a) - Len(h)) \in 1..n /\ i - (Len(a) - Len(h)) \in 1..Len(h)
        BY <1>1, <2>2
      <4>2. i = Len(a) - Len(h) + (i - (Len(a) - Len(h)))
        BY <1>1
      <4> QED  BY <4>1, <4>2
    <3>2. a[i] = h[j]
      BY <3>1 DEF Windowed
    <3> QED  BY <3>1, <3>2 DEF Expires
  <2> QED  BY <1>1, <2>1, <2>2
<1>4. Len(k) <= Len(a)
  BY <1>1 DEF Windowed
<1> QED  BY <1>2, <1>3, <1>4 DEF Windowed, k

\* The limiter lets one more through, at a time not before its cutoff was read.
LEMMA WindowedAdmits ==
    ASSUME NEW h \in Seq(Nat), NEW a \in Seq(Nat), NEW limit \in Nat \ {0},
           NEW window \in Nat, NEW t \in Nat, NEW later \in Nat, t <= later,
           Windowed(h, a, limit, window, t), Len(h) < limit
    PROVE  Windowed(Append(h, later), Append(a, later), limit, window, later)
<1> DEFINE hh == Append(h, later)
           aa == Append(a, later)
<1>1. /\ Len(h) \in Nat /\ Len(a) \in Nat
      /\ Len(hh) = Len(h) + 1 /\ Len(aa) = Len(a) + 1
      /\ \A i \in 1..Len(h) : hh[i] = h[i]
      /\ \A i \in 1..Len(a) : aa[i] = a[i] /\ a[i] \in Nat
      /\ hh[Len(h) + 1] = later /\ aa[Len(a) + 1] = later
  OBVIOUS
<1> HIDE DEF hh, aa
<1>2. Len(h) <= Len(a) /\ \A i \in 1..Len(a) : a[i] <= later
  <2>1. \A i \in 1..Len(a) : a[i] <= t /\ a[i] \in Nat
    BY <1>1 DEF Windowed
  <2> QED  BY <2>1 DEF Windowed
<1>3. ASSUME NEW i \in 1..Len(hh)
      PROVE  hh[i] = aa[Len(aa) - Len(hh) + i]
  <2>1. CASE i \in 1..Len(h)
    <3>1. /\ Len(a) - Len(h) + i \in 1..Len(a)
          /\ Len(aa) - Len(hh) + i = Len(a) - Len(h) + i
      BY <1>1, <1>2, <2>1
    <3>2. h[i] = a[Len(a) - Len(h) + i]
      BY <2>1 DEF Windowed
    <3> QED  BY <1>1, <2>1, <3>1, <3>2
  <2>2. CASE i = Len(h) + 1
    BY <1>1, <2>2
  <2> QED  BY <1>1, <2>1, <2>2
<1>4. ASSUME NEW i \in 1..(Len(aa) - Len(hh))
      PROVE  aa[i] <= later - window
  <2>1. i \in 1..(Len(a) - Len(h)) /\ i \in 1..Len(a)
    BY <1>1
  <2>2. a[i] <= t - window /\ a[i] \in Nat /\ aa[i] = a[i]
    BY <1>1, <2>1 DEF Windowed
  <2> QED  BY <2>2
<1>5. ASSUME NEW i \in 1..Len(aa)
      PROVE  aa[i] <= later
  <2>1. i \in 1..Len(a) \/ i = Len(a) + 1
    BY <1>1
  <2> QED  BY <1>1, <1>2, <2>1
<1>6. ASSUME NEW i \in 1..Len(aa), i + limit <= Len(aa)
      PROVE  aa[i + limit] - aa[i] >= window
  <2>1. CASE i + limit <= Len(a)
    <3>1. i \in 1..Len(a) /\ i + limit \in 1..Len(a)
      BY <1>1, <2>1
    <3> QED  BY <1>1, <2>1, <3>1 DEF Windowed, Spread
  <2>2. CASE i + limit = Len(a) + 1
    <3>1. i \in 1..(Len(a) - Len(h)) /\ i \in 1..Len(a)
      BY <1>1, <2>2
    <3>2. a[i] <= t - window /\ a[i] \in Nat
      BY <1>1, <3>1 DEF Windowed
    <3>3. aa[i + limit] = later /\ aa[i] = a[i]
      BY <1>1, <2>2, <3>1
    <3> QED  BY <3>2, <3>3
  <2>3. i + limit <= Len(a) \/ i + limit = Len(a) + 1
    <3>1. /\ i \in Nat /\ limit \in Nat /\ Len(a) \in Nat
          /\ i + limit <= Len(a) + 1
      BY <1>1, <1>6
    <3> QED  BY <3>1
  <2> QED  BY <2>1, <2>2, <2>3
<1>7. Len(hh) <= Len(aa) /\ Spread(aa, limit, window)
  BY <1>1, <1>2, <1>6 DEF Spread
<1> QED  BY <1>3, <1>4, <1>5, <1>7 DEF Windowed, hh, aa

LEMMA SpacedLater ==
    ASSUME NEW last \in Nat \cup {Never}, NEW a, NEW window, NEW t \in Nat,
           NEW later \in Nat, t <= later, Spaced(last, a, window, t)
    PROVE  Spaced(last, a, window, later)
  BY DEF Spaced, Never

LEMMA SpacedAgain ==
    ASSUME NEW last \in Nat \cup {Never}, NEW a \in Seq(Nat), NEW window \in Nat,
           NEW t \in Nat, Spaced(last, a, window, t),
           last = Never \/ t - last >= window
    PROVE  Spaced(t, Append(a, t), window, t)
<1> DEFINE aa == Append(a, t)
<1>1. /\ Len(a) \in Nat /\ Len(aa) = Len(a) + 1
      /\ \A i \in 1..Len(a) : aa[i] = a[i]
      /\ aa[Len(a) + 1] = t
  OBVIOUS
<1> HIDE DEF aa
<1>2. ASSUME NEW i \in 1..Len(aa), i + 1 <= Len(aa)
      PROVE  aa[i + 1] - aa[i] >= window
  <2>1. CASE i + 1 <= Len(a)
    <3>1. i \in 1..Len(a) /\ i + 1 \in 1..Len(a)
      BY <1>1, <2>1
    <3> QED  BY <1>1, <2>1, <3>1 DEF Spaced, Spread
  <2>2. CASE i = Len(a)
    BY <1>1, <2>2 DEF Spaced
  <2> QED  BY <1>1, <1>2, <2>1, <2>2
<1>3. Spread(aa, 1, window)
  BY <1>2 DEF Spread
<1> QED  BY <1>1, <1>3 DEF Spaced, Never, aa

LEMMA NothingYet ==
    ASSUME NEW limit \in Nat, NEW window, NEW t \in Nat
    PROVE  Windowed(<<>>, <<>>, limit, window, t) /\ Spaced(Never, <<>>, window, t)
  BY DEF Windowed, Spaced, Spread, Never

-----------------------------------------------------------------------------
(* The steps of the limiters. *)

LEMMA LimitsTyped ==
    ASSUME LimitsTypeOK
    PROVE  /\ now \in Nat
           /\ \A u \in Users : /\ userRateHits[u] \in Seq(Nat)
                               /\ userRateNotify[u] \in Nat \cup {Never}
                               /\ admitted[u] \in Seq(Nat)
                               /\ noticed[u] \in Seq(Nat) /\ dropped[u] \in Nat
           /\ \A g \in Groups : /\ groupRateHits[g] \in Seq(Nat)
                                /\ groupCooldown[g] \in Nat \cup {Never}
                                /\ activities[g] \in Seq(Nat)
                                /\ answered[g] \in Seq(Nat)
                                /\ groupQuizState[g] \in Nat /\ polls[g] \in Nat
                                /\ revealed[g] \in Seq(Nat)
  BY DEF LimitsTypeOK

\* A direct message changes the sender's lists only.
LEMMA DirectMessageStep ==
    ASSUME LimitsTypeOK, LimitsInv, NEW u \in Users, DirectMessage(u)
    PROVE  LimitsTypeOK' /\ LimitsInv'
<1> USE GuardrailsAssumption
<1>0. /\ now \in Nat /\ now' = now /\ UNCHANGED groupVars /\ events' \in 0..MaxEvents
      /\ userRateHits[u] \in Seq(Nat) /\ admitted[u] \in Seq(Nat)
      /\ noticed[u] \in Seq(Nat) /\ userRateNotify[u] \in Nat \cup {Never}
  BY LimitsTyped DEF DirectMessage, Event, LimitsTypeOK
<1>1. PICK n \in 0..Len(userRateHits[u]) :
         /\ Expires(userRateHits[u], n, UserWindow)
         /\ Admit(u, n) \/ Notify(u, n) \/ DropSilently(u, n)
  BY DEF DirectMessage
<1> DEFINE kept == Kept(userRateHits[u], n)
<1>2. /\ kept \in Seq(Nat) /\ Len(kept) = Len(userRateHits[u]) - n
      /\ Windowed(kept, admitted[u], UserLimit, UserWindow, now)
      /\ Spaced(userRateNotify[u], noticed[u], UserWindow, now)
  BY <1>0, <1>1, KeptFacts, WindowedKept DEF LimitsInv
<1> HIDE DEF kept
\* Whatever the new lists are, they are typed and within the limits.
<1>3. ASSUME NEW h \in Seq(Nat), NEW a \in Seq(Nat), NEW last \in Nat \cup {Never},
             NEW s \in Seq(Nat), NEW d \in [Users -> Nat],
             userRateHits' = [userRateHits EXCEPT ![u] = h],
             admitted' = [admitted EXCEPT ![u] = a],
             userRateNotify' = [userRateNotify EXCEPT ![u] = last],
             noticed' = [noticed EXCEPT ![u] = s], dropped' = d,
             Windowed(h, a, UserLimit, UserWindow, now),
             Spaced(last, s, UserWindow, now)
      PROVE  LimitsTypeOK' /\ LimitsInv'
  <2>1. LimitsTypeOK'
    BY <1>0, <1>3 DEF LimitsTypeOK, groupVars
  <2>2. ASSUME NEW v \in Users
        PROVE  /\ Windowed(userRateHits'[v], admitted'[v], UserLimit, UserWindow, now')
               /\ Spaced(userRateNotify'[v], noticed'[v], UserWindow, now')
    <3>1. CASE v = u
      BY <1>0, <1>3, <3>1 DEF LimitsTypeOK
    <3>2. CASE v # u
      BY <1>0, <1>3, <3>2 DEF LimitsTypeOK, LimitsInv
    <3> QED  BY <3>1, <3>2
  <2>3. ASSUME NEW g \in Groups
        PROVE  /\ Windowed(groupRateHits'[g], activities'[g], GroupLimit, GroupWindow, now')
               /\ Spaced(groupCooldown'[g], answered'[g], CooldownWindow, now')
    BY <1>0 DEF LimitsInv, groupVars
  <2> QED  BY <2>1, <2>2, <2>3 DEF LimitsInv
<1>4. dropped' \in [Users -> Nat]
  BY <1>1 DEF LimitsTypeOK, Admit, Notify, DropSilently
<1>5. CASE Admit(u, n)
  <2>1. /\ Append(kept, now) \in Seq(Nat) /\ Append(admitted[u], now) \in Seq(Nat)
        /\ Windowed(Append(kept, now), Append(admitted[u], now), UserLimit,
                    UserWindow, now)
    BY <1>0, <1>2, <1>5, WindowedAdmits DEF Admit
  <2>2. /\ userRateHits' = [userRateHits EXCEPT ![u] = Append(kept, now)]
        /\ admitted' = [admitted EXCEPT ![u] = Append(admitted[u], now)]
        /\ userRateNotify' = [userRateNotify EXCEPT ![u] = userRateNotify[u]]
        /\ noticed' = [noticed EXCEPT ![u] = noticed[u]]
    BY <1>5 DEF Admit, LimitsTypeOK, kept
  <2> QED  BY <1>0, <1>2, <1>3, <1>4, <2>1, <2>2
<1>6. CASE Notify(u, n)
  <2>0. /\ userRateNotify[u] = Never \/ now - userRateNotify[u] >= UserWindow
        /\ UserWindow \in Nat
    BY <1>6 DEF Notify
  <2>1. /\ Append(noticed[u], now) \in Seq(Nat)
        /\ Spaced(now, Append(noticed[u], now), UserWindow, now)
    <3>1. Append(noticed[u], now) \in Seq(Nat)
      BY <1>0
    <3>2. Spaced(now, Append(noticed[u], now), UserWindow, now)
      BY <1>0, <1>2, <2>0, SpacedAgain, Zenon
    <3> QED  BY <3>1, <3>2
  <2>2. /\ userRateHits' = [userRateHits EXCEPT ![u] = kept]
        /\ admitted' = [admitted EXCEPT ![u] = admitted[u]]
        /\ userRateNotify' = [userRateNotify EXCEPT ![u] = now]
        /\ noticed' = [noticed EXCEPT ![u] = Append(noticed[u], now)]
    BY <1>6 DEF Notify, LimitsTypeOK, kept
  <2> QED  BY <1>0, <1>2, <1>3, <1>4, <2>1, <2>2
<1>7. CASE DropSilently(u, n)
  <2>1. /\ userRateHits' = [userRateHits EXCEPT ![u] = kept]
        /\ admitted' = [admitted EXCEPT ![u] = admitted[u]]
        /\ userRateNotify' = [userRateNotify EXCEPT ![u] = userRateNotify[u]]
        /\ noticed' = [noticed EXCEPT ![u] = noticed[u]]
    BY <1>7 DEF DropSilently, LimitsTypeOK, kept
  <2> QED  BY <1>0, <1>2, <1>3, <1>4, <2>1
<1> QED  BY <1>1, <1>5, <1>6, <1>7

\* A group's message changes the group's lists only; the clock may run on.
LEMMA GroupMessageStep ==
    ASSUME LimitsTypeOK, LimitsInv, NEW g \in Groups, GroupMessage(g)
    PROVE  LimitsTypeOK' /\ LimitsInv'
<1> USE GuardrailsAssumption
<1> DEFINE h == groupRateHits[g]
           a == activities[g]
<1>9. UNCHANGED userVars /\ Event
  BY DEF GroupMessage, Ask, Activity, Quiz, Reveal
<1>0. /\ now \in Nat /\ UNCHANGED userVars /\ events' \in 0..MaxEvents
      /\ h \in Seq(Nat) /\ a \in Seq(Nat)
      /\ answered[g] \in Seq(Nat) /\ groupCooldown[g] \in Nat \cup {Never}
      /\ Windowed(h, a, GroupLimit, GroupWindow, now)
      /\ Spaced(groupCooldown[g], answered[g], CooldownWindow, now)
  BY <1>9, LimitsTyped DEF Event, LimitsTypeOK, LimitsInv
<1>1. /\ groupQuizState' \in [Groups -> Nat] /\ polls' \in [Groups -> Nat]
      /\ revealed' \in [Groups -> Seq(Nat)]
  <2>1. CASE Ask(g) \/ Activity(g)
    BY <2>1 DEF Ask, Activity, LimitsTypeOK
  <2>2. CASE Quiz(g)
    <3>1. polls[g] + 1 \in Nat
      BY LimitsTyped
    <3>2. /\ polls' = [polls EXCEPT ![g] = polls[g] + 1] /\ revealed' = revealed
          /\ groupQuizState' = [groupQuizState EXCEPT ![g] = polls[g] + 1]
      BY <2>2 DEF Quiz, LimitsTypeOK
    <3> QED  BY <3>1, <3>2 DEF LimitsTypeOK
  <2>3. CASE Reveal(g)
    <3>1. Append(revealed[g], groupQuizState[g]) \in Seq(Nat)
      BY LimitsTyped
    <3> QED  BY <2>3, <3>1 DEF Reveal, LimitsTypeOK, NoQuiz
  <2> QED  BY <2>1, <2>2, <2>3 DEF GroupMessage
<1>2. ASSUME NEW hh \in Seq(Nat), NEW aa \in Seq(Nat), NEW last \in Nat \cup {Never},
             NEW s \in Seq(Nat), now' \in Nat, now <= now',
             groupRateHits' = [groupRateHits EXCEPT ![g] = hh],
             activities' = [activities EXCEPT ![g] = aa],
             groupCooldown' = [groupCooldown EXCEPT ![g] = last],
             answered' = [answered EXCEPT ![g] = s],
             Windowed(hh, aa, GroupLimit, GroupWindow, now'),
             Spaced(last, s, CooldownWindow, now')
      PROVE  LimitsTypeOK' /\ LimitsInv'
  <2>1. LimitsTypeOK'
    BY <1>0, <1>1, <1>2 DEF LimitsTypeOK, userVars
  <2>2. ASSUME NEW v \in Users
        PROVE  /\ Windowed(userRateHits'[v], admitted'[v], UserLimit, UserWindow, now')
               /\ Spaced(userRateNotify'[v], noticed'[v], UserWindow, now')
    <3>1. /\ Windowed(userRateHits[v], admitted[v], UserLimit, UserWindow, now')
          /\ Spaced(userRateNotify[v], noticed[v], UserWindow, now')
      BY <1>0, <1>2, LimitsTyped, WindowedLater, SpacedLater DEF LimitsInv
    <3> QED  BY <1>0, <3>1 DEF userVars
  <2>3. ASSUME NEW k \in Groups
        PROVE  /\ Windowed(groupRateHits'[k], activities'[k], GroupLimit, GroupWindow, now')
               /\ Spaced(groupCooldown'[k], answered'[k], CooldownWindow, now')
    <3>1. CASE k = g
      BY <1>2, <3>1 DEF LimitsTypeOK
    <3>2. CASE k # g
      <4>1. /\ Windowed(groupRateHits[k], activities[k], GroupLimit, GroupWindow, now')
            /\ Spaced(groupCooldown[k], answered[k], CooldownWindow, now')
        BY <1>0, <1>2, LimitsTyped, WindowedLater, SpacedLater DEF LimitsInv
      <4> QED  BY <1>2, <3>2, <4>1 DEF LimitsTypeOK
    <3> QED  BY <3>1, <3>2
  <2> QED  BY <2>1, <2>2, <2>3 DEF LimitsInv
<1>3. CASE Ask(g)
  <2>1. /\ Append(answered[g], now) \in Seq(Nat)
        /\ Spaced(now, Append(answered[g], now), CooldownWindow, now)
    <3>1. /\ groupCooldown[g] = Never \/ now - groupCooldown[g] >= CooldownWindow
          /\ CooldownWindow \in Nat
      BY <1>0, <1>3 DEF Ask, OnCooldown, Never
    <3>2. Append(answered[g], now) \in Seq(Nat)
      BY <1>0
    <3>3. Spaced(now, Append(answered[g], now), CooldownWindow, now)
      BY <1>0, <3>1, SpacedAgain, Zenon
    <3> QED  BY <3>2, <3>3
  <2>2. /\ groupRateHits' = [groupRateHits EXCEPT ![g] = h]
        /\ activities' = [activities EXCEPT ![g] = a]
        /\ groupCooldown' = [groupCooldown EXCEPT ![g] = now]
        /\ answered' = [answered EXCEPT ![g] = Append(answered[g], now)]
        /\ now' = now
    BY <1>3 DEF Ask, LimitsTypeOK
  <2>3. now' \in Nat /\ now <= now' /\ Windowed(h, a, GroupLimit, GroupWindow, now')
    BY <1>0, <2>2
  <2>4. Spaced(now, Append(answered[g], now), CooldownWindow, now')
    BY <2>1, <2>2
  <2> HIDE DEF h, a
  <2> QED  BY <1>0, <1>2, <2>1, <2>2, <2>3, <2>4
<1>4. ASSUME NEW n \in 0..Len(h), Expires(h, n, GroupWindow), ActivityAllowed(g, n),
             UNCHANGED <<groupCooldown, answered>>
      PROVE  LimitsTypeOK' /\ LimitsInv'
  <2>1. now' \in Nat /\ now <= now'
    BY <1>0, <1>4 DEF ActivityAllowed, Later
  <2>2. /\ Kept(h, n) \in Seq(Nat) /\ Len(Kept(h, n)) < GroupLimit
        /\ Windowed(Kept(h, n), a, GroupLimit, GroupWindow, now)
    BY <1>0, <1>4, KeptFacts, WindowedKept DEF ActivityAllowed
  <2>3. /\ Append(Kept(h, n), now') \in Seq(Nat) /\ Append(a, now') \in Seq(Nat)
        /\ Windowed(Append(Kept(h, n), now'), Append(a, now'), GroupLimit, GroupWindow,
                    now')
    BY <1>0, <2>1, <2>2, WindowedAdmits
  <2>4. Spaced(groupCooldown[g], answered[g], CooldownWindow, now')
    BY <1>0, <2>1, SpacedLater
  <2>5. /\ groupRateHits' = [groupRateHits EXCEPT ![g] = Append(Kept(h, n), now')]
        /\ activities' = [activities EXCEPT ![g] = Append(a, now')]
        /\ groupCooldown' = [groupCooldown EXCEPT ![g] = groupCooldown[g]]
        /\ answered' = [answered EXCEPT ![g] = answered[g]]
    BY <1>4 DEF ActivityAllowed, LimitsTypeOK
  <2> QED  BY <1>0, <1>2, <2>1, <2>3, <2>4, <2>5
<1>5. ASSUME NEW n \in 0..Len(h), Expires(h, n, GroupWindow), ActivityRefused(g, n),
             UNCHANGED <<groupCooldown, answered>>
      PROVE  LimitsTypeOK' /\ LimitsInv'
  <2>1. /\ Kept(h, n) \in Seq(Nat)
        /\ Windowed(Kept(h, n), a, GroupLimit, GroupWindow, now)
    BY <1>0, <1>5, KeptFacts, WindowedKept
  <2>2. /\ groupRateHits' = [groupRateHits EXCEPT ![g] = Kept(h, n)]
        /\ activities' = [activities EXCEPT ![g] = a]
        /\ groupCooldown' = [groupCooldown EXCEPT ![g] = groupCooldown[g]]
        /\ answered' = [answered EXCEPT ![g] = answered[g]]
        /\ now' = now
    BY <1>5 DEF ActivityRefused, LimitsTypeOK
  <2>3. /\ now' \in Nat /\ now <= now'
        /\ Windowed(Kept(h, n), a, GroupLimit, GroupWindow, now')
        /\ Spaced(groupCooldown[g], answered[g], CooldownWindow, now')
    BY <1>0, <2>1, <2>2
  <2> QED  BY <1>0, <1>2, <2>1, <2>2, <2>3
<1>6. CASE Activity(g) \/ Quiz(g)
  BY <1>4, <1>5, <1>6 DEF Activity, Quiz
<1>7. CASE Reveal(g)
  <2>1. /\ groupRateHits' = [groupRateHits EXCEPT ![g] = h]
        /\ activities' = [activities EXCEPT ![g] = a]
        /\ groupCooldown' = [groupCooldown EXCEPT ![g] = groupCooldown[g]]
        /\ answered' = [answered EXCEPT ![g] = answered[g]]
        /\ now' = now
    BY <1>7 DEF Reveal, LimitsTypeOK
  <2>2. /\ now' \in Nat /\ now <= now'
        /\ Windowed(h, a, GroupLimit, GroupWindow, now')
        /\ Spaced(groupCooldown[g], answered[g], CooldownWindow, now')
    BY <1>0, <2>1
  <2> QED  BY <1>0, <1>2, <2>1, <2>2
<1> QED  BY <1>3, <1>6, <1>7 DEF GroupMessage

LEMMA LimitsStep ==
    ASSUME LimitsTypeOK, LimitsInv, [LimitsNext]_limitVars
    PROVE  LimitsTypeOK' /\ LimitsInv'
<1> USE GuardrailsAssumption
<1>1. CASE Tick
  <2>1. /\ now \in Nat /\ now' = now + 1 /\ UNCHANGED <<events, userVars, groupVars>>
    BY <1>1, LimitsTyped DEF Tick
  <2>2. LimitsTypeOK'
    BY <2>1 DEF LimitsTypeOK, userVars, groupVars
  <2>3. /\ \A u \in Users :
              /\ Windowed(userRateHits[u], admitted[u], UserLimit, UserWindow, now + 1)
              /\ Spaced(userRateNotify[u], noticed[u], UserWindow, now + 1)
        /\ \A g \in Groups :
              /\ Windowed(groupRateHits[g], activities[g], GroupLimit, GroupWindow, now + 1)
              /\ Spaced(groupCooldown[g], answered[g], CooldownWindow, now + 1)
    <3>1. now \in Nat /\ now + 1 \in Nat /\ now <= now + 1
      BY <2>1
    <3>2. /\ UserWindow \in Nat /\ GroupWindow \in Nat
      OBVIOUS
    <3> QED  BY <3>1, <3>2, LimitsTyped, WindowedLater, SpacedLater DEF LimitsInv
  <2> QED  BY <2>1, <2>2, <2>3 DEF LimitsInv, userVars, groupVars
<1>2. CASE ForgetLimits
  <2>1. LimitsTypeOK'
    BY <1>2 DEF ForgetLimits, Forgotten, LimitsTypeOK, NoQuiz
  <2> QED  BY <1>2, <2>1, NothingYet DEF ForgetLimits, Forgotten, LimitsInv, LimitsTypeOK
<1>3. CASE UNCHANGED limitVars
  BY <1>3 DEF limitVars, userVars, groupVars, LimitsTypeOK, LimitsInv
<1> QED  BY <1>1, <1>2, <1>3, DirectMessageStep, GroupMessageStep DEF LimitsNext

LEMMA LimitsAlways == LimitsSpec => [](LimitsTypeOK /\ LimitsInv)
<1>1. LimitsInit => LimitsTypeOK /\ LimitsInv
  BY GuardrailsAssumption, NothingYet DEF LimitsInit, LimitsTypeOK, LimitsInv, NoQuiz
<1>2. LimitsTypeOK /\ LimitsInv /\ [LimitsNext]_limitVars => LimitsTypeOK' /\ LimitsInv'
  BY LimitsStep
<1> QED  BY <1>1, <1>2, PTL DEF LimitsSpec

\* For any limits, windows, senders and groups, however the clock moves: of what
\* one process let through, no window holds more messages, activities,
\* questions or notices than allowed.
THEOREM RatesAreBounded == LimitsSpec => []RatesBounded
<1>1. LimitsInv => RatesBounded
  BY DEF LimitsInv, Windowed, Spaced, RatesBounded
<1> QED  BY <1>1, LimitsAlways, PTL

\* A message is dropped only when the limit was reached within the window.
THEOREM FloodsAreDropped == LimitsSpec => OnlyFloodsDropped
<1>1. ASSUME LimitsTypeOK, LimitsInv, [LimitsNext]_limitVars, NEW u \in Users,
             dropped'[u] > dropped[u]
      PROVE  /\ Len(admitted[u]) >= UserLimit
             /\ admitted[u][Len(admitted[u]) - UserLimit + 1] > now - UserWindow
  <2> DEFINE h == userRateHits[u]
             a == admitted[u]
  <2>1. /\ h \in Seq(Nat) /\ a \in Seq(Nat) /\ dropped[u] \in Nat
        /\ UserLimit \in Nat /\ UserLimit > 0 /\ now \in Nat
        /\ Len(h) \in Nat /\ Len(a) \in Nat
    BY <1>1, LimitsTyped, GuardrailsAssumption
  <2>2. DirectMessage(u)
    <3>1. \A g \in Groups : GroupMessage(g) => dropped' = dropped
      BY DEF GroupMessage, Ask, Activity, Quiz, Reveal, userVars
    <3>2. ForgetLimits => dropped'[u] = 0
      BY DEF ForgetLimits, Forgotten
    <3>3. \A v \in Users : v # u /\ DirectMessage(v) => dropped'[u] = dropped[u]
      <4> SUFFICES ASSUME NEW v \in Users, v # u, DirectMessage(v)
                   PROVE  dropped'[u] = dropped[u]
        OBVIOUS
      <4>1. PICK n \in 0..Len(userRateHits[v]) :
               Admit(v, n) \/ Notify(v, n) \/ DropSilently(v, n)
        BY DEF DirectMessage
      <4> QED  BY <1>1, <4>1 DEF Admit, Notify, DropSilently, LimitsTypeOK
    <3> QED  BY <1>1, <2>1, <3>1, <3>2, <3>3 DEF LimitsNext, Tick, limitVars, userVars
  <2>3. PICK n \in 0..Len(h) :
           /\ Expires(h, n, UserWindow)
           /\ Admit(u, n) \/ Notify(u, n) \/ DropSilently(u, n)
    BY <2>2 DEF DirectMessage
  <2>4. ~Admit(u, n)
    BY <1>1, <2>1 DEF Admit
  <2>5. Len(h) - n >= UserLimit
    BY <2>3, <2>4 DEF Notify, DropSilently
  <2> HIDE DEF h, a
  <2>6. PICK i \in (n + 1)..Len(h) : i = Len(h) - UserLimit + 1
    <3>1. Len(h) - UserLimit + 1 \in (n + 1)..Len(h)
      BY <2>1, <2>5
    <3> QED  BY <3>1
  <2>7. h[i] > now - UserWindow /\ i \in 1..Len(h)
    BY <2>1, <2>3 DEF Expires
  <2>8. Len(a) - Len(h) + i = Len(a) - UserLimit + 1
    BY <2>1, <2>6
  <2>9. Len(h) <= Len(a) /\ h[i] = a[Len(a) - Len(h) + i]
    BY <1>1, <2>7 DEF LimitsInv, Windowed, h, a
  <2>10. Len(a) >= UserLimit
    BY <2>1, <2>5, <2>9
  <2> QED  BY <2>7, <2>8, <2>9, <2>10 DEF h, a
<1>2. LimitsTypeOK /\ LimitsInv /\ [LimitsNext]_limitVars =>
        [\A u \in Users :
            dropped'[u] > dropped[u] =>
              LET n == Len(admitted[u]) IN
              n >= UserLimit /\ admitted[u][n - UserLimit + 1] > now - UserWindow]_limitVars
  BY <1>1
<1> QED  BY <1>2, LimitsAlways, PTL DEF LimitsSpec, OnlyFloodsDropped

LEMMA QuizStep ==
    ASSUME LimitsTypeOK, QuizInv, [LimitsNext]_limitVars
    PROVE  QuizInv'
<1>1. CASE UNCHANGED <<groupQuizState, polls, revealed>>
  BY <1>1 DEF QuizInv
<1>2. CASE ForgetLimits
  BY <1>2 DEF ForgetLimits, Forgotten, QuizInv
<1>3. ASSUME NEW g \in Groups, Quiz(g)
      PROVE  QuizInv'
  <2>1. /\ polls[g] \in Nat /\ revealed[g] \in Seq(Nat) /\ revealed' = revealed
        /\ polls'[g] = polls[g] + 1 /\ groupQuizState'[g] = polls[g] + 1
        /\ \A k \in Groups : k # g => /\ polls'[k] = polls[k]
                                      /\ groupQuizState'[k] = groupQuizState[k]
    BY <1>3, LimitsTyped DEF Quiz, LimitsTypeOK
  <2>2. \A i \in 1..Len(revealed[g]) : revealed[g][i] \in Nat
    BY <2>1
  <2> QED  BY <2>1, <2>2 DEF QuizInv
<1>4. ASSUME NEW g \in Groups, Reveal(g)
      PROVE  QuizInv'
  <2>1. /\ polls[g] \in Nat /\ revealed[g] \in Seq(Nat) /\ polls' = polls
        /\ groupQuizState[g] = polls[g] /\ groupQuizState'[g] = NoQuiz
        /\ revealed'[g] = Append(revealed[g], polls[g])
        /\ \A k \in Groups : k # g => /\ revealed'[k] = revealed[k]
                                      /\ groupQuizState'[k] = groupQuizState[k]
    BY <1>4, LimitsTyped DEF Reveal, LimitsTypeOK, QuizInv
  <2>2. \A i \in 1..Len(revealed'[g]) : revealed'[g][i] <= polls[g]
    BY <2>1 DEF QuizInv
  <2> QED  BY <2>1, <2>2 DEF QuizInv
<1>5. ASSUME NEW g \in Groups, Ask(g) \/ Activity(g)
      PROVE  UNCHANGED <<groupQuizState, polls, revealed>>
  BY <1>5 DEF Ask, Activity
<1> QED  BY <1>1, <1>2, <1>3, <1>4, <1>5
            DEF LimitsNext, DirectMessage, GroupMessage, Tick, limitVars, groupVars

\* /greveal discloses the last quiz posted, and none a second time.
THEOREM RevealsAreLast == LimitsSpec => RevealsLast
<1>1. LimitsInit => QuizInv
  BY DEF LimitsInit, QuizInv
<1>2. LimitsTypeOK /\ QuizInv /\ [LimitsNext]_limitVars => QuizInv'
  BY QuizStep
<1>3. ASSUME LimitsTypeOK, QuizInv, [LimitsNext]_limitVars, NEW g \in Groups,
             Len(revealed'[g]) > Len(revealed[g])
      PROVE  LET quiz == revealed'[g][Len(revealed[g]) + 1] IN
             /\ quiz = polls[g]
             /\ \A i \in 1..Len(revealed[g]) : revealed[g][i] # quiz
  <2>1. /\ polls[g] \in Nat /\ revealed[g] \in Seq(Nat) /\ Len(revealed[g]) \in Nat
        /\ \A i \in 1..Len(revealed[g]) : revealed[g][i] \in Nat
    BY <1>3, LimitsTyped
  <2>2. Reveal(g)
    <3>1. \A k \in Groups : Ask(k) \/ Activity(k) \/ Quiz(k) => revealed' = revealed
      BY DEF Ask, Activity, Quiz
    <3>2. ForgetLimits => Len(revealed'[g]) = 0
      BY DEF ForgetLimits, Forgotten
    <3>3. \A k \in Groups : k # g /\ Reveal(k) => revealed'[g] = revealed[g]
      BY DEF Reveal, LimitsTypeOK
    <3> QED  BY <1>3, <2>1, <3>1, <3>2, <3>3
                DEF LimitsNext, DirectMessage, GroupMessage, Tick, limitVars, groupVars
  <2>3. /\ groupQuizState[g] = polls[g] /\ groupQuizState[g] # NoQuiz
        /\ revealed'[g] = Append(revealed[g], polls[g])
    BY <1>3, <2>2 DEF Reveal, LimitsTypeOK, QuizInv
  <2>4. \A i \in 1..Len(revealed[g]) : revealed[g][i] < polls[g]
    BY <1>3, <2>3 DEF QuizInv
  <2> QED  BY <2>1, <2>3, <2>4
<1>4. LimitsTypeOK /\ QuizInv /\ [LimitsNext]_limitVars =>
        [\A g \in Groups :
            Len(revealed'[g]) > Len(revealed[g]) =>
              LET quiz == revealed'[g][Len(revealed[g]) + 1] IN
              /\ quiz = polls[g]
              /\ \A i \in 1..Len(revealed[g]) : revealed[g][i] # quiz]_limitVars
  BY <1>3
<1> QED  BY <1>1, <1>2, <1>4, LimitsAlways, PTL DEF LimitsSpec, RevealsLast

=============================================================================
