----------------------------- MODULE Lifecycle -----------------------------
(***************************************************************************)
(* The life of a user's record: the whitelist that admits messages, the    *)
(* queue that carries them (JobQueue), the worker that fetches or creates  *)
(* the sender's row and runs the message, the commands and panel handlers  *)
(* that add, edit and erase users, and the restart that rebuilds the       *)
(* whitelist from the rows.                                                *)
(*                                                                         *)
(* The worker and every panel request is a thread that performs one        *)
(* database statement or one whitelist call per step: database.Connect     *)
(* sets MaxOpenConns(1), so single statements are serialised and sequences *)
(* of them are not.  A thread keeps, as the Go code does, the copy of the  *)
(* row it read first.  Database errors other than the UNIQUE ones are not  *)
(* modelled.  A row keeps its primary key, IsAdmin and OnboardingDone; of  *)
(* messages and memberships only whose they are.                           *)
(***************************************************************************)
EXTENDS JobQueue, FiniteSets

CONSTANTS Numbers,       \* phone numbers
          Owners,        \* numbers whose own WhatsApp is linked (role personal)
          SharedClient,  \* the client of the shared account
          Registered,    \* the rows found at first boot, oldest first
          InitialAdmin,  \* at most one number: cfg.InitialAdminNumber
          Worker,        \* the queue worker
          Panels,        \* panel request goroutines
          PanelOps,      \* the panel handlers that may be called
          MaxRequests,   \* bound: panel requests
          Restarts       \* whether the process may be restarted

Commands == {"chat", "profile", "forget", "group", "add", "delete"}
AllPanelOps == {"add", "addself", "edit", "delete", "wipe"}
Threads == Panels \cup {Worker}

ASSUME LifecycleAssumption ==
    /\ Numbers # {}
    /\ Owners \subseteq Numbers
    /\ SharedClient \notin Numbers
    /\ Clients = Owners \cup {SharedClient}
    /\ Payload \subseteq [from : Numbers, cmd : Commands, to : Numbers]
    /\ Registered \in Seq(Numbers)
    /\ \A i, j \in DOMAIN Registered : Registered[i] = Registered[j] => i = j
    /\ InitialAdmin \subseteq Numbers
    /\ \A m, n \in InitialAdmin : m = n
    /\ Worker \notin Panels
    /\ PanelOps \subseteq AllPanelOps
    /\ MaxRequests \in Nat
    /\ Restarts \in BOOLEAN

VARIABLES users,      \* table usuarios, by number (UNIQUE); id 0 is no row
          issued,     \* issued[i]: the number AUTOINCREMENT id i was issued to
          messages,   \* table mensagems: <<user id, who wrote it>>
          members,    \* table grupo_membros: <<user id, whose membership>>
          whitelist,  \* middleware.Instance.whitelist
          thread,     \* per thread: next step, number and row copy at hand
          requests,   \* panel requests so far
          invited,    \* numbers that have been given access at some time
          erased      \* numbers erased, and not added again since

dataVars == <<users, issued, messages, members, whitelist>>
historyVars == <<requests, invited, erased>>
vars == <<queueVars, dataVars, thread, historyVars>>

Row == [id : Nat, admin : BOOLEAN, done : BOOLEAN]
NoRow == [id |-> 0, admin |-> FALSE, done |-> FALSE]
HasRow(n) == users[n].id # 0

Steps == {"idle", "fetch", "create", "dispatch", "answer", "fold", "foldSave",
          "join", "save", "find", "addCreate", "selfSave", "list",
          "purgeMessages", "purgeMembers", "purgeRow", "unlist",
          "wipeMessages", "wipeMembers", "wipeUsers", "wipeWhitelist"}
Thread == [pc : Steps, num : Numbers, row : Row]
At(t, step) == thread[t].pc = step

job == current.body

\* A thread between two handlers has nothing at hand.
IdleThread == [pc |-> "idle", num |-> CHOOSE n \in Numbers : TRUE, row |-> NoRow]

\* Thread t goes on to a step, with row r of number n at hand.
GoWith(t, step, n, r) ==
    thread' = [thread EXCEPT ![t] = [pc |-> step, num |-> n, row |-> r]]
Go(t, step) == GoWith(t, step, thread[t].num, thread[t].row)

\* The handler returns: the worker's ProcessFunc or the panel's request.
Return(t) == /\ thread' = [thread EXCEPT ![t] = IdleThread]
             /\ IF t = Worker THEN Finish ELSE UNCHANGED queueVars

-----------------------------------------------------------------------------
(* The statements of internal/repository. *)

\* Rejected: ids handed out without AUTOINCREMENT, the lowest free one first.
CreateRowReusingId(n, r) ==
    /\ ~HasRow(n)
    /\ LET free == {i \in 1 .. Len(issued) + 1 : \A m \in Numbers : users[m].id # i}
       IN users' = [users EXCEPT ![n] =
                      [r EXCEPT !.id = CHOOSE i \in free : \A j \in free : i <= j]]
    /\ issued' = Append(issued, n)

\* UserRepository.Create: a new row gets the next AUTOINCREMENT id, and fails
\* when the number already has a row.  The branch that restores a soft-deleted
\* row is left out: every erasure of the program deletes for good (Unscoped), so
\* only a database of an older version could hold one.
CreateRow(n, r) ==
    /\ ~HasRow(n)
    /\ users' = [users EXCEPT ![n] = [r EXCEPT !.id = Len(issued) + 1]]
    /\ issued' = Append(issued, n)

\* UserRepository.Update: gorm's Save writes the whole row back; when no row
\* has the id any more it inserts the copy under its old id, unless the number
\* has got another row (UNIQUE numero_wpp).
SaveRow(n, r) ==
    users' = IF users[n].id \in {r.id, 0} THEN [users EXCEPT ![n] = r] ELSE users

\* An administrator's decision to give n access, in the observer's books.
Invite(n) == /\ invited' = invited \cup {n}
             /\ erased' = erased \ {n}

-----------------------------------------------------------------------------
(* The message path up to the worker. *)

\* Rejected: the shared account serves everyone.
AdmittedUnchecked(c, p) == IF c = SharedClient THEN TRUE
                                               ELSE p.from = c /\ p.cmd # "group"

\* The sender check of handleEvent: a personal client serves its owner's
\* self-chat without a whitelist, the shared one asks the whitelist.
Admitted(c, p) == IF c = SharedClient THEN p.from \in whitelist
                                      ELSE p.from = c /\ p.cmd # "group"

Receive(c, p) == /\ Admitted(c, p)
                 /\ Accept(c, p)
                 /\ UNCHANGED <<dataVars, thread, historyVars>>

GiveUp(c) == Refuse(c) /\ UNCHANGED <<dataVars, thread, historyVars>>

Deliver(c) == Enqueue(c) /\ UNCHANGED <<dataVars, thread, historyVars>>

Begin == /\ At(Worker, "idle")
         /\ Take
         /\ GoWith(Worker, "fetch", Head(queue).body.from, NoRow)
         /\ UNCHANGED <<dataVars, historyVars>>

-----------------------------------------------------------------------------
(* ProcessWhatsAppMessage. *)

FetchUser ==
    /\ At(Worker, "fetch")
    /\ IF HasRow(job.from)
       THEN GoWith(Worker, "dispatch", job.from, users[job.from])
       ELSE Go(Worker, "create")
    /\ UNCHANGED <<queueVars, dataVars, historyVars>>

\* Rejected: a sender without a row is registered like an added user.
CreateSenderEnlisted ==
    /\ At(Worker, "create")
    /\ CreateRow(job.from, NoRow)
    /\ whitelist' = whitelist \cup {job.from}
    /\ GoWith(Worker, "dispatch", job.from, users'[job.from])
    /\ UNCHANGED <<queueVars, messages, members, historyVars>>

\* A sender without a row gets a fresh one; losing the race to another insert
\* ends the job with an error.
CreateSender ==
    /\ At(Worker, "create")
    /\ \/ /\ CreateRow(job.from, NoRow)
          /\ GoWith(Worker, "dispatch", job.from, users'[job.from])
          /\ UNCHANGED queueVars
       \/ /\ HasRow(job.from)
          /\ Return(Worker)
          /\ UNCHANGED <<users, issued>>
    /\ UNCHANGED <<messages, members, whitelist, historyVars>>

\* The per-user rate limit ends a direct message (see RateLimit).
Throttle == /\ At(Worker, "dispatch")
            /\ job.cmd # "group"
            /\ Return(Worker)
            /\ UNCHANGED <<dataVars, historyVars>>

\* Where a message goes once its sender is known.  Commands of an admin that
\* the sender is not, are ordinary text; text of a user who has not finished
\* the interview is an answer to it.
Route(r) ==
    CASE job.cmd = "group" -> "join"
      [] job.cmd = "forget" -> "purgeMessages"
      [] job.cmd = "profile" -> "save"
      [] job.cmd = "add" /\ r.admin -> "addCreate"
      [] job.cmd = "delete" /\ r.admin -> "find"
      [] OTHER -> IF r.done THEN "answer" ELSE "save"

Dispatch ==
    /\ At(Worker, "dispatch")
    /\ LET r == thread[Worker].row
           step == Route(r)
       IN IF step = "addCreate"
          THEN GoWith(Worker, step, job.to, NoRow)
          ELSE \* /restart clears OnboardingDone, the last answer sets it
               \E d \in IF step = "save" THEN BOOLEAN ELSE {r.done} :
                  GoWith(Worker, step, job.from, [r EXCEPT !.done = d])
    /\ UNCHANGED <<queueVars, dataVars, historyVars>>

\* The interview rejects an answer and saves nothing.
AskAgain == /\ At(Worker, "dispatch")
            /\ Route(thread[Worker].row) = "save"
            /\ Return(Worker)
            /\ UNCHANGED <<dataVars, historyVars>>

\* The tutor answers: both sides are stored under the id fetched at the start.
\* (Two inserts; what an erasure between them leaves, one after it leaves too.)
\* A failed LLM call stores nothing.  The deferred summary runs in any case.
Answer ==
    /\ At(Worker, "answer")
    /\ \/ messages' = messages \cup {<<thread[Worker].row.id, job.from>>}
       \/ UNCHANGED messages
    /\ Go(Worker, "fold")
    /\ UNCHANGED <<queueVars, users, issued, members, whitelist, historyVars>>

\* maybeSummarizeHistory: mostly there is nothing to fold; otherwise the row
\* is read again by id, and saved with the new summary (see History).
Fold ==
    /\ At(Worker, "fold")
    /\ \/ Return(Worker)
       \/ /\ users[job.from].id = thread[Worker].row.id
          /\ GoWith(Worker, "foldSave", job.from, users[job.from])
          /\ UNCHANGED queueVars
    /\ UNCHANGED <<dataVars, historyVars>>

FoldSave == /\ At(Worker, "foldSave")
            /\ SaveRow(thread[Worker].num, thread[Worker].row)
            /\ Return(Worker)
            /\ UNCHANGED <<issued, messages, members, whitelist, historyVars>>

\* A group message makes its sender a member and then saves ActiveGroupID.
JoinGroup ==
    /\ At(Worker, "join")
    /\ members' = members \cup {<<thread[Worker].row.id, job.from>>}
    /\ Go(Worker, "save")
    /\ UNCHANGED <<queueVars, users, issued, messages, whitelist, historyVars>>

\* /delete looks the number up, and answers "not found" or erases.
FindTarget ==
    /\ At(Worker, "find")
    /\ IF HasRow(job.to)
       THEN GoWith(Worker, "purgeMessages", job.to, users[job.to]) /\ UNCHANGED queueVars
       ELSE Return(Worker)
    /\ UNCHANGED <<dataVars, historyVars>>

-----------------------------------------------------------------------------
(* Statements that commands and panel handlers share. *)

Save(t) == /\ At(t, "save")
           /\ SaveRow(thread[t].num, thread[t].row)
           /\ Return(t)
           /\ UNCHANGED <<issued, messages, members, whitelist, historyVars>>

\* /add ignores a failing insert; the panel's handlers report it and stop.
AddCreate(t) ==
    /\ At(t, "addCreate")
    /\ \/ /\ CreateRow(thread[t].num, thread[t].row)
          /\ Invite(thread[t].num)
          /\ Go(t, "list")
          /\ UNCHANGED queueVars
       \/ /\ HasRow(thread[t].num)
          /\ IF t = Worker THEN Go(t, "list") /\ UNCHANGED queueVars ELSE Return(t)
          /\ UNCHANGED <<users, issued, invited, erased>>
    /\ UNCHANGED <<messages, members, whitelist, requests>>

ListNumber(t) == /\ At(t, "list")
                 /\ whitelist' = whitelist \cup {thread[t].num}
                 /\ Invite(thread[t].num)
                 /\ Return(t)
                 /\ UNCHANGED <<users, issued, messages, members, requests>>

\* eraseUser: messages, memberships, the row, and then the whitelist entry.
PurgeMessages(t) ==
    /\ At(t, "purgeMessages")
    /\ messages' = {m \in messages : m[1] # thread[t].row.id}
    /\ Go(t, "purgeMembers")
    /\ UNCHANGED <<queueVars, users, issued, members, whitelist, historyVars>>

\* Rejected: an erasure that forgets the memberships.
PurgeMembersForgotten(t) ==
    /\ At(t, "purgeMembers")
    /\ Go(t, "purgeRow")
    /\ UNCHANGED <<queueVars, dataVars, historyVars>>

PurgeMembers(t) ==
    /\ At(t, "purgeMembers")
    /\ members' = {m \in members : m[1] # thread[t].row.id}
    /\ Go(t, "purgeRow")
    /\ UNCHANGED <<queueVars, users, issued, messages, whitelist, historyVars>>

PurgeRow(t) ==
    /\ At(t, "purgeRow")
    /\ users' = [n \in Numbers |->
                   IF users[n].id = thread[t].row.id THEN NoRow ELSE users[n]]
    /\ Go(t, "unlist")
    /\ UNCHANGED <<queueVars, issued, messages, members, whitelist, historyVars>>

\* Rejected: an erasure that leaves the number in the whitelist.
UnlistForgotten(t) == /\ At(t, "unlist")
                      /\ erased' = erased \cup {thread[t].num}
                      /\ Return(t)
                      /\ UNCHANGED <<dataVars, requests, invited>>

Unlist(t) ==
    /\ At(t, "unlist")
    /\ whitelist' = whitelist \ {thread[t].num}
    /\ erased' = erased \cup {thread[t].num}
    /\ Return(t)
    /\ UNCHANGED <<users, issued, messages, members, requests, invited>>

-----------------------------------------------------------------------------
(* The panel's handlers (web_admin.go). *)

\* A request of kind op reaches an idle goroutine.
Request(p, op) == /\ At(p, "idle")
                  /\ op \in PanelOps
                  /\ requests < MaxRequests
                  /\ requests' = requests + 1
                  /\ UNCHANGED <<queueVars, dataVars, invited, erased>>

\* handlePostAddUser: the form makes a complete profile.
PanelAdd(p, n) ==
    /\ Request(p, "add")
    /\ \E a \in BOOLEAN :
          GoWith(p, "addCreate", n, [id |-> 0, admin |-> a, done |-> TRUE])

\* handlePostAddSelf looks the number up first.
PanelAddSelf(p, n) ==
    /\ Request(p, "addself")
    /\ IF HasRow(n)
       THEN GoWith(p, "selfSave", n, [users[n] EXCEPT !.admin = TRUE])
       ELSE GoWith(p, "addCreate", n, [NoRow EXCEPT !.admin = TRUE])

SelfSave(p) == /\ At(p, "selfSave")
               /\ SaveRow(thread[p].num, thread[p].row)
               /\ Go(p, "list")
               /\ UNCHANGED <<queueVars, issued, messages, members, whitelist,
                              historyVars>>

\* Toggle-admin, XP, privacy and personal AI: read by id, change, save.
PanelEdit(p, n) ==
    /\ Request(p, "edit")
    /\ HasRow(n)
    /\ \E a \in BOOLEAN : GoWith(p, "save", n, [users[n] EXCEPT !.admin = a])

\* handlePostDeleteUser reads the row by id and runs eraseUser.
PanelDelete(p, n) == /\ Request(p, "delete")
                     /\ HasRow(n)
                     /\ GoWith(p, "purgeMessages", n, users[n])

\* wipeUserData: Danger Zone and untrusted password reset.
PanelWipe(p) == /\ Request(p, "wipe")
                /\ Go(p, "wipeMessages")

WipeMessages(p) ==
    /\ At(p, "wipeMessages")
    /\ messages' = {}
    /\ Go(p, "wipeMembers")
    /\ UNCHANGED <<queueVars, users, issued, members, whitelist, historyVars>>

WipeMembers(p) ==
    /\ At(p, "wipeMembers")
    /\ members' = {}
    /\ Go(p, "wipeUsers")
    /\ UNCHANGED <<queueVars, users, issued, messages, whitelist, historyVars>>

WipeUsers(p) ==
    /\ At(p, "wipeUsers")
    /\ users' = [n \in Numbers |-> NoRow]
    /\ Go(p, "wipeWhitelist")
    /\ UNCHANGED <<queueVars, issued, messages, members, whitelist, historyVars>>

WipeWhitelist(p) ==
    /\ At(p, "wipeWhitelist")
    /\ whitelist' = {}
    /\ erased' = Numbers
    /\ Return(p)
    /\ UNCHANGED <<users, issued, messages, members, requests, invited>>

-----------------------------------------------------------------------------
(* main *)

\* The initial admin's row is created when it is missing, and every row's
\* number goes into the whitelist.
RegisterAdmin(rows, ids) ==
    LET missing == {n \in InitialAdmin : rows[n].id = 0} IN
    [users  |-> [n \in Numbers |->
                   IF n \in missing
                   THEN [id |-> Len(ids) + 1, admin |-> TRUE, done |-> TRUE]
                   ELSE rows[n]],
     issued |-> IF missing = {} THEN ids ELSE Append(ids, CHOOSE n \in missing : TRUE)]

BootRows == [n \in Numbers |->
    IF \E i \in DOMAIN Registered : Registered[i] = n
    THEN [id |-> CHOOSE i \in DOMAIN Registered : Registered[i] = n,
          admin |-> n \in InitialAdmin, done |-> TRUE]
    ELSE NoRow]

Init ==
    /\ QueueInit
    /\ LET boot == RegisterAdmin(BootRows, Registered) IN
       /\ users = boot.users
       /\ issued = boot.issued
    /\ messages = {}
    /\ members = {}
    /\ whitelist = {n \in Numbers : HasRow(n)}
    /\ thread = [t \in Threads |-> IdleThread]
    /\ requests = 0
    /\ invited = whitelist
    /\ erased = {}

\* The process ends at any point, also between two statements, and starts again.
Restart ==
    /\ Restarts
    /\ Stop
    /\ LET boot == RegisterAdmin(users, issued) IN
       /\ users' = boot.users
       /\ issued' = boot.issued
       /\ whitelist' = {n \in Numbers : boot.users[n].id # 0}
    /\ thread' = [t \in Threads |-> IdleThread]
    /\ invited' = invited \cup InitialAdmin
    /\ erased' = erased \ InitialAdmin
    /\ UNCHANGED <<messages, members, requests>>

-----------------------------------------------------------------------------
WorkerStep == \/ Begin \/ FetchUser \/ CreateSender \/ Throttle \/ Dispatch
              \/ AskAgain \/ Answer \/ Fold \/ FoldSave \/ JoinGroup \/ FindTarget

ThreadStep(t) == \/ Save(t) \/ AddCreate(t) \/ ListNumber(t)
                 \/ PurgeMessages(t) \/ PurgeMembers(t) \/ PurgeRow(t) \/ Unlist(t)

PanelStep(p) == \/ \E n \in Numbers : \/ PanelAdd(p, n) \/ PanelAddSelf(p, n)
                                      \/ PanelEdit(p, n) \/ PanelDelete(p, n)
                \/ SelfSave(p)
                \/ PanelWipe(p) \/ WipeMessages(p) \/ WipeMembers(p)
                \/ WipeUsers(p) \/ WipeWhitelist(p)

Next == \/ \E c \in Clients : \/ \E p \in Payload : Receive(c, p)
                              \/ GiveUp(c)
                              \/ Deliver(c)
        \/ WorkerStep
        \/ \E t \in Threads : ThreadStep(t)
        \/ \E p \in Panels : PanelStep(p)
        \/ Restart

Spec == Init /\ [][Next]_vars

-----------------------------------------------------------------------------
TypeOK ==
    /\ QueueTypeOK
    /\ users \in [Numbers -> Row]
    /\ issued \in Seq(Numbers)
    /\ messages \subseteq Nat \X Numbers
    /\ members \subseteq Nat \X Numbers
    /\ whitelist \subseteq Numbers
    /\ thread \in [Threads -> Thread]
    /\ requests \in 0 .. MaxRequests
    /\ invited \subseteq Numbers
    /\ erased \subseteq Numbers

\* No conversation and no membership ever comes into the hands of another
\* number: whatever erasures, stale saves that re-insert a row under its old
\* id, new rows and restarts happen in between, the rows stored under the id
\* of a user's row were left by that user (GetRecentMessages looks them up by
\* the id alone).
NoInheritedHistory ==
    \A n \in Numbers : \A m \in messages \cup members :
        m[1] = users[n].id => m[2] = n

\* A profile exists only for numbers that were given access at some time or
\* whose own phone is linked; the worker's "whitelist pre-validated" insert
\* and the saves of stale copies add no one else.
OnlyInvited == \A n \in Numbers : HasRow(n) => n \in invited \cup Owners

\* Messages and memberships belong to an existing row at every moment, also
\* after a crash in the middle of eraseUser: a user whose erasure was cut
\* short is still there to be erased again.
NoOrphans == \A m \in messages \cup members : \E n \in Numbers : users[n].id = m[1]

\* Whoever may write has a row, except while eraseUser is between deleting
\* the row and updating the whitelist.
WhitelistedHasRow ==
    \A n \in whitelist :
        HasRow(n) \/ \E t \in Threads : At(t, "unlist") /\ thread[t].num = n

\* An erased number stays locked out until somebody adds it again ("To use
\* the bot again later, ask the admin to re-add your number"); only a restart,
\* which rebuilds the whitelist from the rows, can let it back in.
ErasedStaysOut ==
    [][\A n \in erased' \cap whitelist' : n \in erased \cap whitelist \/ Restart]_vars

=============================================================================
