-------------------------- MODULE Lifecycle_proofs --------------------------
(***************************************************************************)
(* Proofs about the records of users, for any numbers, messages, panels    *)
(* and requests: the system's steps are steps of the message path, rows    *)
(* only appear for numbers with access, no conversation changes hands, and *)
(* erasures leave nothing behind and let nobody back in.                   *)
(***************************************************************************)
EXTENDS Lifecycle, JobQueue_proofs

(* What the threads do to the message path. *)

LEMMA ReturnStep ==
    ASSUME NEW t, Return(t)
    PROVE  [QueueNext]_queueVars
  BY DEF Return, QueueNext

LEMMA WorkerQueueStep ==
    ASSUME WorkerStep
    PROVE  [QueueNext]_queueVars
<1>1. CASE Begin
  BY <1>1 DEF Begin, QueueNext
<1>2. CASE FetchUser
  BY <1>2 DEF FetchUser
<1>3. CASE CreateSender
  BY <1>3, ReturnStep DEF CreateSender
<1>4. CASE Throttle
  BY <1>4, ReturnStep DEF Throttle
<1>5. CASE Dispatch
  BY <1>5 DEF Dispatch
<1>6. CASE AskAgain
  BY <1>6, ReturnStep DEF AskAgain
<1>7. CASE Answer
  BY <1>7 DEF Answer
<1>8. CASE Fold
  BY <1>8, ReturnStep DEF Fold
<1>9. CASE FoldSave
  BY <1>9, ReturnStep DEF FoldSave
<1>10. CASE JoinGroup
  BY <1>10 DEF JoinGroup
<1>11. CASE FindTarget
  BY <1>11, ReturnStep DEF FindTarget
<1> QED  BY <1>1, <1>2, <1>3, <1>4, <1>5, <1>6, <1>7, <1>8, <1>9, <1>10, <1>11
            DEF WorkerStep

LEMMA ThreadQueueStep ==
    ASSUME NEW t, ThreadStep(t)
    PROVE  [QueueNext]_queueVars
<1>1. CASE Save(t)
  BY <1>1, ReturnStep DEF Save
<1>2. CASE AddCreate(t)
  BY <1>2, ReturnStep DEF AddCreate
<1>3. CASE ListNumber(t)
  BY <1>3, ReturnStep DEF ListNumber
<1>4. CASE Unlist(t)
  BY <1>4, ReturnStep DEF Unlist
<1> QED  BY <1>1, <1>2, <1>3, <1>4
            DEF ThreadStep, PurgeMessages, PurgeMembers, PurgeRow

LEMMA PanelQueueStep ==
    ASSUME NEW p, PanelStep(p)
    PROVE  [QueueNext]_queueVars
<1>1. CASE WipeWhitelist(p)
  BY <1>1, ReturnStep DEF WipeWhitelist
<1>2. CASE \E n \in Numbers : \/ PanelAdd(p, n) \/ PanelAddSelf(p, n)
                             \/ PanelEdit(p, n) \/ PanelDelete(p, n)
  BY <1>2 DEF PanelAdd, PanelAddSelf, PanelEdit, PanelDelete, Request
<1> QED  BY <1>1, <1>2 DEF PanelStep, SelfSave, PanelWipe, Request, WipeMessages,
                           WipeMembers, WipeUsers

LEMMA QueueStep ==
    ASSUME [Next]_vars
    PROVE  [QueueNext]_queueVars
<1>1. ASSUME NEW c \in Clients, NEW p \in Payload, Receive(c, p)
      PROVE  [QueueNext]_queueVars
  BY <1>1 DEF Receive, QueueNext
<1>2. ASSUME NEW c \in Clients, GiveUp(c) \/ Deliver(c)
      PROVE  [QueueNext]_queueVars
  BY <1>2 DEF GiveUp, Deliver, QueueNext
<1>3. CASE Restart
  BY <1>3 DEF Restart, QueueNext
<1>4. CASE UNCHANGED vars
  BY <1>4 DEF vars, queueVars
<1> QED  BY <1>1, <1>2, <1>3, <1>4, WorkerQueueStep, ThreadQueueStep,
            PanelQueueStep DEF Next

\* Whatever the commands, the panel and the restarts do, the system's messages
\* move as JobQueue says; what is proved of QueueSpec holds of Spec.
THEOREM QueueUsed == Spec => QueueSpec
<1>1. [Next]_vars => [QueueNext]_queueVars
  BY QueueStep
<1>2. Init => QueueInit
  BY DEF Init
<1> QED  BY <1>1, <1>2, PTL DEF Spec, QueueSpec

-----------------------------------------------------------------------------
(* Types. *)

\* The worker is between two jobs exactly when it has none.
WorkerInv == At(Worker, "idle") <=> current = NoMessage

DataTypes == /\ users \in [Numbers -> Row]
             /\ issued \in Seq(Numbers)
             /\ messages \subseteq Nat \X Numbers
             /\ members \subseteq Nat \X Numbers
             /\ whitelist \subseteq Numbers
             /\ thread \in [Threads -> Thread]
             /\ requests \in 0 .. MaxRequests
             /\ invited \subseteq Numbers
             /\ erased \subseteq Numbers

LEMMA Parts == TypeOK <=> QueueTypeOK /\ DataTypes
  BY DEF TypeOK, DataTypes

LEMMA Constants ==
    /\ Worker \in Threads
    /\ Panels \subseteq Threads
    /\ Worker \notin Panels
    /\ NoRow \in Row
    /\ IdleThread \in Thread
    /\ IdleThread.pc = "idle" /\ IdleThread.row = NoRow
<1>1. (CHOOSE n \in Numbers : TRUE) \in Numbers
  BY LifecycleAssumption
<1>2. IdleThread \in Thread
  BY <1>1 DEF IdleThread, Thread, Steps, Row, NoRow
<1> QED  BY <1>2, LifecycleAssumption DEF Threads, Row, NoRow, IdleThread

\* The sender and the target of the job at hand are numbers.
LEMMA JobType ==
    ASSUME QueueTypeOK, current # NoMessage
    PROVE  /\ job \in Payload
           /\ job.from \in Numbers
           /\ job.to \in Numbers
<1>1. current \in Message
  BY DEF QueueTypeOK
<1>2. job \in Payload
  BY <1>1 DEF Message, job
<1> QED  BY <1>2, LifecycleAssumption

LEMMA ThreadType ==
    ASSUME DataTypes, NEW t \in Threads
    PROVE  /\ thread[t].num \in Numbers
           /\ thread[t].row \in Row
           /\ thread[t].row.id \in Nat
  BY DEF DataTypes, Thread, Row

\* A thread goes on, returns, or a row is created or saved: the types stay.
LEMMA GoWithType ==
    ASSUME DataTypes, NEW t \in Threads, NEW step \in Steps, NEW n \in Numbers,
           NEW r \in Row, GoWith(t, step, n, r)
    PROVE  thread' \in [Threads -> Thread]
  BY DEF DataTypes, GoWith, Thread

LEMMA GoType ==
    ASSUME DataTypes, NEW t \in Threads, NEW step \in Steps, Go(t, step)
    PROVE  thread' \in [Threads -> Thread]
  BY ThreadType, GoWithType DEF Go

LEMMA ReturnType ==
    ASSUME DataTypes, NEW t \in Threads, Return(t)
    PROVE  thread' \in [Threads -> Thread]
  BY Constants DEF DataTypes, Return

LEMMA CreateRowType ==
    ASSUME DataTypes, NEW n \in Numbers, NEW r \in Row, CreateRow(n, r)
    PROVE  users' \in [Numbers -> Row] /\ issued' \in Seq(Numbers)
<1>1. Len(issued) + 1 \in Nat
  BY DEF DataTypes
<1>2. [r EXCEPT !.id = Len(issued) + 1] \in Row
  BY <1>1 DEF Row
<1> QED  BY <1>2, AppendFacts DEF DataTypes, CreateRow

LEMMA SaveRowType ==
    ASSUME DataTypes, NEW n \in Numbers, NEW r \in Row, SaveRow(n, r)
    PROVE  users' \in [Numbers -> Row]
  BY DEF DataTypes, SaveRow

LEMMA RequestType ==
    ASSUME DataTypes, NEW p, NEW op, Request(p, op)
    PROVE  requests' \in 0 .. MaxRequests
  BY LifecycleAssumption DEF DataTypes, Request

LEMMA WorkerDataTypes ==
    ASSUME QueueTypeOK, DataTypes, WorkerInv, WorkerStep
    PROVE  DataTypes'
<1> USE Constants DEF Steps
<1>1. ASSUME ~At(Worker, "idle")
      PROVE  job \in Payload /\ job.from \in Numbers /\ job.to \in Numbers
  BY <1>1, JobType DEF WorkerInv
<1>2. CASE Begin
  <2>1. Head(queue).body.from \in Numbers
    <3>1. Head(queue) \in Message
      BY <1>2, TailFacts DEF Begin, Take, QueueTypeOK
    <3> QED  BY <3>1, LifecycleAssumption DEF Message
  <2>2. thread' \in [Threads -> Thread]
    BY <1>2, <2>1, GoWithType DEF Begin
  <2> QED  BY <1>2, <2>2 DEF Begin, DataTypes, dataVars, historyVars
<1>3. CASE FetchUser
  <2>1. job.from \in Numbers /\ users[job.from] \in Row
    BY <1>1, <1>3 DEF FetchUser, At, DataTypes
  <2>2. thread' \in [Threads -> Thread]
    BY <1>3, <2>1, GoWithType, GoType DEF FetchUser
  <2> QED  BY <1>3, <2>2 DEF FetchUser, DataTypes, dataVars, historyVars
<1>4. CASE CreateSender
  <2>1. job.from \in Numbers
    BY <1>1, <1>4 DEF CreateSender, At
  <2>2. CASE CreateRow(job.from, NoRow)
             /\ GoWith(Worker, "dispatch", job.from, users'[job.from])
    <3>1. users' \in [Numbers -> Row] /\ issued' \in Seq(Numbers)
      BY <2>1, <2>2, CreateRowType
    <3>2. thread' \in [Threads -> Thread]
      BY <2>1, <2>2, <3>1, GoWithType
    <3> QED  BY <1>4, <3>1, <3>2 DEF CreateSender, DataTypes, historyVars
  <2>3. CASE Return(Worker) /\ UNCHANGED <<users, issued>>
    BY <1>4, <2>3, ReturnType DEF CreateSender, DataTypes, historyVars
  <2> QED  BY <1>4, <2>2, <2>3 DEF CreateSender
<1>5. CASE Throttle \/ AskAgain
  BY <1>5, ReturnType DEF Throttle, AskAgain, DataTypes, dataVars, historyVars
<1>6. CASE Dispatch
  <2>1. /\ job.from \in Numbers /\ job.to \in Numbers
        /\ thread[Worker].row \in Row
    BY <1>1, <1>6, ThreadType DEF Dispatch, At
  <2>2. Route(thread[Worker].row) \in Steps
    BY DEF Route
  <2>3. \A d \in BOOLEAN : [thread[Worker].row EXCEPT !.done = d] \in Row
    BY <2>1 DEF Row
  <2>4. thread[Worker].row.done \in BOOLEAN
    BY <2>1 DEF Row
  <2>5. thread' \in [Threads -> Thread]
    <3>1. CASE Route(thread[Worker].row) = "addCreate"
      BY <1>6, <2>1, <3>1, GoWithType DEF Dispatch
    <3>2. CASE Route(thread[Worker].row) # "addCreate"
      <4>1. PICK d \in BOOLEAN :
               GoWith(Worker, Route(thread[Worker].row), job.from,
                      [thread[Worker].row EXCEPT !.done = d])
        BY <1>6, <2>4, <3>2 DEF Dispatch
      <4> QED  BY <2>1, <2>2, <2>3, <4>1, GoWithType
    <3> QED  BY <3>1, <3>2
  <2> QED  BY <1>6, <2>5 DEF Dispatch, DataTypes, dataVars, historyVars
<1>7. CASE Answer
  <2>1. thread' \in [Threads -> Thread]
    BY <1>7, GoType DEF Answer
  <2>2. <<thread[Worker].row.id, job.from>> \in Nat \X Numbers
    BY <1>1, <1>7, ThreadType DEF Answer, At
  <2> QED  BY <1>7, <2>1, <2>2 DEF Answer, DataTypes, historyVars
<1>8. CASE Fold
  <2>1. job.from \in Numbers /\ users[job.from] \in Row
    BY <1>1, <1>8 DEF Fold, At, DataTypes
  <2>2. thread' \in [Threads -> Thread]
    BY <1>8, <2>1, GoWithType, ReturnType DEF Fold
  <2> QED  BY <1>8, <2>2 DEF Fold, DataTypes, dataVars, historyVars
<1>9. CASE FoldSave
  <2>1. thread' \in [Threads -> Thread] /\ users' \in [Numbers -> Row]
    BY <1>9, ReturnType, SaveRowType, ThreadType DEF FoldSave
  <2> QED  BY <1>9, <2>1 DEF FoldSave, DataTypes, historyVars
<1>10. CASE JoinGroup
  <2>1. thread' \in [Threads -> Thread]
    BY <1>10, GoType DEF JoinGroup
  <2>2. <<thread[Worker].row.id, job.from>> \in Nat \X Numbers
    BY <1>1, <1>10, ThreadType DEF JoinGroup, At
  <2> QED  BY <1>10, <2>1, <2>2 DEF JoinGroup, DataTypes, historyVars
<1>11. CASE FindTarget
  <2>1. job.to \in Numbers /\ users[job.to] \in Row
    BY <1>1, <1>11 DEF FindTarget, At, DataTypes
  <2>2. thread' \in [Threads -> Thread]
    BY <1>11, <2>1, GoWithType, ReturnType DEF FindTarget
  <2> QED  BY <1>11, <2>2 DEF FindTarget, DataTypes, dataVars, historyVars
<1> QED  BY <1>2, <1>3, <1>4, <1>5, <1>6, <1>7, <1>8, <1>9, <1>10, <1>11
            DEF WorkerStep

LEMMA ThreadDataTypes ==
    ASSUME DataTypes, NEW t \in Threads, ThreadStep(t)
    PROVE  DataTypes'
<1> USE Constants DEF Steps
<1>1. thread[t].num \in Numbers /\ thread[t].row \in Row
  BY ThreadType
<1>2. CASE Save(t)
  <2>1. thread' \in [Threads -> Thread] /\ users' \in [Numbers -> Row]
    BY <1>1, <1>2, ReturnType, SaveRowType DEF Save
  <2> QED  BY <1>2, <2>1 DEF Save, DataTypes, historyVars
<1>3. CASE AddCreate(t)
  <2>1. thread' \in [Threads -> Thread]
    BY <1>3, GoType, ReturnType DEF AddCreate
  <2>2. CASE CreateRow(thread[t].num, thread[t].row) /\ Invite(thread[t].num)
    BY <1>1, <1>3, <2>1, <2>2, CreateRowType DEF AddCreate, Invite, DataTypes
  <2>3. CASE UNCHANGED <<users, issued, invited, erased>>
    BY <1>3, <2>1, <2>3 DEF AddCreate, DataTypes
  <2> QED  BY <1>3, <2>2, <2>3 DEF AddCreate
<1>4. CASE ListNumber(t)
  BY <1>1, <1>4, ReturnType DEF ListNumber, Invite, DataTypes
<1>5. CASE PurgeMessages(t)
  BY <1>5, GoType DEF PurgeMessages, DataTypes, historyVars
<1>6. CASE PurgeMembers(t)
  BY <1>6, GoType DEF PurgeMembers, DataTypes, historyVars
<1>7. CASE PurgeRow(t)
  <2>1. users' \in [Numbers -> Row] /\ thread' \in [Threads -> Thread]
    BY <1>7, GoType DEF PurgeRow, DataTypes
  <2> QED  BY <1>7, <2>1 DEF PurgeRow, DataTypes, historyVars
<1>8. CASE Unlist(t)
  BY <1>1, <1>8, ReturnType DEF Unlist, DataTypes
<1> QED  BY <1>2, <1>3, <1>4, <1>5, <1>6, <1>7, <1>8 DEF ThreadStep

LEMMA PanelDataTypes ==
    ASSUME DataTypes, NEW p \in Panels, PanelStep(p)
    PROVE  DataTypes'
<1> USE Constants DEF Steps
<1>1. thread[p].num \in Numbers /\ thread[p].row \in Row
  BY ThreadType
<1>2. ASSUME NEW n \in Numbers, NEW op, Request(p, op), NEW step \in Steps,
             NEW r \in Row, GoWith(p, step, n, r)
      PROVE  DataTypes'
  BY <1>2, RequestType, GoWithType DEF Request, DataTypes, dataVars
<1>3. ASSUME NEW n \in Numbers, PanelAdd(p, n)
      PROVE  DataTypes'
  <2>1. PICK a \in BOOLEAN :
           GoWith(p, "addCreate", n, [id |-> 0, admin |-> a, done |-> TRUE])
    BY <1>3 DEF PanelAdd
  <2>2. [id |-> 0, admin |-> a, done |-> TRUE] \in Row
    BY DEF Row
  <2> QED  BY <1>2, <1>3, <2>1, <2>2 DEF PanelAdd
<1>4. ASSUME NEW n \in Numbers, PanelAddSelf(p, n)
      PROVE  DataTypes'
  <2>1. /\ [users[n] EXCEPT !.admin = TRUE] \in Row
        /\ [NoRow EXCEPT !.admin = TRUE] \in Row
    BY DEF DataTypes, Row, NoRow
  <2> QED  BY <1>2, <1>4, <2>1 DEF PanelAddSelf
<1>5. ASSUME NEW n \in Numbers, PanelEdit(p, n)
      PROVE  DataTypes'
  <2>1. PICK a \in BOOLEAN : GoWith(p, "save", n, [users[n] EXCEPT !.admin = a])
    BY <1>5 DEF PanelEdit
  <2>2. [users[n] EXCEPT !.admin = a] \in Row
    BY DEF DataTypes, Row
  <2> QED  BY <1>2, <1>5, <2>1, <2>2 DEF PanelEdit
<1>6. ASSUME NEW n \in Numbers, PanelDelete(p, n)
      PROVE  DataTypes'
  <2>1. users[n] \in Row
    BY DEF DataTypes
  <2> QED  BY <1>2, <1>6, <2>1 DEF PanelDelete
<1>7. CASE SelfSave(p)
  <2>1. thread' \in [Threads -> Thread] /\ users' \in [Numbers -> Row]
    BY <1>1, <1>7, GoType, SaveRowType DEF SelfSave
  <2> QED  BY <1>7, <2>1 DEF SelfSave, DataTypes, historyVars
<1>8. CASE PanelWipe(p)
  BY <1>8, RequestType, GoType DEF PanelWipe, Request, DataTypes, dataVars
<1>9. CASE WipeMessages(p)
  BY <1>9, GoType DEF WipeMessages, DataTypes, historyVars
<1>10. CASE WipeMembers(p)
  BY <1>10, GoType DEF WipeMembers, DataTypes, historyVars
<1>11. CASE WipeUsers(p)
  <2>1. users' \in [Numbers -> Row] /\ thread' \in [Threads -> Thread]
    BY <1>11, GoType DEF WipeUsers
  <2> QED  BY <1>11, <2>1 DEF WipeUsers, DataTypes, historyVars
<1>12. CASE WipeWhitelist(p)
  BY <1>12, ReturnType DEF WipeWhitelist, DataTypes
<1> QED  BY <1>3, <1>4, <1>5, <1>6, <1>7, <1>8, <1>9, <1>10, <1>11, <1>12
            DEF PanelStep

\* What booting makes of the rows: every row stays, and at most the initial
\* admin's is added, under the next id.
LEMMA RegisterAdminFacts ==
    ASSUME NEW rows \in [Numbers -> Row], NEW ids \in Seq(Numbers)
    PROVE  LET boot == RegisterAdmin(rows, ids) IN
           /\ boot.users \in [Numbers -> Row]
           /\ boot.issued \in Seq(Numbers)
           /\ \/ boot.users = rows /\ boot.issued = ids
              \/ \E a \in InitialAdmin :
                    /\ rows[a].id = 0
                    /\ boot.issued = Append(ids, a)
                    /\ boot.users = [rows EXCEPT ![a] =
                         [id |-> Len(ids) + 1, admin |-> TRUE, done |-> TRUE]]
<1> DEFINE missing == {n \in InitialAdmin : rows[n].id = 0}
           boot == RegisterAdmin(rows, ids)
           new == [id |-> Len(ids) + 1, admin |-> TRUE, done |-> TRUE]
<1>1. /\ boot.users = [n \in Numbers |-> IF n \in missing THEN new ELSE rows[n]]
      /\ boot.issued = IF missing = {} THEN ids
                       ELSE Append(ids, CHOOSE n \in missing : TRUE)
  BY DEF RegisterAdmin
<1>2. new \in Row
  BY DEF Row
<1>3. CASE missing = {}
  <2>1. boot.users = rows
    BY <1>1, <1>3
  <2> QED  BY <1>1, <1>3, <2>1
<1>4. CASE missing # {}
  <2> DEFINE a == CHOOSE n \in missing : TRUE
  <2>1. a \in missing
    BY <1>4
  <2>2. a \in InitialAdmin /\ a \in Numbers /\ rows[a].id = 0
    BY <2>1, LifecycleAssumption
  <2>3. \A n \in missing : n = a
    BY <2>1, LifecycleAssumption
  <2>4. boot.users = [rows EXCEPT ![a] = new]
    BY <1>1, <2>1, <2>3
  <2>5. boot.issued = Append(ids, a)
    BY <1>1, <1>4
  <2> HIDE DEF a
  <2>6. boot.issued \in Seq(Numbers)
    BY <2>2, <2>5
  <2>7. boot.users \in [Numbers -> Row]
    BY <1>2, <2>2, <2>4
  <2> QED  BY <2>2, <2>4, <2>5, <2>6, <2>7
<1> QED  BY <1>3, <1>4

LEMMA RestartDataTypes ==
    ASSUME DataTypes, Restart
    PROVE  DataTypes'
<1>1. /\ users' = RegisterAdmin(users, issued).users
      /\ issued' = RegisterAdmin(users, issued).issued
  BY DEF Restart
<1>2. users' \in [Numbers -> Row] /\ issued' \in Seq(Numbers)
  BY <1>1, RegisterAdminFacts DEF DataTypes
<1>3. thread' \in [Threads -> Thread]
  BY Constants DEF Restart
<1> QED  BY <1>2, <1>3, LifecycleAssumption DEF Restart, DataTypes

LEMMA WorkerInvStep ==
    ASSUME QueueTypeOK, DataTypes, WorkerInv, [Next]_vars
    PROVE  WorkerInv'
<1> USE Constants
<1>0. thread \in [Threads -> Thread]
  BY DEF DataTypes
<1>1. ASSUME NEW step \in Steps, NEW n, NEW r, step # "idle", ~At(Worker, "idle"),
             GoWith(Worker, step, n, r), current' = current
      PROVE  WorkerInv'
  BY <1>0, <1>1 DEF WorkerInv, GoWith, At
<1>2. ASSUME Return(Worker)
      PROVE  WorkerInv'
  BY <1>0, <1>2 DEF WorkerInv, Return, Finish, At
<1>3. ASSUME thread'[Worker] = thread[Worker], current' = current
      PROVE  WorkerInv'
  BY <1>3 DEF WorkerInv, At
<1>4. ASSUME NEW p \in Panels,
             \/ \E step, n, r : GoWith(p, step, n, r) /\ current' = current
             \/ Return(p)
      PROVE  WorkerInv'
  BY <1>0, <1>3, <1>4 DEF GoWith, Return, queueVars
<1>5. ASSUME Begin
      PROVE  WorkerInv'
  <2>1. Head(queue) \in Message /\ current' = Head(queue)
    BY <1>5, TailFacts DEF Begin, Take, QueueTypeOK
  <2> QED  BY <1>0, <1>5, <2>1, QueueAssumption DEF Begin, GoWith, WorkerInv, At
<1>6. ASSUME WorkerStep
      PROVE  WorkerInv'
  <2>1. CASE FetchUser \/ CreateSender \/ Throttle \/ AskAgain
    BY <1>1, <1>2, <2>1 DEF FetchUser, CreateSender, Throttle, AskAgain, Go, At,
                            queueVars, Steps
  <2>2. CASE Dispatch
    <3>1. Route(thread[Worker].row) \in Steps \ {"idle"}
      BY DEF Route, Steps
    <3> QED  BY <1>1, <2>2, <3>1 DEF Dispatch, At, queueVars, Steps
  <2>3. CASE Answer \/ Fold \/ FoldSave \/ JoinGroup \/ FindTarget
    BY <1>1, <1>2, <2>3 DEF Answer, Fold, FoldSave, JoinGroup, FindTarget, Go, At,
                            queueVars, Steps
  <2> QED  BY <1>5, <1>6, <2>1, <2>2, <2>3 DEF WorkerStep
<1>7. ASSUME NEW t \in Threads, ThreadStep(t)
      PROVE  WorkerInv'
  <2>1. CASE t = Worker
    BY <1>1, <1>2, <1>7, <2>1
       DEF ThreadStep, Save, AddCreate, ListNumber, PurgeMessages, PurgeMembers,
           PurgeRow, Unlist, Go, At, queueVars, Steps
  <2>2. CASE t \in Panels
    BY <1>4, <1>7, <2>2
       DEF ThreadStep, Save, AddCreate, ListNumber, PurgeMessages, PurgeMembers,
           PurgeRow, Unlist, Go, queueVars
  <2> QED  BY <1>7, <2>1, <2>2 DEF Threads
<1>8. ASSUME NEW p \in Panels, PanelStep(p)
      PROVE  WorkerInv'
  <2>1. CASE \E n \in Numbers : \/ PanelAdd(p, n) \/ PanelAddSelf(p, n)
                                \/ PanelEdit(p, n) \/ PanelDelete(p, n)
    BY <1>4, <2>1 DEF PanelAdd, PanelAddSelf, PanelEdit, PanelDelete, Request,
                      queueVars
  <2>2. CASE \/ SelfSave(p) \/ PanelWipe(p) \/ WipeMessages(p) \/ WipeMembers(p)
             \/ WipeUsers(p) \/ WipeWhitelist(p)
    BY <1>4, <2>2 DEF SelfSave, PanelWipe, WipeMessages, WipeMembers, WipeUsers,
                      WipeWhitelist, Request, Go, queueVars
  <2> QED  BY <1>8, <2>1, <2>2 DEF PanelStep
<1>9. ASSUME NEW c \in Clients,
             (\E p \in Payload : Receive(c, p)) \/ GiveUp(c) \/ Deliver(c)
      PROVE  WorkerInv'
  BY <1>3, <1>9 DEF Receive, GiveUp, Deliver, Accept, Refuse, Enqueue
<1>10. ASSUME Restart
       PROVE  WorkerInv'
  BY <1>10 DEF Restart, Stop, WorkerInv, At
<1>11. ASSUME UNCHANGED vars
       PROVE  WorkerInv'
  BY <1>3, <1>11 DEF vars, queueVars
<1> QED  BY <1>6, <1>7, <1>8, <1>9, <1>10, <1>11 DEF Next

LEMMA TypeStep ==
    ASSUME TypeOK, WorkerInv, [Next]_vars
    PROVE  TypeOK'
<1>1. QueueTypeOK /\ DataTypes
  BY Parts
<1>2. QueueTypeOK'
  BY <1>1, QueueStep, QueueTypeStep
<1>3. ASSUME NEW c \in Clients,
             (\E p \in Payload : Receive(c, p)) \/ GiveUp(c) \/ Deliver(c)
      PROVE  DataTypes'
  BY <1>1, <1>3 DEF Receive, GiveUp, Deliver, DataTypes, dataVars, historyVars
<1>4. ASSUME UNCHANGED vars
      PROVE  DataTypes'
  BY <1>1, <1>4 DEF vars, dataVars, historyVars, DataTypes
<1>5. DataTypes'
  <2>1. CASE WorkerStep
    BY <1>1, <2>1, WorkerDataTypes
  <2>2. CASE \E t \in Threads : ThreadStep(t)
    BY <1>1, <2>2, ThreadDataTypes
  <2>3. CASE \E p \in Panels : PanelStep(p)
    BY <1>1, <2>3, PanelDataTypes
  <2>4. CASE Restart
    BY <1>1, <2>4, RestartDataTypes
  <2> QED  BY <1>3, <1>4, <2>1, <2>2, <2>3, <2>4 DEF Next
<1> QED  BY <1>2, <1>5 DEF TypeOK, DataTypes

LEMMA BootRowsType == BootRows \in [Numbers -> Row]
<1> USE Constants
<1>1. ASSUME NEW n \in Numbers, NEW i \in DOMAIN Registered, Registered[i] = n
      PROVE  [id |-> CHOOSE j \in DOMAIN Registered : Registered[j] = n,
              admin |-> n \in InitialAdmin, done |-> TRUE] \in Row
  <2>1. (CHOOSE j \in DOMAIN Registered : Registered[j] = n) \in Nat
    <3>1. DOMAIN Registered \subseteq Nat
      BY LifecycleAssumption
    <3>2. \E j \in DOMAIN Registered : Registered[j] = n
      BY <1>1
    <3> QED  BY <3>1, <3>2
  <2> QED  BY <2>1 DEF Row
<1> QED  BY <1>1 DEF BootRows

LEMMA InitTypes == Init => TypeOK /\ WorkerInv
<1> SUFFICES ASSUME Init PROVE TypeOK /\ WorkerInv
  OBVIOUS
<1> USE Constants
<1>1. QueueTypeOK
  BY QueueAssumption DEF Init, QueueInit, QueueTypeOK
<1>2. BootRows \in [Numbers -> Row]
  BY BootRowsType
<1>3. users \in [Numbers -> Row] /\ issued \in Seq(Numbers)
  BY <1>2, RegisterAdminFacts, LifecycleAssumption DEF Init
<1>4. DataTypes
  BY <1>3, LifecycleAssumption DEF Init, DataTypes
<1>5. WorkerInv
  BY DEF Init, QueueInit, WorkerInv, At
<1> QED  BY <1>1, <1>4, <1>5, Parts

LEMMA TypesAlways == Spec => [](TypeOK /\ WorkerInv)
<1>1. TypeOK /\ WorkerInv /\ [Next]_vars => TypeOK' /\ WorkerInv'
  BY TypeStep, WorkerInvStep, Parts
<1> QED  BY <1>1, InitTypes, PTL DEF Spec

\* The type invariant of the users' records, the threads and the queue.
THEOREM TypeCorrect == Spec => []TypeOK
  BY TypesAlways, PTL

-----------------------------------------------------------------------------
(* Whose rows, messages and memberships are.  An id is issued once, to one   *)
(* number; every copy of a row, in the table or in the hands of a thread,    *)
(* carries an id issued to its number, so that saving a stale copy can bring *)
(* a row back but cannot give it somebody else's id.                         *)

Issued(ids, i, n) == i \in 1 .. Len(ids) /\ ids[i] = n

\* r may be a row of n: it is none, or its id was issued to n and n has access.
RowOf(r, n, ids, known) == r.id # 0 => Issued(ids, r.id, n) /\ n \in known

Known == invited \cup Owners

RowsInv == \A n \in Numbers : RowOf(users[n], n, issued, Known)
CopiesInv == \A t \in Threads : RowOf(thread[t].row, thread[t].num, issued, Known)
TracesInv == \A m \in messages \cup members : Issued(issued, m[1], m[2])

\* While the worker answers a message or records a membership, it holds the
\* sender's row.
SenderInv == (At(Worker, "dispatch") \/ At(Worker, "answer") \/ At(Worker, "join"))
                => thread[Worker].num = job.from /\ thread[Worker].row.id # 0

\* Only senders with access are in the whitelist and on the way.
AccessInv == /\ whitelist \subseteq Known
             /\ \A c \in Clients : handling[c] # NoMessage => handling[c].body.from \in Known
             /\ \A i \in DOMAIN queue : queue[i].body.from \in Known
             /\ current # NoMessage => job.from \in Known

RecordInv == RowsInv /\ CopiesInv /\ TracesInv /\ SenderInv /\ AccessInv

Extends(ids, more) == \A i, n : Issued(ids, i, n) => Issued(more, i, n)

LEMMA AppendIssues ==
    ASSUME NEW ids \in Seq(Numbers), NEW n \in Numbers
    PROVE  Extends(ids, Append(ids, n)) /\ Issued(Append(ids, n), Len(ids) + 1, n)
<1>1. /\ Len(Append(ids, n)) = Len(ids) + 1 /\ Len(ids) \in Nat
      /\ Append(ids, n)[Len(ids) + 1] = n
      /\ \A i \in 1 .. Len(ids) : Append(ids, n)[i] = ids[i]
  BY AppendFacts
<1> QED  BY <1>1 DEF Extends, Issued

LEMMA RowOfStays ==
    ASSUME NEW r, NEW n, NEW ids, NEW more, NEW known, NEW moreKnown,
           RowOf(r, n, ids, known), Extends(ids, more), known \subseteq moreKnown
    PROVE  RowOf(r, n, more, moreKnown)
  BY DEF RowOf, Extends

\* A step that only adds ids and access, changes the rows and the copies to
\* rows of their numbers and adds no traces, preserves the invariant's parts.
LEMMA RowsStep ==
    ASSUME RowsInv, Extends(issued, issued'), Known \subseteq Known',
           \A n \in Numbers : \/ users'[n] = users[n]
                              \/ RowOf(users'[n], n, issued', Known')
    PROVE  RowsInv'
  BY RowOfStays DEF RowsInv

LEMMA CopiesStep ==
    ASSUME CopiesInv, Extends(issued, issued'), Known \subseteq Known',
           \A t \in Threads : \/ thread'[t] = thread[t]
                              \/ RowOf(thread'[t].row, thread'[t].num, issued', Known')
    PROVE  CopiesInv'
  BY RowOfStays DEF CopiesInv

LEMMA TracesStep ==
    ASSUME TracesInv, Extends(issued, issued'),
           messages' \subseteq messages, members' \subseteq members
    PROVE  TracesInv'
  BY DEF TracesInv, Extends

LEMMA SameIssued ==
    ASSUME issued' = issued PROVE Extends(issued, issued')
  BY DEF Extends

LEMMA SameKnown ==
    ASSUME invited' = invited PROVE Known \subseteq Known'
  BY DEF Known

\* What a thread holds after a step.
LEMMA GoWithHolds ==
    ASSUME DataTypes, NEW t \in Threads, NEW step, NEW n, NEW r,
           GoWith(t, step, n, r)
    PROVE  /\ thread'[t].pc = step /\ thread'[t].num = n /\ thread'[t].row = r
           /\ \A u \in Threads : u # t => thread'[u] = thread[u]
  BY DEF DataTypes, GoWith

LEMMA GoHolds ==
    ASSUME DataTypes, NEW t \in Threads, NEW step, Go(t, step)
    PROVE  /\ thread'[t].pc = step
           /\ thread'[t].num = thread[t].num /\ thread'[t].row = thread[t].row
           /\ \A u \in Threads : u # t => thread'[u] = thread[u]
  BY GoWithHolds DEF Go

LEMMA ReturnHolds ==
    ASSUME DataTypes, NEW t \in Threads, Return(t)
    PROVE  /\ thread'[t] = IdleThread
           /\ \A u \in Threads : u # t => thread'[u] = thread[u]
  BY DEF DataTypes, Return

LEMMA NoRowOfAnyone ==
    ASSUME NEW n, NEW ids, NEW known
    PROVE  /\ RowOf(NoRow, n, ids, known)
           /\ RowOf(IdleThread.row, n, ids, known)
           /\ RowOf([NoRow EXCEPT !.admin = TRUE], n, ids, known)
           /\ \A a : RowOf([id |-> 0, admin |-> a, done |-> TRUE], n, ids, known)
  BY DEF RowOf, NoRow, IdleThread

\* A copy with another flag set is a row of the same number.
LEMMA FlagsDoNotMatter ==
    ASSUME NEW r \in Row, NEW n, NEW ids, NEW known, RowOf(r, n, ids, known)
    PROVE  /\ \A a : RowOf([r EXCEPT !.admin = a], n, ids, known)
           /\ \A d : RowOf([r EXCEPT !.done = d], n, ids, known)
  BY DEF RowOf, Row

LEMMA CreatedRow ==
    ASSUME DataTypes, NEW n \in Numbers, NEW r \in Row, CreateRow(n, r),
           Known \subseteq Known', n \in Known'
    PROVE  /\ Extends(issued, issued')
           /\ RowOf(users'[n], n, issued', Known')
           /\ users'[n].id # 0
           /\ \A k \in Numbers : k # n => users'[k] = users[k]
<1>1. issued' = Append(issued, n) /\ issued \in Seq(Numbers)
  BY DEF CreateRow, DataTypes
<1>2. /\ users'[n].id = Len(issued) + 1
      /\ \A k \in Numbers : k # n => users'[k] = users[k]
  BY DEF CreateRow, DataTypes, Row
<1> QED  BY <1>1, <1>2, AppendIssues DEF RowOf

LEMMA SavedRow ==
    ASSUME DataTypes, RowsInv, NEW n \in Numbers, NEW r, SaveRow(n, r),
           issued' = issued, invited' = invited, RowOf(r, n, issued, Known)
    PROVE  RowsInv'
<1>1. \A k \in Numbers : users'[k] = users[k] \/ (k = n /\ users'[k] = r)
  BY DEF SaveRow, DataTypes
<1>2. RowOf(r, n, issued', Known')
  BY DEF Known
<1> QED  BY <1>1, <1>2, RowsStep, SameIssued, SameKnown

\* A step that leaves the message path alone, or only ends the current job.
LEMMA AccessStep ==
    ASSUME QueueTypeOK, AccessInv, Known \subseteq Known', whitelist' \subseteq Known',
           UNCHANGED queueVars \/ Finish
    PROVE  AccessInv'
<1>1. UNCHANGED <<handling, queue>> /\ (current' = current \/ current' = NoMessage)
  BY DEF queueVars, Finish
<1> QED  BY <1>1 DEF AccessInv, job

\* The sender's row stays with the worker while panels act.
LEMMA SenderStays ==
    ASSUME SenderInv, thread'[Worker] = thread[Worker], current' = current
    PROVE  SenderInv'
  BY DEF SenderInv, At, job

LEMMA SenderLeaves ==
    ASSUME thread'[Worker].pc \notin {"dispatch", "answer", "join"}
    PROVE  SenderInv'
  BY DEF SenderInv, At

LEMMA ReturnQueue ==
    ASSUME NEW t, Return(t)
    PROVE  UNCHANGED queueVars \/ Finish
  BY DEF Return

LEMMA RecordWorkerStep ==
    ASSUME QueueTypeOK, DataTypes, WorkerInv, RecordInv, WorkerStep
    PROVE  RecordInv'
<1> USE Constants
<1> DEFINE w == thread[Worker]
<1>1. ASSUME ~At(Worker, "idle")
      PROVE  job.from \in Numbers /\ job.from \in Known /\ job.to \in Numbers
  BY <1>1, JobType DEF WorkerInv, RecordInv, AccessInv
<1>2. /\ w.row \in Row /\ w.num \in Numbers
      /\ RowOf(w.row, w.num, issued, Known)
  BY ThreadType DEF RecordInv, CopiesInv
<1>3. \A n \in Numbers : users[n] \in Row /\ RowOf(users[n], n, issued, Known)
  BY DEF DataTypes, RecordInv, RowsInv
<1>4. ASSUME UNCHANGED <<dataVars, historyVars>>, UNCHANGED queueVars \/ Finish,
             \A t \in Threads : t # Worker => thread'[t] = thread[t],
             RowOf(thread'[Worker].row, thread'[Worker].num, issued, Known), SenderInv'
      PROVE  RecordInv'
  <2>1. /\ UNCHANGED <<users, issued, messages, members, whitelist, invited>>
        /\ Extends(issued, issued') /\ Known' = Known
    BY <1>4 DEF dataVars, historyVars, Extends, Known
  <2>2. RowsInv' /\ CopiesInv' /\ TracesInv'
    BY <1>4, <2>1, RowsStep, CopiesStep, TracesStep DEF RecordInv
  <2>3. AccessInv'
    BY <1>4, <2>1, AccessStep DEF RecordInv, AccessInv
  <2> QED  BY <1>4, <2>2, <2>3 DEF RecordInv
<1>5. ASSUME Return(Worker), UNCHANGED <<dataVars, historyVars>>
      PROVE  RecordInv'
  BY <1>4, <1>5, ReturnHolds, ReturnQueue, NoRowOfAnyone, SenderLeaves
<1>6. CASE Begin
  <2>1. /\ thread'[Worker].pc = "fetch" /\ thread'[Worker].row = NoRow
        /\ \A t \in Threads : t # Worker => thread'[t] = thread[t]
    BY <1>6, GoWithHolds DEF Begin
  <2>2. /\ UNCHANGED <<users, issued, messages, members, whitelist, invited>>
        /\ Extends(issued, issued') /\ Known' = Known
    BY <1>6 DEF Begin, dataVars, historyVars, Extends, Known
  <2>3. RowsInv' /\ CopiesInv' /\ TracesInv' /\ SenderInv'
    BY <2>1, <2>2, RowsStep, CopiesStep, TracesStep, NoRowOfAnyone, SenderLeaves
       DEF RecordInv
  <2>4. /\ current' = queue[1] /\ 1 \in DOMAIN queue /\ handling' = handling
        /\ DOMAIN queue' = 1 .. Len(queue) - 1
        /\ \A i \in 1 .. Len(queue) - 1 : queue'[i] = queue[i + 1]
        /\ DOMAIN queue = 1 .. Len(queue) /\ Len(queue) \in Nat
    BY <1>6, TailFacts DEF Begin, Take, QueueTypeOK
  <2>5. AccessInv'
    BY <2>2, <2>4 DEF RecordInv, AccessInv, job
  <2> QED  BY <2>3, <2>5 DEF RecordInv
<1>7. CASE FetchUser
  <2>1. At(Worker, "fetch") /\ job.from \in Numbers
    BY <1>1, <1>7 DEF FetchUser, At
  <2>2. CASE HasRow(job.from)
    <3>1. GoWith(Worker, "dispatch", job.from, users[job.from])
      BY <1>7, <2>2 DEF FetchUser
    <3>2. SenderInv'
      BY <1>7, <2>2, <3>1, GoWithHolds
         DEF FetchUser, SenderInv, HasRow, queueVars, job, At
    <3> QED  BY <1>3, <1>4, <1>7, <2>1, <3>1, <3>2, GoWithHolds DEF FetchUser
  <2>3. CASE ~HasRow(job.from)
    BY <1>2, <1>4, <1>7, <2>3, GoHolds, SenderLeaves DEF FetchUser
  <2> QED  BY <2>2, <2>3
<1>8. CASE CreateSender
  <2>1. At(Worker, "create") /\ job.from \in Numbers /\ job.from \in Known
    BY <1>1, <1>8 DEF CreateSender, At
  <2>2. CASE /\ CreateRow(job.from, NoRow)
             /\ GoWith(Worker, "dispatch", job.from, users'[job.from])
             /\ UNCHANGED queueVars
    <3>1. UNCHANGED <<messages, members, whitelist, invited>> /\ Known' = Known
      BY <1>8 DEF CreateSender, historyVars, Known
    <3>2. /\ Extends(issued, issued')
          /\ RowOf(users'[job.from], job.from, issued', Known')
          /\ users'[job.from].id # 0
          /\ \A k \in Numbers : k # job.from => users'[k] = users[k]
      BY <2>1, <2>2, <3>1, CreatedRow
    <3>3. /\ thread'[Worker].num = job.from
          /\ thread'[Worker].row = users'[job.from]
          /\ \A t \in Threads : t # Worker => thread'[t] = thread[t]
      BY <2>2, GoWithHolds
    <3>4. RowsInv' /\ CopiesInv' /\ TracesInv'
      BY <3>1, <3>2, <3>3, RowsStep, CopiesStep, TracesStep DEF RecordInv
    <3>5. SenderInv'
      BY <2>2, <3>2, <3>3 DEF SenderInv, queueVars, job
    <3>6. AccessInv'
      BY <2>2, <3>1, AccessStep DEF RecordInv, AccessInv
    <3> QED  BY <3>4, <3>5, <3>6 DEF RecordInv
  <2>3. CASE Return(Worker) /\ UNCHANGED <<users, issued>>
    BY <1>5, <1>8, <2>3 DEF CreateSender, dataVars
  <2> QED  BY <1>8, <2>2, <2>3 DEF CreateSender
<1>9. CASE Throttle \/ AskAgain
  BY <1>5, <1>9 DEF Throttle, AskAgain
<1>10. CASE Dispatch
  <2>1. /\ w.num = job.from /\ w.row.id # 0
        /\ UNCHANGED <<queueVars, dataVars, historyVars>> /\ current' = current
    BY <1>10 DEF Dispatch, RecordInv, SenderInv, queueVars
  <2>2. CASE Route(w.row) = "addCreate"
    BY <1>4, <1>10, <2>1, <2>2, GoWithHolds, NoRowOfAnyone, SenderLeaves DEF Dispatch
  <2>3. CASE Route(w.row) # "addCreate"
    <3>1. w.row.done \in BOOLEAN
      BY <1>2 DEF Row
    <3>2. PICK d \in BOOLEAN :
             GoWith(Worker, Route(w.row), job.from, [w.row EXCEPT !.done = d])
      BY <1>10, <2>3, <3>1 DEF Dispatch
    <3>3. /\ RowOf([w.row EXCEPT !.done = d], job.from, issued, Known)
          /\ [w.row EXCEPT !.done = d].id # 0
      BY <1>2, <2>1, FlagsDoNotMatter DEF Row
    <3>4. /\ thread'[Worker].num = job.from
          /\ thread'[Worker].row = [w.row EXCEPT !.done = d]
          /\ \A t \in Threads : t # Worker => thread'[t] = thread[t]
      BY <3>2, GoWithHolds
    <3>5. thread'[Worker].row.id # 0
      BY <3>3, <3>4
    <3>6. SenderInv'
      BY <2>1, <3>4, <3>5 DEF SenderInv, job
    <3> QED  BY <1>4, <2>1, <3>3, <3>4, <3>6
  <2> QED  BY <2>2, <2>3
<1>11. CASE Answer \/ JoinGroup
  <2>1. /\ w.num = job.from /\ w.row.id # 0
        /\ UNCHANGED <<queueVars, users, issued, whitelist, historyVars>>
        /\ \E step \in {"fold", "save"} : Go(Worker, step)
    BY <1>11 DEF Answer, JoinGroup, RecordInv, SenderInv
  <2>2. /\ thread'[Worker].pc \notin {"dispatch", "answer", "join"}
        /\ thread'[Worker].row = w.row /\ thread'[Worker].num = w.num
        /\ \A t \in Threads : t # Worker => thread'[t] = thread[t]
    BY <2>1, GoHolds
  <2>3. Extends(issued, issued') /\ Known' = Known /\ Issued(issued, w.row.id, job.from)
    BY <1>2, <2>1 DEF historyVars, Extends, Known, RowOf
  <2>4. messages' \cup members'
          \subseteq messages \cup members \cup {<<w.row.id, job.from>>}
    BY <1>11 DEF Answer, JoinGroup
  <2>5. TracesInv'
    BY <2>1, <2>3, <2>4 DEF RecordInv, TracesInv
  <2>6. RowsInv' /\ CopiesInv' /\ SenderInv'
    BY <1>2, <2>1, <2>2, <2>3, RowsStep, CopiesStep, SenderLeaves DEF RecordInv
  <2>7. AccessInv'
    BY <2>1, <2>3, AccessStep DEF RecordInv, AccessInv
  <2> QED  BY <2>5, <2>6, <2>7 DEF RecordInv
<1>12. CASE Fold
  <2>1. CASE Return(Worker)
    BY <1>5, <1>12, <2>1 DEF Fold
  <2>2. CASE /\ GoWith(Worker, "foldSave", job.from, users[job.from])
             /\ UNCHANGED queueVars
    <3>1. job.from \in Numbers
      BY <1>1, <1>12 DEF Fold, At
    <3> QED  BY <1>3, <1>4, <1>12, <2>2, <3>1, GoWithHolds, SenderLeaves DEF Fold
  <2> QED  BY <1>12, <2>1, <2>2 DEF Fold
<1>13. CASE FoldSave
  <2>1. /\ UNCHANGED <<issued, messages, members, whitelist, invited>>
        /\ Extends(issued, issued') /\ Known' = Known
        /\ SaveRow(w.num, w.row) /\ Return(Worker)
    BY <1>13 DEF FoldSave, historyVars, Extends, Known
  <2>2. RowsInv'
    BY <1>2, <2>1, SavedRow DEF RecordInv
  <2>3. CopiesInv' /\ TracesInv' /\ SenderInv'
    BY <2>1, ReturnHolds, NoRowOfAnyone, CopiesStep, TracesStep, SenderLeaves
       DEF RecordInv
  <2>4. AccessInv'
    BY <2>1, ReturnQueue, AccessStep DEF RecordInv, AccessInv
  <2> QED  BY <2>2, <2>3, <2>4 DEF RecordInv
<1>14. CASE FindTarget
  <2>1. job.to \in Numbers
    BY <1>1, <1>14 DEF FindTarget, At
  <2>2. CASE GoWith(Worker, "purgeMessages", job.to, users[job.to])
             /\ UNCHANGED queueVars
    BY <1>3, <1>4, <1>14, <2>1, <2>2, GoWithHolds, SenderLeaves DEF FindTarget
  <2>3. CASE Return(Worker)
    BY <1>5, <1>14, <2>3 DEF FindTarget
  <2> QED  BY <1>14, <2>2, <2>3 DEF FindTarget
<1> QED  BY <1>6, <1>7, <1>8, <1>9, <1>10, <1>11, <1>12, <1>13, <1>14 DEF WorkerStep

\* A thread that leaves the sender's steps alone: a panel, or the worker at
\* another step.
LEMMA SenderThread ==
    ASSUME SenderInv, NEW t \in Threads, NEW step,
           step \notin {"dispatch", "answer", "join"}, thread'[t].pc = step,
           \A u \in Threads : u # t => thread'[u] = thread[u],
           t = Worker \/ current' = current
    PROVE  SenderInv'
  BY Constants, SenderStays, SenderLeaves

LEMMA RecordThreadStep ==
    ASSUME QueueTypeOK, DataTypes, RecordInv, NEW t \in Threads, ThreadStep(t)
    PROVE  RecordInv'
<1> USE Constants
<1> DEFINE n == thread[t].num
           r == thread[t].row
<1>1. r \in Row /\ n \in Numbers /\ RowOf(r, n, issued, Known)
  BY ThreadType DEF RecordInv, CopiesInv
\* Either the thread returns, or it goes on to a step of its own.
<1>2. ASSUME \/ Return(t)
             \/ /\ UNCHANGED queueVars
                /\ \E step \in Steps \ {"dispatch", "answer", "join"} : Go(t, step),
             Extends(issued, issued'), Known \subseteq Known'
      PROVE  /\ CopiesInv' /\ SenderInv'
             /\ UNCHANGED queueVars \/ Finish
  <2>1. CASE Return(t)
    <3>1. thread'[t].pc = "idle" /\ (t = Worker \/ current' = current)
      BY <2>1, ReturnHolds DEF Return, queueVars
    <3> QED  BY <1>2, <2>1, <3>1, ReturnHolds, ReturnQueue, NoRowOfAnyone, CopiesStep,
                SenderThread DEF RecordInv
  <2>2. CASE /\ UNCHANGED queueVars
             /\ \E step \in Steps \ {"dispatch", "answer", "join"} : Go(t, step)
    <3>1. PICK step \in Steps \ {"dispatch", "answer", "join"} : Go(t, step)
      BY <2>2
    <3>2. /\ thread'[t].pc = step /\ thread'[t].num = n /\ thread'[t].row = r
          /\ \A u \in Threads : u # t => thread'[u] = thread[u]
      BY <3>1, GoHolds
    <3>3. RowOf(r, n, issued', Known')
      BY <1>1, <1>2, RowOfStays
    <3>4. CopiesInv'
      BY <1>2, <3>2, <3>3, CopiesStep DEF RecordInv
    <3>5. current' = current
      BY <2>2 DEF queueVars
    <3> QED  BY <2>2, <3>1, <3>2, <3>4, <3>5, SenderThread DEF RecordInv
  <2> QED  BY <1>2, <2>1, <2>2
<1>3. CASE Save(t)
  <2>1. /\ UNCHANGED <<issued, messages, members, whitelist, invited>>
        /\ Extends(issued, issued') /\ Known' = Known
        /\ SaveRow(n, r) /\ Return(t)
    BY <1>3 DEF Save, historyVars, Extends, Known
  <2>2. RowsInv'
    BY <1>1, <2>1, SavedRow DEF RecordInv
  <2>3. TracesInv'
    BY <2>1, TracesStep DEF RecordInv
  <2>4. AccessInv'
    BY <1>2, <2>1, AccessStep DEF RecordInv, AccessInv
  <2> QED  BY <1>2, <2>1, <2>2, <2>3, <2>4 DEF RecordInv
<1>4. CASE AddCreate(t)
  <2>1. /\ UNCHANGED <<messages, members, whitelist>>
        /\ (Go(t, "list") /\ UNCHANGED queueVars) \/ Return(t)
    BY <1>4 DEF AddCreate
  <2>2. CASE CreateRow(n, r) /\ Invite(n)
    <3>1. Known \subseteq Known' /\ n \in Known'
      BY <2>2 DEF Invite, Known
    <3>2. /\ Extends(issued, issued')
          /\ RowOf(users'[n], n, issued', Known')
          /\ \A k \in Numbers : k # n => users'[k] = users[k]
      BY <1>1, <2>2, <3>1, CreatedRow
    <3>3. RowsInv' /\ TracesInv'
      BY <2>1, <3>1, <3>2, RowsStep, TracesStep DEF RecordInv
    <3>4. CopiesInv' /\ SenderInv' /\ (UNCHANGED queueVars \/ Finish)
      BY <1>2, <2>1, <3>1, <3>2 DEF Steps
    <3>5. AccessInv'
      BY <2>1, <3>1, <3>4, AccessStep DEF RecordInv, AccessInv
    <3> QED  BY <3>3, <3>4, <3>5 DEF RecordInv
  <2>3. CASE UNCHANGED <<users, issued, invited, erased>>
    <3>1. Extends(issued, issued') /\ Known' = Known
      BY <2>3 DEF Extends, Known
    <3>2. RowsInv' /\ TracesInv'
      BY <2>1, <2>3, <3>1, RowsStep, TracesStep DEF RecordInv
    <3>3. CopiesInv' /\ SenderInv' /\ (UNCHANGED queueVars \/ Finish)
      BY <1>2, <2>1, <3>1 DEF Steps
    <3>4. AccessInv'
      BY <2>1, <3>1, <3>3, AccessStep DEF RecordInv, AccessInv
    <3> QED  BY <3>2, <3>3, <3>4 DEF RecordInv
  <2> QED  BY <1>4, <2>2, <2>3 DEF AddCreate
<1>5. CASE ListNumber(t)
  <2>1. /\ UNCHANGED <<users, issued, messages, members>>
        /\ whitelist' = whitelist \cup {n}
        /\ Extends(issued, issued') /\ Known \subseteq Known' /\ n \in Known'
        /\ Return(t)
    BY <1>5 DEF ListNumber, Invite, Extends, Known
  <2>2. RowsInv' /\ TracesInv'
    BY <2>1, RowsStep, TracesStep DEF RecordInv
  <2>3. AccessInv'
    BY <1>2, <2>1, AccessStep DEF RecordInv, AccessInv
  <2> QED  BY <1>2, <2>1, <2>2, <2>3 DEF RecordInv
\* An erasure only takes away.
<1>6. ASSUME \/ Return(t)
             \/ /\ UNCHANGED queueVars
                /\ \E step \in Steps \ {"dispatch", "answer", "join"} : Go(t, step),
             UNCHANGED <<issued, invited>>,
             messages' \subseteq messages, members' \subseteq members,
             whitelist' \subseteq whitelist,
             \A k \in Numbers : users'[k] = users[k] \/ users'[k] = NoRow
      PROVE  RecordInv'
  <2>1. Extends(issued, issued') /\ Known' = Known
    BY <1>6 DEF Extends, Known
  <2>2. RowsInv' /\ TracesInv'
    BY <1>6, <2>1, RowsStep, TracesStep, NoRowOfAnyone DEF RecordInv
  <2>3. AccessInv'
    BY <1>2, <1>6, <2>1, AccessStep DEF RecordInv, AccessInv
  <2> QED  BY <1>2, <1>6, <2>1, <2>2, <2>3 DEF RecordInv
<1>7. CASE PurgeMessages(t) \/ PurgeMembers(t)
  BY <1>6, <1>7 DEF PurgeMessages, PurgeMembers, historyVars, Steps
<1>8. CASE PurgeRow(t)
  BY <1>6, <1>8 DEF PurgeRow, historyVars, Steps
<1>9. CASE Unlist(t)
  BY <1>6, <1>9 DEF Unlist
<1> QED  BY <1>3, <1>4, <1>5, <1>7, <1>8, <1>9 DEF ThreadStep

LEMMA RecordPanelStep ==
    ASSUME QueueTypeOK, DataTypes, RecordInv, NEW p \in Panels, PanelStep(p)
    PROVE  RecordInv'
<1> USE Constants
<1>1. /\ p \in Threads /\ p # Worker
      /\ thread[p].num \in Numbers /\ thread[p].row \in Row
      /\ RowOf(thread[p].row, thread[p].num, issued, Known)
  BY ThreadType DEF RecordInv, CopiesInv
<1>2. \A n \in Numbers : users[n] \in Row /\ RowOf(users[n], n, issued, Known)
  BY DEF DataTypes, RecordInv, RowsInv
\* A request that arrives takes a row of its number in hand.
<1>3. ASSUME NEW n \in Numbers, NEW op, Request(p, op), NEW step, NEW r,
             GoWith(p, step, n, r), RowOf(r, n, issued, Known)
      PROVE  RecordInv'
  <2>1. /\ UNCHANGED <<queueVars, users, issued, messages, members, whitelist, invited>>
        /\ current' = current
        /\ Extends(issued, issued') /\ Known' = Known
    BY <1>3 DEF Request, dataVars, queueVars, Extends, Known
  <2>2. RowsInv' /\ TracesInv'
    BY <2>1, RowsStep, TracesStep DEF RecordInv
  <2>3. CopiesInv'
    BY <1>1, <1>3, <2>1, GoWithHolds, CopiesStep DEF RecordInv
  <2>4. SenderInv'
    BY <1>1, <1>3, <2>1, GoWithHolds, SenderStays DEF RecordInv
  <2>5. AccessInv'
    BY <2>1, AccessStep DEF RecordInv, AccessInv
  <2> QED  BY <2>2, <2>3, <2>4, <2>5 DEF RecordInv
<1>4. ASSUME NEW n \in Numbers, PanelAdd(p, n) \/ PanelAddSelf(p, n)
                                \/ PanelEdit(p, n) \/ PanelDelete(p, n)
      PROVE  RecordInv'
  <2>1. CASE PanelAdd(p, n)
    <3>1. PICK a \in BOOLEAN :
             GoWith(p, "addCreate", n, [id |-> 0, admin |-> a, done |-> TRUE])
      BY <2>1 DEF PanelAdd
    <3> QED  BY <1>3, <2>1, <3>1, NoRowOfAnyone DEF PanelAdd
  <2>2. CASE PanelAddSelf(p, n) /\ HasRow(n)
    <3>1. RowOf([users[n] EXCEPT !.admin = TRUE], n, issued, Known)
      BY <1>2, FlagsDoNotMatter
    <3> QED  BY <1>3, <2>2, <3>1 DEF PanelAddSelf
  <2>3. CASE PanelAddSelf(p, n) /\ ~HasRow(n)
    BY <1>3, <2>3, NoRowOfAnyone DEF PanelAddSelf
  <2>4. CASE PanelEdit(p, n)
    <3>1. PICK a \in BOOLEAN : GoWith(p, "save", n, [users[n] EXCEPT !.admin = a])
      BY <2>4 DEF PanelEdit
    <3>2. RowOf([users[n] EXCEPT !.admin = a], n, issued, Known)
      BY <1>2, FlagsDoNotMatter
    <3> QED  BY <1>3, <2>4, <3>1, <3>2 DEF PanelEdit
  <2>5. CASE PanelDelete(p, n)
    BY <1>2, <1>3, <2>5 DEF PanelDelete
  <2> QED  BY <1>4, <2>1, <2>2, <2>3, <2>4, <2>5
\* Any other step keeps the row in hand.
<1>5. ASSUME \/ Return(p)
             \/ UNCHANGED queueVars /\ \E step \in Steps : Go(p, step),
             UNCHANGED <<issued, invited>>,
             messages' \subseteq messages, members' \subseteq members,
             whitelist' \subseteq whitelist
      PROVE  CopiesInv' /\ TracesInv' /\ SenderInv' /\ AccessInv'
  <2>1. /\ Extends(issued, issued') /\ Known' = Known
        /\ UNCHANGED queueVars /\ current' = current
    BY <1>1, <1>5 DEF Extends, Known, Return, queueVars
  <2>2. /\ \A u \in Threads : u # p => thread'[u] = thread[u]
        /\ RowOf(thread'[p].row, thread'[p].num, issued', Known')
    <3>1. CASE Return(p)
      BY <1>1, <2>1, <3>1, ReturnHolds, NoRowOfAnyone
    <3>2. CASE \E step \in Steps : Go(p, step)
      BY <1>1, <1>5, <2>1, <3>2, GoHolds
    <3> QED  BY <1>5, <3>1, <3>2
  <2>3. CopiesInv' /\ TracesInv' /\ SenderInv'
    BY <1>1, <1>5, <2>1, <2>2, CopiesStep, TracesStep, SenderStays DEF RecordInv
  <2>4. AccessInv'
    BY <1>5, <2>1, AccessStep DEF RecordInv, AccessInv
  <2> QED  BY <2>3, <2>4
<1>6. CASE SelfSave(p)
  <2>1. RowsInv'
    BY <1>1, <1>6, SavedRow DEF SelfSave, historyVars, RecordInv
  <2> QED  BY <1>5, <1>6, <2>1 DEF SelfSave, historyVars, RecordInv, Steps
<1>7. CASE PanelWipe(p)
  <2>1. Go(p, "wipeMessages") /\ Request(p, "wipe")
    BY <1>7 DEF PanelWipe
  <2> QED  BY <1>1, <1>3, <2>1 DEF Go
<1>8. ASSUME \/ Return(p)
             \/ UNCHANGED queueVars /\ \E step \in Steps : Go(p, step),
             UNCHANGED <<issued, invited>>,
             messages' \subseteq messages, members' \subseteq members,
             whitelist' \subseteq whitelist,
             \A k \in Numbers : users'[k] = users[k] \/ users'[k] = NoRow
      PROVE  RecordInv'
  <2>1. RowsInv'
    BY <1>8, RowsStep, SameIssued, SameKnown, NoRowOfAnyone DEF RecordInv
  <2> QED  BY <1>5, <1>8, <2>1 DEF RecordInv
<1>9. CASE WipeMessages(p) \/ WipeMembers(p) \/ WipeUsers(p)
  BY <1>8, <1>9 DEF WipeMessages, WipeMembers, WipeUsers, historyVars, Steps
<1>10. CASE WipeWhitelist(p)
  BY <1>8, <1>10 DEF WipeWhitelist
<1> QED  BY <1>4, <1>6, <1>7, <1>9, <1>10 DEF PanelStep

\* The message path: only an admitted sender's message starts on it.
LEMMA RecordPathStep ==
    ASSUME QueueTypeOK, DataTypes, RecordInv, NEW c \in Clients,
           (\E p \in Payload : Receive(c, p)) \/ GiveUp(c) \/ Deliver(c)
    PROVE  RecordInv'
<1>1. /\ UNCHANGED <<dataVars, thread, historyVars>>
      /\ current' = current
  BY DEF Receive, GiveUp, Deliver, Accept, Refuse, Enqueue
<1>2. Extends(issued, issued') /\ Known' = Known /\ whitelist' = whitelist
  BY <1>1 DEF Extends, Known, dataVars, historyVars
<1>3. RowsInv' /\ CopiesInv' /\ TracesInv' /\ SenderInv'
  BY <1>1, <1>2, Constants, RowsStep, CopiesStep, TracesStep, SenderStays
     DEF RecordInv, dataVars
<1>4. AccessInv
  BY DEF RecordInv
<1>5. handling \in [Clients -> Message \cup {NoMessage}] /\ queue \in Seq(Message)
  BY DEF QueueTypeOK
<1>6. ASSUME \A d \in Clients : handling'[d] # NoMessage => handling'[d].body.from \in Known,
             \A i \in DOMAIN queue' : queue'[i].body.from \in Known
      PROVE  AccessInv'
  <2>1. whitelist' \subseteq Known'
    BY <1>2, <1>4 DEF AccessInv
  <2>2. \A d \in Clients : handling'[d] # NoMessage => handling'[d].body.from \in Known'
    BY <1>2, <1>6
  <2>3. \A i \in DOMAIN queue' : queue'[i].body.from \in Known'
    BY <1>2, <1>6
  <2>4. current' # NoMessage => job'.from \in Known'
    BY <1>1, <1>2, <1>4 DEF AccessInv, job
  <2> QED  BY <2>1, <2>2, <2>3, <2>4 DEF AccessInv
<1>7. ASSUME NEW p \in Payload, Receive(c, p)
      PROVE  AccessInv'
  <2>1. p.from \in Known
    BY <1>4, <1>7, LifecycleAssumption DEF Receive, Admitted, AccessInv, Known
  <2>2. /\ queue' = queue
        /\ handling'[c].body = p
        /\ \A d \in Clients : d # c => handling'[d] = handling[d]
    BY <1>5, <1>7 DEF Receive, Accept
  <2>3. \A d \in Clients : handling'[d] # NoMessage => handling'[d].body.from \in Known
    BY <1>4, <2>1, <2>2 DEF AccessInv
  <2>4. \A i \in DOMAIN queue' : queue'[i].body.from \in Known
    BY <1>4, <2>2 DEF AccessInv
  <2> QED  BY <1>6, <2>3, <2>4
<1>8. CASE GiveUp(c) \/ Deliver(c)
  <2>1. \A d \in Clients : handling'[d] \in {handling[d], NoMessage}
    BY <1>5, <1>8 DEF GiveUp, Refuse, Deliver, Enqueue
  <2>2. \A d \in Clients : handling'[d] # NoMessage => handling'[d].body.from \in Known
    BY <1>4, <2>1 DEF AccessInv
  <2>3. \A i \in DOMAIN queue' : queue'[i].body.from \in Known
    <3>1. CASE queue' = queue
      BY <1>4, <3>1 DEF AccessInv
    <3>2. CASE queue' = Append(queue, handling[c]) /\ handling[c] # NoMessage
      <4>1. handling[c] \in Message
        BY <1>5, <3>2
      <4>2. \A i \in DOMAIN queue' : \/ queue'[i] = handling[c]
                                     \/ i \in DOMAIN queue /\ queue'[i] = queue[i]
        BY <1>5, <3>2, <4>1, AppendFacts
      <4>3. handling[c].body.from \in Known
        BY <1>4, <3>2 DEF AccessInv
      <4> QED  BY <1>4, <4>2, <4>3 DEF AccessInv
    <3>3. \/ queue' = queue
          \/ queue' = Append(queue, handling[c]) /\ handling[c] # NoMessage
      BY <1>8 DEF GiveUp, Refuse, Deliver, Enqueue
    <3> QED  BY <3>1, <3>2, <3>3
  <2> QED  BY <1>3, <1>6, <2>2, <2>3 DEF RecordInv
<1> QED  BY <1>3, <1>7, <1>8 DEF RecordInv

\* The rows at boot: those of the table, and a new one for the initial admin.
LEMMA BootedRows ==
    ASSUME NEW rows \in [Numbers -> Row], NEW ids \in Seq(Numbers), NEW known,
           \A n \in Numbers : RowOf(rows[n], n, ids, known)
    PROVE  LET boot == RegisterAdmin(rows, ids) IN
           /\ Extends(ids, boot.issued)
           /\ \A n \in Numbers :
                 RowOf(boot.users[n], n, boot.issued, known \cup InitialAdmin)
<1> DEFINE boot == RegisterAdmin(rows, ids)
<1>1. CASE boot.users = rows /\ boot.issued = ids
  BY <1>1 DEF Extends, RowOf
<1>2. ASSUME NEW a \in InitialAdmin,
             boot.issued = Append(ids, a),
             boot.users = [rows EXCEPT ![a] =
                             [id |-> Len(ids) + 1, admin |-> TRUE, done |-> TRUE]]
      PROVE  /\ Extends(ids, boot.issued)
             /\ \A n \in Numbers :
                   RowOf(boot.users[n], n, boot.issued, known \cup InitialAdmin)
  <2>1. a \in Numbers
    BY LifecycleAssumption
  <2>2. Extends(ids, boot.issued) /\ Issued(boot.issued, Len(ids) + 1, a)
    BY <1>2, <2>1, AppendIssues
  <2>3. RowOf(boot.users[a], a, boot.issued, known \cup InitialAdmin)
    BY <1>2, <2>1, <2>2 DEF RowOf
  <2>4. ASSUME NEW n \in Numbers, n # a
        PROVE  RowOf(boot.users[n], n, boot.issued, known \cup InitialAdmin)
    <3>1. boot.users[n] = rows[n]
      BY <1>2, <2>4
    <3> QED  BY <2>2, <3>1, RowOfStays
  <2> QED  BY <2>2, <2>3, <2>4
<1> QED  BY <1>1, <1>2, RegisterAdminFacts

LEMMA RecordRestartStep ==
    ASSUME DataTypes, RecordInv, Restart
    PROVE  RecordInv'
<1> USE Constants
<1>1. /\ users' = RegisterAdmin(users, issued).users
      /\ issued' = RegisterAdmin(users, issued).issued
      /\ whitelist' = {n \in Numbers : users'[n].id # 0}
      /\ Known' = Known \cup InitialAdmin
      /\ UNCHANGED <<messages, members>>
      /\ \A t \in Threads : thread'[t] = IdleThread
      /\ \A c \in Clients : handling'[c] = NoMessage
      /\ queue' = <<>> /\ current' = NoMessage
  BY DEF Restart, Stop, Known
<1>2. /\ Extends(issued, issued')
      /\ \A n \in Numbers : RowOf(users'[n], n, issued', Known')
  BY <1>1, BootedRows DEF DataTypes, RecordInv, RowsInv
<1>3. RowsInv' /\ CopiesInv' /\ TracesInv' /\ SenderInv'
  BY <1>1, <1>2, RowsStep, NoRowOfAnyone, TracesStep, SenderLeaves
     DEF RecordInv, RowsInv, CopiesInv
<1>4. whitelist' \subseteq Known'
  BY <1>1, <1>2 DEF RowOf
<1>5. AccessInv'
  BY <1>1, <1>4 DEF AccessInv, job
<1> QED  BY <1>3, <1>5 DEF RecordInv

LEMMA RecordStep ==
    ASSUME TypeOK, WorkerInv, RecordInv, [Next]_vars
    PROVE  RecordInv'
<1>1. QueueTypeOK /\ DataTypes
  BY Parts
<1>2. ASSUME UNCHANGED vars
      PROVE  RecordInv'
  BY <1>2 DEF vars, queueVars, dataVars, historyVars, RecordInv, RowsInv, CopiesInv,
              TracesInv, SenderInv, AccessInv, Known, At, job
<1>3. ASSUME NEW c \in Clients,
             (\E p \in Payload : Receive(c, p)) \/ GiveUp(c) \/ Deliver(c)
      PROVE  RecordInv'
  BY <1>1, <1>3, RecordPathStep
<1>4. CASE WorkerStep
  BY <1>1, <1>4, RecordWorkerStep
<1>5. CASE \E t \in Threads : ThreadStep(t)
  BY <1>1, <1>5, RecordThreadStep
<1>6. CASE \E p \in Panels : PanelStep(p)
  BY <1>1, <1>6, RecordPanelStep
<1>7. CASE Restart
  BY <1>1, <1>7, RecordRestartStep
<1> QED  BY <1>2, <1>3, <1>4, <1>5, <1>6, <1>7 DEF Next

LEMMA RecordInit == Init => RecordInv
<1> SUFFICES ASSUME Init PROVE RecordInv
  OBVIOUS
<1> USE Constants
<1> DEFINE known == {Registered[i] : i \in DOMAIN Registered}
<1>1. BootRows \in [Numbers -> Row] /\ Registered \in Seq(Numbers)
  BY BootRowsType, LifecycleAssumption
<1>2. ASSUME NEW n \in Numbers
      PROVE  RowOf(BootRows[n], n, Registered, known)
  <2>1. CASE \E i \in DOMAIN Registered : Registered[i] = n
    <3>1. PICK i \in DOMAIN Registered :
             BootRows[n].id = i /\ Registered[i] = n
      BY <2>1 DEF BootRows
    <3>2. DOMAIN Registered = 1 .. Len(Registered)
      BY <1>1
    <3> QED  BY <3>1, <3>2 DEF RowOf, Issued
  <2>2. CASE ~ \E i \in DOMAIN Registered : Registered[i] = n
    BY <2>2, NoRowOfAnyone DEF BootRows
  <2> QED  BY <2>1, <2>2
<1>3. \A n \in Numbers : RowOf(users[n], n, issued, known \cup InitialAdmin)
  <2> HIDE DEF known
  <2> QED  BY <1>1, <1>2, BootedRows DEF Init
<1>4. RowsInv
  BY <1>3 DEF Init, RowsInv, RowOf, Known, HasRow
<1>5. CopiesInv /\ TracesInv /\ SenderInv
  BY NoRowOfAnyone DEF Init, CopiesInv, TracesInv, SenderInv, At
<1>6. AccessInv
  BY DEF Init, QueueInit, AccessInv, Known, job
<1> QED  BY <1>4, <1>5, <1>6 DEF RecordInv

LEMMA RecordAlways == Spec => []RecordInv
<1>1. TypeOK /\ WorkerInv /\ RecordInv /\ [Next]_vars => RecordInv'
  BY RecordStep
<1> QED  BY <1>1, RecordInit, TypesAlways, PTL DEF Spec

\* For any numbers, panels, requests and restarts: what is stored under the id
\* of a user's row was left by that user, also after stale saves re-inserted
\* rows that eraseUser had deleted.
THEOREM HistoryIsOwn == Spec => []NoInheritedHistory
<1>1. TypeOK /\ RecordInv => NoInheritedHistory
  <2> SUFFICES ASSUME TypeOK, RecordInv, NEW n \in Numbers,
                      NEW m \in messages \cup members, m[1] = users[n].id
               PROVE  m[2] = n
    BY DEF NoInheritedHistory
  <2>1. Issued(issued, users[n].id, m[2])
    BY DEF RecordInv, TracesInv
  <2>2. users[n].id # 0
    BY <2>1 DEF Issued
  <2>3. Issued(issued, users[n].id, n)
    BY <2>2 DEF RecordInv, RowsInv, RowOf
  <2> QED  BY <2>1, <2>3 DEF Issued
<1> QED  BY <1>1, RecordAlways, TypesAlways, PTL

\* A row belongs to a number that was given access, or whose own phone is
\* linked: neither the worker's insert for an unknown sender nor a stale save
\* lets anybody else in.
THEOREM RowsAreInvited == Spec => []OnlyInvited
<1>1. RecordInv => OnlyInvited
  BY DEF RecordInv, RowsInv, RowOf, OnlyInvited, HasRow, Known
<1> QED  BY <1>1, RecordAlways, PTL

-----------------------------------------------------------------------------
(* Who leaves the rows alone. *)

\* The statements that delete rows of the table of users.
DeletesRows == \/ \E t \in Threads : PurgeRow(t)
               \/ \E p \in Panels : WipeUsers(p)

\* Every other step leaves a row that is there under its id.
LEMMA RowsKeepIds ==
    ASSUME DataTypes, [Next]_vars, ~DeletesRows, NEW n \in Numbers, HasRow(n)
    PROVE  users'[n].id = users[n].id
<1> USE Constants
<1>1. \A t \in Threads : thread[t].num \in Numbers /\ thread[t].row \in Row
  BY ThreadType
<1>2. ASSUME NEW k \in Numbers, NEW r, CreateRow(k, r)
      PROVE  users'[n].id = users[n].id
  BY <1>2 DEF CreateRow, HasRow, DataTypes
<1>3. ASSUME NEW k \in Numbers, NEW r, SaveRow(k, r)
      PROVE  users'[n].id = users[n].id
  BY <1>3 DEF SaveRow, HasRow, DataTypes
<1>4. ASSUME UNCHANGED users
      PROVE  users'[n].id = users[n].id
  BY <1>4
<1>5. CASE UNCHANGED vars
  BY <1>4, <1>5 DEF vars, dataVars
<1>6. ASSUME NEW c \in Clients,
             (\E p \in Payload : Receive(c, p)) \/ GiveUp(c) \/ Deliver(c)
      PROVE  users'[n].id = users[n].id
  BY <1>4, <1>6 DEF Receive, GiveUp, Deliver, dataVars
<1>7. CASE WorkerStep
  <2>1. CASE CreateSender
    <3>1. CASE CreateRow(job.from, NoRow)
      BY <3>1 DEF CreateRow, HasRow, DataTypes
    <3> QED  BY <1>4, <2>1, <3>1 DEF CreateSender
  <2>2. CASE FoldSave
    BY <1>1, <1>3, <2>2 DEF FoldSave
  <2> QED  BY <1>4, <1>7, <2>1, <2>2
              DEF WorkerStep, Begin, FetchUser, Throttle, Dispatch, AskAgain, Answer,
                  Fold, JoinGroup, FindTarget, dataVars
<1>8. ASSUME NEW t \in Threads, ThreadStep(t)
      PROVE  users'[n].id = users[n].id
  <2>1. CASE Save(t)
    BY <1>1, <1>3, <2>1 DEF Save
  <2>2. CASE AddCreate(t)
    BY <1>1, <1>2, <1>4, <2>2 DEF AddCreate
  <2> QED  BY <1>4, <1>8, <2>1, <2>2
              DEF ThreadStep, ListNumber, PurgeMessages, PurgeMembers, Unlist,
                  DeletesRows
<1>9. ASSUME NEW p \in Panels, PanelStep(p)
      PROVE  users'[n].id = users[n].id
  <2>1. CASE SelfSave(p)
    BY <1>1, <1>3, <2>1 DEF SelfSave
  <2> QED  BY <1>4, <1>9, <2>1
              DEF PanelStep, PanelAdd, PanelAddSelf, PanelEdit, PanelDelete, PanelWipe,
                  Request, WipeMessages, WipeMembers, WipeWhitelist, dataVars,
                  DeletesRows
<1>10. CASE Restart
  <2>1. users' = RegisterAdmin(users, issued).users
    BY <1>10 DEF Restart
  <2>2. \/ users' = users
        \/ \E a \in InitialAdmin : \E r :
              users[a].id = 0 /\ users' = [users EXCEPT ![a] = r]
    <3> DEFINE boot == RegisterAdmin(users, issued)
    <3>1. \/ boot.users = users
          \/ \E a \in InitialAdmin :
                /\ users[a].id = 0
                /\ boot.users = [users EXCEPT ![a] =
                     [id |-> Len(issued) + 1, admin |-> TRUE, done |-> TRUE]]
      BY RegisterAdminFacts DEF DataTypes
    <3> QED  BY <2>1, <3>1
  <2> QED  BY <2>2 DEF HasRow, DataTypes
<1> QED  BY <1>5, <1>6, <1>7, <1>8, <1>9, <1>10 DEF Next

\* A step that is neither the worker's nor a restart leaves the worker and its
\* job alone, and adds no message and no membership.
LEMMA OthersStep ==
    ASSUME DataTypes, [Next]_vars, ~WorkerStep, ~ThreadStep(Worker), ~Restart
    PROVE  /\ thread'[Worker] = thread[Worker] /\ current' = current
           /\ messages' \subseteq messages /\ members' \subseteq members
<1> USE Constants
<1>1. CASE UNCHANGED vars
  BY <1>1 DEF vars, dataVars, queueVars
<1>2. ASSUME NEW c \in Clients,
             (\E p \in Payload : Receive(c, p)) \/ GiveUp(c) \/ Deliver(c)
      PROVE  /\ thread'[Worker] = thread[Worker] /\ current' = current
             /\ messages' \subseteq messages /\ members' \subseteq members
  BY <1>2 DEF Receive, GiveUp, Deliver, Accept, Refuse, Enqueue, dataVars
<1>3. ASSUME NEW p \in Panels, \/ \E step, n, r : GoWith(p, step, n, r)
                               \/ \E step : Go(p, step)
                               \/ Return(p)
      PROVE  thread'[Worker] = thread[Worker]
  BY <1>3, GoWithHolds, GoHolds, ReturnHolds
<1>4. ASSUME NEW t \in Threads, ThreadStep(t)
      PROVE  /\ thread'[Worker] = thread[Worker] /\ current' = current
             /\ messages' \subseteq messages /\ members' \subseteq members
  <2>1. t \in Panels /\ t # Worker
    BY <1>4 DEF Threads
  <2>2. (\E step : Go(t, step)) \/ Return(t)
    BY <1>4 DEF ThreadStep, Save, AddCreate, ListNumber, PurgeMessages, PurgeMembers,
                PurgeRow, Unlist
  <2>3. UNCHANGED queueVars
    BY <1>4, <2>1 DEF ThreadStep, Save, AddCreate, ListNumber, PurgeMessages,
                      PurgeMembers, PurgeRow, Unlist, Return
  <2>4. messages' \subseteq messages /\ members' \subseteq members
    BY <1>4 DEF ThreadStep, Save, AddCreate, ListNumber, PurgeMessages, PurgeMembers,
                PurgeRow, Unlist
  <2> QED  BY <1>3, <2>1, <2>2, <2>3, <2>4 DEF queueVars
<1>5. ASSUME NEW p \in Panels, PanelStep(p)
      PROVE  /\ thread'[Worker] = thread[Worker] /\ current' = current
             /\ messages' \subseteq messages /\ members' \subseteq members
  <2>1. \/ \E step, n, r : GoWith(p, step, n, r)
        \/ \E step : Go(p, step)
        \/ Return(p)
    BY <1>5 DEF PanelStep, PanelAdd, PanelAddSelf, PanelEdit, PanelDelete, SelfSave,
                PanelWipe, WipeMessages, WipeMembers, WipeUsers, WipeWhitelist
  <2>2. UNCHANGED queueVars
    BY <1>5 DEF PanelStep, PanelAdd, PanelAddSelf, PanelEdit, PanelDelete, SelfSave,
                PanelWipe, Request, WipeMessages, WipeMembers, WipeUsers,
                WipeWhitelist, Return
  <2>3. messages' \subseteq messages /\ members' \subseteq members
    BY <1>5 DEF PanelStep, PanelAdd, PanelAddSelf, PanelEdit, PanelDelete, SelfSave,
                PanelWipe, Request, WipeMessages, WipeMembers, WipeUsers,
                WipeWhitelist, dataVars
  <2> QED  BY <1>3, <2>1, <2>2, <2>3 DEF queueVars
<1> QED  BY <1>1, <1>2, <1>4, <1>5 DEF Next

-----------------------------------------------------------------------------
(* An erased number stays out. *)

\* Whatever erases, adds and edits run at once: a number gets back into the
\* whitelist only by being added again or by a restart.
THEOREM ErasedAreOut == Spec => ErasedStaysOut
<1>1. ASSUME [Next]_vars, NEW n \in erased' \cap whitelist', ~Restart
      PROVE  n \in erased \cap whitelist
  <2>1. CASE UNCHANGED vars
    BY <1>1, <2>1 DEF vars, dataVars, historyVars
  <2>2. ASSUME NEW c \in Clients,
               (\E p \in Payload : Receive(c, p)) \/ GiveUp(c) \/ Deliver(c)
        PROVE  n \in erased \cap whitelist
    BY <1>1, <2>2 DEF Receive, GiveUp, Deliver, dataVars, historyVars
  <2>3. CASE WorkerStep
    BY <1>1, <2>3 DEF WorkerStep, Begin, FetchUser, CreateSender, Throttle, Dispatch,
                      AskAgain, Answer, Fold, FoldSave, JoinGroup, FindTarget, dataVars,
                      historyVars
  <2>4. ASSUME NEW t \in Threads, ThreadStep(t)
        PROVE  n \in erased \cap whitelist
    <3>1. CASE ListNumber(t)
      BY <1>1, <3>1 DEF ListNumber, Invite
    <3>2. CASE Unlist(t)
      BY <1>1, <3>2 DEF Unlist
    <3>3. CASE AddCreate(t)
      BY <1>1, <3>3 DEF AddCreate, Invite
    <3> QED  BY <1>1, <2>4, <3>1, <3>2, <3>3
                DEF ThreadStep, Save, PurgeMessages, PurgeMembers, PurgeRow, historyVars
  <2>5. ASSUME NEW p \in Panels, PanelStep(p)
        PROVE  n \in erased \cap whitelist
    BY <1>1, <2>5 DEF PanelStep, PanelAdd, PanelAddSelf, PanelEdit, PanelDelete,
                      SelfSave, PanelWipe, Request, WipeMessages, WipeMembers,
                      WipeUsers, WipeWhitelist, dataVars, historyVars
  <2> QED  BY <1>1, <2>1, <2>2, <2>3, <2>4, <2>5 DEF Next
<1>2. [Next]_vars =>
         [\A n \in erased' \cap whitelist' : n \in erased \cap whitelist \/ Restart]_vars
  BY <1>1
<1> QED  BY <1>2, PTL DEF Spec, ErasedStaysOut

-----------------------------------------------------------------------------
(* No orphans.  Foreign keys are not enforced, so what keeps messages and    *)
(* memberships attached to a row is the order of the statements alone: the   *)
(* worker, which writes them, is also the one that erases on command.  The   *)
(* panel's erasures are other goroutines and are left out here (they do      *)
(* leave orphans, see the README).                                           *)

NoPanelErasure == PanelOps \cap {"delete", "wipe"} = {}

\* The panels only add and edit.
PanelsKeep ==
    \A p \in Panels :
        thread[p].pc \in {"idle", "save", "addCreate", "list", "selfSave"}

\* What is stored under an id, was left by the number whose row has that id.
Rooted == \A m \in messages \cup members : users[m[2]].id = m[1]

\* While the worker may store something, the sender's row is there, under the
\* id it fetched.
SenderPresent ==
    (At(Worker, "dispatch") \/ At(Worker, "answer") \/ At(Worker, "join"))
       => users[job.from].id = thread[Worker].row.id

\* By the time eraseUser deletes a row, nothing is stored under its id.
Purged == /\ At(Worker, "purgeMembers") \/ At(Worker, "purgeRow")
                => \A m \in messages : m[1] # thread[Worker].row.id
          /\ At(Worker, "purgeRow")
                => \A m \in members : m[1] # thread[Worker].row.id

RootInv == PanelsKeep /\ Rooted /\ SenderPresent /\ Purged

LEMMA PanelsKeepStep ==
    ASSUME NoPanelErasure, DataTypes, PanelsKeep, [Next]_vars
    PROVE  PanelsKeep'
<1> USE Constants
<1> SUFFICES ASSUME NEW p \in Panels
             PROVE  thread'[p].pc \in {"idle", "save", "addCreate", "list", "selfSave"}
  BY DEF PanelsKeep
<1>1. /\ p \in Threads /\ p # Worker
      /\ thread[p].pc \in {"idle", "save", "addCreate", "list", "selfSave"}
  BY DEF PanelsKeep
<1>2. CASE thread'[p] = thread[p]
  BY <1>1, <1>2
<1>3. ASSUME NEW t \in Threads, t # p, \/ \E step, n, r : GoWith(t, step, n, r)
                                       \/ \E step : Go(t, step)
                                       \/ Return(t)
      PROVE  thread'[p] = thread[p]
  BY <1>1, <1>3, GoWithHolds, GoHolds, ReturnHolds
<1>4. CASE Return(p) \/ \E step \in {"save", "addCreate", "list", "selfSave"} :
                            Go(p, step) \/ \E n, r : GoWith(p, step, n, r)
  BY <1>1, <1>4, GoWithHolds, GoHolds, ReturnHolds
<1>5. ASSUME NEW c \in Clients,
             (\E b \in Payload : Receive(c, b)) \/ GiveUp(c) \/ Deliver(c)
      PROVE  thread'[p] = thread[p]
  BY <1>5 DEF Receive, GiveUp, Deliver
<1>6. CASE WorkerStep
  <2>1. \/ \E step, n, r : GoWith(Worker, step, n, r)
        \/ \E step : Go(Worker, step)
        \/ Return(Worker)
    BY <1>6 DEF WorkerStep, Begin, FetchUser, CreateSender, Throttle, Dispatch,
                AskAgain, Answer, Fold, FoldSave, JoinGroup, FindTarget
  <2> QED  BY <1>1, <1>2, <1>3, <2>1
<1>7. ASSUME NEW t \in Threads, ThreadStep(t)
      PROVE  thread'[p].pc \in {"idle", "save", "addCreate", "list", "selfSave"}
  <2>1. CASE t = p
    BY <1>1, <1>4, <1>7, <2>1
       DEF ThreadStep, Save, AddCreate, ListNumber, PurgeMessages, PurgeMembers,
           PurgeRow, Unlist, At
  <2>2. CASE t # p
    <3>1. (\E step : Go(t, step)) \/ Return(t)
      BY <1>7 DEF ThreadStep, Save, AddCreate, ListNumber, PurgeMessages, PurgeMembers,
                  PurgeRow, Unlist
    <3> QED  BY <1>2, <1>3, <2>2, <3>1
  <2> QED  BY <2>1, <2>2
<1>8. ASSUME NEW q \in Panels, PanelStep(q)
      PROVE  thread'[p].pc \in {"idle", "save", "addCreate", "list", "selfSave"}
  <2>1. CASE q = p
    <3>1. ~PanelWipe(p) /\ \A n \in Numbers : ~PanelDelete(p, n)
      BY DEF NoPanelErasure, PanelWipe, PanelDelete, Request
    <3>2. ~(WipeMessages(p) \/ WipeMembers(p) \/ WipeUsers(p) \/ WipeWhitelist(p))
      BY <1>1 DEF WipeMessages, WipeMembers, WipeUsers, WipeWhitelist, At
    <3> QED  BY <1>4, <1>8, <2>1, <3>1, <3>2
                DEF PanelStep, PanelAdd, PanelAddSelf, PanelEdit, SelfSave
  <2>2. CASE q # p
    <3>1. \/ \E step, n, r : GoWith(q, step, n, r)
          \/ \E step : Go(q, step)
          \/ Return(q)
      BY <1>8 DEF PanelStep, PanelAdd, PanelAddSelf, PanelEdit, PanelDelete, SelfSave,
                  PanelWipe, WipeMessages, WipeMembers, WipeUsers, WipeWhitelist
    <3> QED  BY <1>2, <1>3, <2>2, <3>1
  <2> QED  BY <2>1, <2>2
<1>9. CASE Restart
  BY <1>9 DEF Restart
<1>10. CASE UNCHANGED vars
  BY <1>1, <1>10 DEF vars
<1> QED  BY <1>2, <1>5, <1>6, <1>7, <1>8, <1>9, <1>10 DEF Next

\* Only the worker deletes rows here, at the statement of eraseUser for it.
LEMMA OnlyWorkerDeletes ==
    ASSUME PanelsKeep, DeletesRows
    PROVE  PurgeRow(Worker)
<1>1. ~ \E p \in Panels : PurgeRow(p) \/ WipeUsers(p)
  BY DEF PanelsKeep, PurgeRow, WipeUsers, At
<1> QED  BY <1>1 DEF DeletesRows, Threads

\* Where the worker's own steps take it.
LEMMA WorkerGoes ==
    ASSUME DataTypes, WorkerStep \/ ThreadStep(Worker)
    PROVE  /\ thread'[Worker].pc = "dispatch" => FetchUser \/ CreateSender
           /\ thread'[Worker].pc \in {"answer", "join"} => Dispatch
           /\ thread'[Worker].pc = "purgeMembers" => PurgeMessages(Worker)
           /\ thread'[Worker].pc = "purgeRow" => PurgeMembers(Worker)
           /\ thread'[Worker].pc = "unlist" => PurgeRow(Worker)
           /\ thread'[Worker].pc = "list" => AddCreate(Worker)
<1> USE Constants
<1>1. ASSUME Return(Worker) \/ \E step \in {"fetch", "create", "fold", "foldSave",
                                            "save", "addCreate", "find", "purgeMessages"} :
                                  Go(Worker, step) \/ \E n, r : GoWith(Worker, step, n, r)
      PROVE  thread'[Worker].pc \in {"idle", "fetch", "create", "fold", "foldSave",
                                     "save", "addCreate", "find", "purgeMessages"}
  BY <1>1, GoWithHolds, GoHolds, ReturnHolds
<1>2. CASE FetchUser \/ CreateSender
  BY <1>1, <1>2, GoWithHolds DEF FetchUser, CreateSender
<1>3. CASE Dispatch
  <2>1. thread'[Worker].pc = Route(thread[Worker].row)
    <3>1. CASE Route(thread[Worker].row) = "addCreate"
      BY <1>3, <3>1, GoWithHolds DEF Dispatch
    <3>2. CASE Route(thread[Worker].row) # "addCreate"
      BY <1>3, <3>2, GoWithHolds DEF Dispatch
    <3> QED  BY <3>1, <3>2
  <2>2. Route(thread[Worker].row)
           \in {"join", "purgeMessages", "save", "addCreate", "find", "answer"}
    BY DEF Route
  <2> QED  BY <1>3, <2>1, <2>2
<1>4. CASE PurgeMessages(Worker)
  BY <1>4, GoHolds DEF PurgeMessages
<1>5. CASE PurgeMembers(Worker)
  BY <1>5, GoHolds DEF PurgeMembers
<1>6. CASE PurgeRow(Worker)
  BY <1>6, GoHolds DEF PurgeRow
<1>7. CASE AddCreate(Worker)
  BY <1>7, GoHolds DEF AddCreate
<1>8. CASE \/ Begin \/ Throttle \/ AskAgain \/ Answer \/ Fold \/ FoldSave \/ JoinGroup
           \/ FindTarget \/ Save(Worker) \/ ListNumber(Worker) \/ Unlist(Worker)
  BY <1>1, <1>8 DEF Begin, Throttle, AskAgain, Answer, Fold, FoldSave, JoinGroup,
                    FindTarget, Save, ListNumber, Unlist
<1> QED  BY <1>2, <1>3, <1>4, <1>5, <1>6, <1>7, <1>8 DEF WorkerStep, ThreadStep

LEMMA RootedStep ==
    ASSUME DataTypes, RecordInv, RootInv, [Next]_vars
    PROVE  Rooted'
<1> USE Constants
<1> SUFFICES ASSUME NEW m \in (messages \cup members)'
             PROVE  users'[m[2]].id = m[1]
  BY DEF Rooted
<1>1. ASSUME NEW k \in messages \cup members
      PROVE  k[2] \in Numbers /\ k[1] # 0 /\ users[k[2]].id = k[1]
  BY <1>1 DEF DataTypes, RecordInv, TracesInv, Issued, RootInv, Rooted
<1>2. CASE DeletesRows
  <2>1. PurgeRow(Worker)
    BY <1>2, OnlyWorkerDeletes DEF RootInv
  <2>2. m \in messages \cup members /\ m[1] # thread[Worker].row.id
    BY <2>1 DEF PurgeRow, RootInv, Purged
  <2> QED  BY <1>1, <2>1, <2>2 DEF PurgeRow
<1>3. CASE m \in messages \cup members /\ ~DeletesRows
  BY <1>1, <1>3, RowsKeepIds DEF HasRow
<1>4. CASE m \notin messages \cup members
  <2>1. Answer \/ JoinGroup
    <3>1. \/ messages' \cup members' \subseteq messages \cup members
          \/ Answer \/ JoinGroup
      <4>1. CASE WorkerStep
        BY <4>1 DEF WorkerStep, Begin, FetchUser, CreateSender, Throttle, Dispatch,
                    AskAgain, Fold, FoldSave, FindTarget, dataVars
      <4>2. CASE ThreadStep(Worker)
        BY <4>2 DEF ThreadStep, Save, AddCreate, ListNumber, PurgeMessages,
                    PurgeMembers, PurgeRow, Unlist
      <4>3. CASE Restart
        BY <4>3 DEF Restart
      <4> QED  BY <4>1, <4>2, <4>3, OthersStep
    <3> QED  BY <1>4, <3>1
  <2>2. /\ m = <<thread[Worker].row.id, job.from>>
        /\ users' = users
        /\ At(Worker, "answer") \/ At(Worker, "join")
    BY <1>4, <2>1 DEF Answer, JoinGroup
  <2> QED  BY <2>2 DEF RootInv, SenderPresent
<1> QED  BY <1>2, <1>3, <1>4

LEMMA SenderPresentStep ==
    ASSUME QueueTypeOK, DataTypes, WorkerInv, RecordInv, RootInv, [Next]_vars
    PROVE  SenderPresent'
<1> USE Constants
<1> DEFINE w == thread[Worker]
<1> SUFFICES ASSUME thread'[Worker].pc \in {"dispatch", "answer", "join"}
             PROVE  users'[job'.from].id = thread'[Worker].row.id
  BY DEF SenderPresent, At
<1>1. ~Restart
  BY DEF Restart
<1>2. CASE WorkerStep \/ ThreadStep(Worker)
  <2>1. FetchUser \/ CreateSender \/ Dispatch
    BY <1>2, WorkerGoes
  <2>2. CASE FetchUser
    <3>1. GoWith(Worker, "dispatch", job.from, users[job.from])
      BY <2>2, GoHolds DEF FetchUser
    <3> QED  BY <2>2, <3>1, GoWithHolds DEF FetchUser, queueVars, dataVars, job
  <2>3. CASE CreateSender
    <3>1. /\ GoWith(Worker, "dispatch", job.from, users'[job.from])
          /\ UNCHANGED queueVars
      BY <2>3, ReturnHolds DEF CreateSender
    <3> QED  BY <3>1, GoWithHolds DEF queueVars, job
  <2>4. CASE Dispatch
    <3>1. /\ At(Worker, "dispatch") /\ users' = users /\ job' = job
      BY <2>4 DEF Dispatch, queueVars, dataVars, job
    <3>2. Route(w.row) # "addCreate"
      BY <2>4, GoWithHolds DEF Dispatch
    <3>3. w.row.done \in BOOLEAN /\ w.row \in Row
      BY ThreadType DEF Row
    <3>4. PICK d \in BOOLEAN :
             GoWith(Worker, Route(w.row), job.from, [w.row EXCEPT !.done = d])
      BY <2>4, <3>2, <3>3 DEF Dispatch
    <3>5. thread'[Worker].row = [w.row EXCEPT !.done = d]
      BY <3>4, GoWithHolds
    <3>6. thread'[Worker].row.id = w.row.id
      BY <3>3, <3>5 DEF Row
    <3> QED  BY <3>1, <3>6 DEF RootInv, SenderPresent
  <2> QED  BY <2>1, <2>2, <2>3, <2>4
<1>3. CASE ~WorkerStep /\ ~ThreadStep(Worker)
  <2>1. /\ thread'[Worker] = w /\ job' = job
        /\ At(Worker, "dispatch") \/ At(Worker, "answer") \/ At(Worker, "join")
    BY <1>1, <1>3, OthersStep DEF At, job
  <2>2. users[job.from].id = w.row.id /\ w.row.id # 0
    BY <2>1 DEF RootInv, SenderPresent, RecordInv, SenderInv
  <2>3. job.from \in Numbers
    BY <2>1, JobType DEF WorkerInv, At
  <2>4. ~DeletesRows
    BY <1>3, OnlyWorkerDeletes DEF RootInv, ThreadStep
  <2> QED  BY <2>1, <2>2, <2>3, <2>4, RowsKeepIds DEF HasRow
<1> QED  BY <1>2, <1>3

LEMMA PurgedStep ==
    ASSUME DataTypes, RootInv, [Next]_vars
    PROVE  Purged'
<1> USE Constants
<1> DEFINE w == thread[Worker]
<1>1. ASSUME thread'[Worker].pc \in {"purgeMembers", "purgeRow"}
      PROVE  /\ \A m \in messages' : m[1] # thread'[Worker].row.id
             /\ thread'[Worker].pc = "purgeRow"
                   => \A m \in members' : m[1] # thread'[Worker].row.id
  <2>1. CASE WorkerStep \/ ThreadStep(Worker)
    <3>1. CASE PurgeMessages(Worker)
      BY <3>1, GoHolds DEF PurgeMessages
    <3>2. CASE PurgeMembers(Worker)
      BY <3>2, GoHolds DEF PurgeMembers, RootInv, Purged
    <3> QED  BY <1>1, <2>1, <3>1, <3>2, WorkerGoes
  <2>2. CASE ~WorkerStep /\ ~ThreadStep(Worker)
    <3>1. ~Restart
      BY <1>1 DEF Restart
    <3> QED  BY <1>1, <2>2, <3>1, OthersStep DEF RootInv, Purged, At
  <2> QED  BY <2>1, <2>2
<1> QED  BY <1>1 DEF Purged, At

\* For any numbers, messages, additions, edits and restarts: as long as no
\* erasure of the panel runs beside the worker, messages and memberships
\* belong to a row at every moment, also between two statements of eraseUser
\* and after a crash there.
THEOREM NothingOrphaned == NoPanelErasure => (Spec => []NoOrphans)
<1> SUFFICES ASSUME NoPanelErasure PROVE Spec => []NoOrphans
  OBVIOUS
<1>1. Init => RootInv
  BY Constants DEF Init, RootInv, PanelsKeep, Rooted, SenderPresent, Purged, At
<1>2. TypeOK /\ WorkerInv /\ RecordInv /\ RootInv /\ [Next]_vars => RootInv'
  BY Parts, PanelsKeepStep, RootedStep, SenderPresentStep, PurgedStep DEF RootInv
<1>3. TypeOK /\ RootInv => NoOrphans
  BY DEF TypeOK, RootInv, Rooted, NoOrphans
<1> QED  BY <1>1, <1>2, <1>3, TypesAlways, RecordAlways, PTL DEF Spec

-----------------------------------------------------------------------------
(* Whoever may write has a row.  The worker adds and erases one number at a  *)
(* time; a panel that only edits can bring a row back but takes none away.   *)

OnlyEdits == PanelOps \subseteq {"edit"}

PanelsEdit == \A p \in Panels : thread[p].pc \in {"idle", "save"}

\* The row of a listed number is there until eraseUser has deleted it and is
\* about to take the number from the whitelist; /add lists a number with a row.
ListedInv ==
    /\ \A n \in whitelist :
          HasRow(n) \/ (At(Worker, "unlist") /\ thread[Worker].num = n)
    /\ At(Worker, "list") => HasRow(thread[Worker].num)

LEMMA PanelsEditStep ==
    ASSUME OnlyEdits, DataTypes, PanelsEdit, [Next]_vars
    PROVE  PanelsEdit'
<1> USE Constants
<1> SUFFICES ASSUME NEW p \in Panels PROVE thread'[p].pc \in {"idle", "save"}
  BY DEF PanelsEdit
<1>1. p \in Threads /\ p # Worker /\ thread[p].pc \in {"idle", "save"}
  BY DEF PanelsEdit
<1>2. CASE thread'[p] = thread[p]
  BY <1>1, <1>2
<1>3. ASSUME NEW t \in Threads, t # p, \/ \E step, n, r : GoWith(t, step, n, r)
                                       \/ \E step : Go(t, step)
                                       \/ Return(t)
      PROVE  thread'[p] = thread[p]
  BY <1>1, <1>3, GoWithHolds, GoHolds, ReturnHolds
<1>4. CASE Return(p) \/ \E n, r : GoWith(p, "save", n, r)
  BY <1>1, <1>4, GoWithHolds, ReturnHolds
<1>5. ASSUME NEW c \in Clients,
             (\E b \in Payload : Receive(c, b)) \/ GiveUp(c) \/ Deliver(c)
      PROVE  thread'[p] = thread[p]
  BY <1>5 DEF Receive, GiveUp, Deliver
<1>6. CASE WorkerStep
  <2>1. \/ \E step, n, r : GoWith(Worker, step, n, r)
        \/ \E step : Go(Worker, step)
        \/ Return(Worker)
    BY <1>6 DEF WorkerStep, Begin, FetchUser, CreateSender, Throttle, Dispatch,
                AskAgain, Answer, Fold, FoldSave, JoinGroup, FindTarget
  <2> QED  BY <1>1, <1>2, <1>3, <2>1
<1>7. ASSUME NEW t \in Threads, ThreadStep(t)
      PROVE  thread'[p].pc \in {"idle", "save"}
  <2>1. CASE t = p
    BY <1>1, <1>4, <1>7, <2>1
       DEF ThreadStep, Save, AddCreate, ListNumber, PurgeMessages, PurgeMembers,
           PurgeRow, Unlist, At
  <2>2. CASE t # p
    <3>1. (\E step : Go(t, step)) \/ Return(t)
      BY <1>7 DEF ThreadStep, Save, AddCreate, ListNumber, PurgeMessages, PurgeMembers,
                  PurgeRow, Unlist
    <3> QED  BY <1>2, <1>3, <2>2, <3>1
  <2> QED  BY <2>1, <2>2
<1>8. ASSUME NEW q \in Panels, PanelStep(q)
      PROVE  thread'[p].pc \in {"idle", "save"}
  <2>0. thread[q].pc \in {"idle", "save"}
    BY DEF PanelsEdit
  <2>1. PICK n \in Numbers : PanelEdit(q, n)
    BY <1>8, <2>0 DEF OnlyEdits, PanelStep, PanelAdd, PanelAddSelf, PanelDelete,
       PanelWipe, Request, SelfSave, WipeMessages, WipeMembers, WipeUsers,
       WipeWhitelist, At
  <2>2. CASE q = p
    BY <1>4, <2>1, <2>2 DEF PanelEdit
  <2>3. CASE q # p
    BY <1>2, <1>3, <2>1, <2>3 DEF PanelEdit
  <2> QED  BY <2>2, <2>3
<1>9. CASE Restart
  BY <1>9 DEF Restart
<1>10. CASE UNCHANGED vars
  BY <1>1, <1>10 DEF vars
<1> QED  BY <1>2, <1>5, <1>6, <1>7, <1>8, <1>9, <1>10 DEF Next

\* Who puts numbers into the whitelist, and who takes them out.
LEMMA WhitelistStep ==
    ASSUME DataTypes, PanelsEdit, [Next]_vars, ~Restart, NEW n \in whitelist'
    PROVE  \/ n \in whitelist /\ ~(At(Worker, "unlist") /\ Unlist(Worker)
                                   /\ thread[Worker].num = n)
           \/ ListNumber(Worker) /\ n = thread[Worker].num
<1> USE Constants
<1>1. \A p \in Panels : ~ListNumber(p) /\ ~Unlist(p) /\ ~WipeWhitelist(p)
  BY DEF PanelsEdit, ListNumber, Unlist, WipeWhitelist, At
<1>2. CASE ListNumber(Worker)
  BY <1>2 DEF ListNumber, Unlist, At
<1>3. CASE Unlist(Worker)
  BY <1>3 DEF Unlist
<1>4. CASE whitelist' = whitelist /\ ~Unlist(Worker)
  BY <1>4
<1>5. whitelist' = whitelist \/ ListNumber(Worker) \/ Unlist(Worker)
  <2>1. CASE UNCHANGED vars
    BY <2>1 DEF vars, dataVars
  <2>2. ASSUME NEW c \in Clients,
               (\E p \in Payload : Receive(c, p)) \/ GiveUp(c) \/ Deliver(c)
        PROVE  whitelist' = whitelist
    BY <2>2 DEF Receive, GiveUp, Deliver, dataVars
  <2>3. CASE WorkerStep
    BY <2>3 DEF WorkerStep, Begin, FetchUser, CreateSender, Throttle, Dispatch,
                AskAgain, Answer, Fold, FoldSave, JoinGroup, FindTarget, dataVars
  <2>4. ASSUME NEW t \in Threads, ThreadStep(t)
        PROVE  whitelist' = whitelist \/ ListNumber(Worker) \/ Unlist(Worker)
    BY <1>1, <2>4 DEF ThreadStep, Save, AddCreate, PurgeMessages, PurgeMembers,
                      PurgeRow, Threads
  <2>5. ASSUME NEW p \in Panels, PanelStep(p)
        PROVE  whitelist' = whitelist
    BY <1>1, <2>5 DEF PanelStep, PanelAdd, PanelAddSelf, PanelEdit, PanelDelete,
                      SelfSave, PanelWipe, Request, WipeMessages, WipeMembers,
                      WipeUsers, dataVars
  <2> QED  BY <2>1, <2>2, <2>3, <2>4, <2>5 DEF Next
<1> QED  BY <1>2, <1>3, <1>4, <1>5

LEMMA ListedStep ==
    ASSUME DataTypes, RecordInv, PanelsEdit, ListedInv, [Next]_vars
    PROVE  ListedInv'
<1> USE Constants
<1> DEFINE w == thread[Worker]
<1>1. w.num \in Numbers /\ w.row \in Row /\ w.row.id \in Nat
  BY ThreadType
<1>2. PanelsKeep
  BY DEF PanelsEdit, PanelsKeep
\* The row that eraseUser deletes is the one of the number at hand.
<1>3. CASE DeletesRows
  <2>1. PurgeRow(Worker)
    BY <1>2, <1>3, OnlyWorkerDeletes
  <2>2. /\ thread'[Worker].pc = "unlist" /\ thread'[Worker].num = w.num
        /\ whitelist' = whitelist /\ At(Worker, "purgeRow")
    BY <2>1, GoHolds DEF PurgeRow
  <2>3. ASSUME NEW n \in Numbers, HasRow(n), n # w.num
        PROVE  users'[n].id # 0
    <3>1. users[n].id # w.row.id
      BY <1>1, <2>3 DEF RecordInv, RowsInv, CopiesInv, RowOf, Issued, HasRow
    <3> QED  BY <2>1, <2>3, <3>1 DEF PurgeRow, HasRow
  <2>4. \A n \in whitelist : HasRow(n) /\ n \in Numbers
    BY <2>2 DEF ListedInv, At, DataTypes
  <2> QED  BY <2>2, <2>3, <2>4 DEF ListedInv, At, HasRow
<1>4. CASE Restart
  BY <1>4 DEF Restart, ListedInv, HasRow, At
<1>5. CASE ~DeletesRows /\ ~Restart
  <2>1. \A n \in Numbers : HasRow(n) => HasRow(n)'
    BY <1>5, RowsKeepIds DEF HasRow
  <2>2. /\ thread'[Worker].pc = "list" => users'[thread'[Worker].num].id # 0
        /\ \A n : At(Worker, "unlist") /\ w.num = n
                     => Unlist(Worker) \/ (thread'[Worker] = w)
    <3>1. CASE WorkerStep \/ ThreadStep(Worker)
      <4>1. ASSUME AddCreate(Worker), thread'[Worker].pc = "list"
            PROVE  users'[thread'[Worker].num].id # 0
        <5>1. thread'[Worker].num = w.num
          BY <4>1, GoHolds, ReturnHolds DEF AddCreate
        <5>2. CASE CreateRow(w.num, w.row)
          <6>1. users'[w.num].id = Len(issued) + 1 /\ Len(issued) \in Nat
            BY <1>1, <5>2 DEF CreateRow, DataTypes, Row
          <6> QED  BY <5>1, <6>1 DEF HasRow
        <5>3. CASE HasRow(w.num)
          BY <1>1, <2>1, <5>1, <5>3 DEF HasRow
        <5> QED  BY <4>1, <5>2, <5>3 DEF AddCreate
      <4>2. At(Worker, "unlist") => Unlist(Worker)
        BY <3>1 DEF WorkerStep, Begin, FetchUser, CreateSender, Throttle, Dispatch,
                    AskAgain, Answer, Fold, FoldSave, JoinGroup, FindTarget,
                    ThreadStep, Save, AddCreate, ListNumber, PurgeMessages,
                    PurgeMembers, PurgeRow, At
      <4> QED  BY <3>1, <4>1, <4>2, WorkerGoes
    <3>2. CASE ~WorkerStep /\ ~ThreadStep(Worker)
      <4>1. thread'[Worker] = w
        BY <1>5, <3>2, OthersStep
      <4> QED  BY <1>1, <2>1, <4>1 DEF ListedInv, At, HasRow
    <3> QED  BY <3>1, <3>2
  <2>3. ASSUME NEW n \in whitelist'
        PROVE  HasRow(n)' \/ (At(Worker, "unlist")' /\ thread'[Worker].num = n)
    <3>1. CASE ListNumber(Worker) /\ n = w.num
      BY <1>1, <2>1, <3>1 DEF ListNumber, ListedInv
    <3>2. CASE n \in whitelist /\ ~(At(Worker, "unlist") /\ Unlist(Worker) /\ w.num = n)
      BY <2>1, <2>2, <3>2 DEF ListedInv, At, DataTypes
    <3> QED  BY <1>5, <2>3, <3>1, <3>2, WhitelistStep
  <2> QED  BY <2>2, <2>3 DEF ListedInv, At, HasRow
<1> QED  BY <1>3, <1>4, <1>5

\* For any numbers, commands, edits and restarts: a number that may write has
\* a row, except between the last two statements of its own erasure.
THEOREM ListedHaveRows == OnlyEdits => (Spec => []WhitelistedHasRow)
<1> SUFFICES ASSUME OnlyEdits PROVE Spec => []WhitelistedHasRow
  OBVIOUS
<1>1. Init => PanelsEdit /\ ListedInv
  BY Constants DEF Init, PanelsEdit, ListedInv, HasRow, At
<1>2. TypeOK /\ RecordInv /\ PanelsEdit /\ ListedInv /\ [Next]_vars
         => PanelsEdit' /\ ListedInv'
  BY Parts, PanelsEditStep, ListedStep
<1>3. ListedInv => WhitelistedHasRow
  BY Constants DEF ListedInv, WhitelistedHasRow
<1> QED  BY <1>1, <1>2, <1>3, TypesAlways, RecordAlways, PTL DEF Spec

=============================================================================
