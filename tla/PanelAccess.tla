----------------------------- MODULE PanelAccess -----------------------------
(***************************************************************************)
(* Who may use the web panel (internal/service/web_admin.go): the table    *)
(* admin_accounts, the handlers of /setup, /login, /logout, /recover and   *)
(* change-password, the session check in front of every other handler, and *)
(* the /recover command of the WhatsApp chat (internal/service/whatsapp.go).*)
(*                                                                         *)
(* Every handler reads a whole row, changes fields of its copy and saves   *)
(* the whole copy (database.DB.Save), and nothing orders two requests: a   *)
(* save can put back any field another request has changed meanwhile.  The *)
(* transactions of /recover start after the read, so they order nothing.   *)
(*                                                                         *)
(* A password is its number, in the order they are set.  A session token   *)
(* names the password it was opened with, a reset token the channel it was *)
(* sent through, so that a token says what it was issued for.  Requests    *)
(* that are refused without a write are left out, and so is the salt and   *)
(* the comparison of hashes.  The four statements that erase the data are  *)
(* in Lifecycle; here they are one step, and of the data only its age is   *)
(* kept.                                                                   *)
(***************************************************************************)
EXTENDS Integers, Sequences

CONSTANTS Emails,        \* e-mails typed into /setup
          Requests,      \* request goroutines of the panel
          Worker,        \* the queue worker, which runs the chat commands
          SessionTTL, ResetTTL, Cooldown,   \* 24 h, 15 min, 60 s
          NoEmail,
          MaxTime,       \* bound: the clock stops here
          MaxPasswords,  \* bound: passwords ever set
          MaxTokens      \* bound: tokens ever issued

Threads == Requests \cup {Worker}

ASSUME PanelAccessAssumption ==
    /\ Worker \notin Requests
    /\ NoEmail \notin Emails
    /\ SessionTTL \in Nat /\ ResetTTL \in Nat /\ Cooldown \in Nat
    /\ MaxTime \in Nat /\ MaxPasswords \in Nat /\ MaxTokens \in Nat

VARIABLES accounts,  \* admin_accounts, by id
          asked,     \* recoverCooldown: when an e-mail last asked for a token
          now,
          passwords, tokens,  \* how many have been set and issued
          setBy,     \* per password: the reset token it was set with
          data,      \* how many passwords had been set when the oldest of the
                     \* students, messages and groups there are was stored
          cut,       \* the passwords whose reset was cut before it erased the data,
                     \* which are still there
          thread     \* per goroutine: next step, row id and copy, cookie

vars == <<accounts, asked, now, passwords, tokens, setBy, data, cut, thread>>

Channels == {"web", "chat"}
NoSession == [no |-> 0, pwd |-> 0]
NoToken == [no |-> 0, via |-> "web"]
Never == -1     \* time.Time{}, and a key missing from recoverCooldown
NoData == -1

Session == [no : Nat, pwd : Nat]
Token == [no : Nat, via : Channels]
Row == [email : Emails \cup {NoEmail}, pwd : Nat, session : Session,
        until : Nat \cup {Never}, token : Token, expires : Nat \cup {Never},
        trusted : BOOLEAN]
NewRow(e, w) == [email |-> e, pwd |-> w, session |-> NoSession, until |-> Never,
                 token |-> NoToken, expires |-> Never, trusted |-> FALSE]
NoRow == NewRow(NoEmail, 0)

Steps == {"idle", "create", "login", "logout", "change", "changeSave",
          "erase", "issue", "reset", "wipe"}
IdleThread == [pc |-> "idle", id |-> 0, copy |-> NoRow, cookie |-> NoSession]

At(t, step) == thread[t].pc = step
Return(t) == thread' = [thread EXCEPT ![t] = IdleThread]

\* A request about account i reads its row.
Read(t, step, i) ==
    thread' = [thread EXCEPT ![t] = [pc |-> step, id |-> i, copy |-> accounts[i],
                                     cookie |-> NoSession]]

\* database.DB.Save: every column of the copy.
SaveRow(t, row) == accounts' = [accounts EXCEPT ![thread[t].id] = row]

NextPassword == passwords < MaxPasswords /\ passwords' = passwords + 1
NextToken == tokens < MaxTokens /\ tokens' = tokens + 1

Init == /\ accounts = <<>>
        /\ asked = [e \in Emails |-> Never]
        /\ now = 0
        /\ passwords = 0
        /\ tokens = 0
        /\ setBy = [w \in 1 .. MaxPasswords |-> NoToken]
        /\ data = 0
        /\ cut = {}
        /\ thread = [t \in Threads |-> IdleThread]

-----------------------------------------------------------------------------
(* /setup: hasAdminAccounts, and the insertion. *)

SetupCheck(t, e) ==
    /\ At(t, "idle")
    /\ accounts = <<>>
    /\ thread' = [thread EXCEPT ![t].pc = "create", ![t].copy = NewRow(e, 0)]
    /\ UNCHANGED <<accounts, asked, now, passwords, tokens, setBy, data, cut>>

\* The e-mails of the table are unique.
SetupCreate(t) ==
    /\ At(t, "create")
    /\ LET e == thread[t].copy.email IN
       IF \E i \in 1 .. Len(accounts) : accounts[i].email = e
       THEN UNCHANGED <<accounts, passwords>>
       ELSE /\ NextPassword
            /\ accounts' = Append(accounts, NewRow(e, passwords'))
    /\ Return(t)
    /\ UNCHANGED <<asked, now, tokens, setBy, data, cut>>

-----------------------------------------------------------------------------
(* /login and /logout *)

\* The password typed is the one of the row as read.
LoginRead(t, i) ==
    /\ At(t, "idle")
    /\ Read(t, "login", i)
    /\ UNCHANGED <<accounts, asked, now, passwords, tokens, setBy, data, cut>>

LoginSave(t) ==
    /\ At(t, "login")
    /\ NextToken
    /\ SaveRow(t, [thread[t].copy EXCEPT
                     !.session = [no |-> tokens', pwd |-> thread[t].copy.pwd],
                     !.until = now + SessionTTL])
    /\ Return(t)
    /\ UNCHANGED <<asked, now, passwords, setBy, data, cut>>

LogoutRead(t, i) ==
    /\ At(t, "idle")
    /\ accounts[i].session # NoSession
    /\ Read(t, "logout", i)
    /\ UNCHANGED <<accounts, asked, now, passwords, tokens, setBy, data, cut>>

LogoutSave(t) ==
    /\ At(t, "logout")
    /\ SaveRow(t, [thread[t].copy EXCEPT !.session = NoSession, !.until = Never])
    /\ Return(t)
    /\ UNCHANGED <<asked, now, passwords, tokens, setBy, data, cut>>

-----------------------------------------------------------------------------
(* Behind the session check: change-password, and the Danger Zone. *)

\* sessionMiddleware: the token is that of a row, and the row has not expired.
SessionMiddleware(t, i, step) ==
    /\ At(t, "idle")
    /\ accounts[i].session # NoSession
    /\ accounts[i].until # Never
    /\ now <= accounts[i].until
    /\ thread' = [thread EXCEPT ![t].pc = step, ![t].cookie = accounts[i].session]
    /\ UNCHANGED <<accounts, asked, now, passwords, tokens, setBy, data, cut>>

\* The handler looks the cookie up once more; its row may be gone by now.
ChangeRead(t) ==
    /\ At(t, "change")
    /\ LET mine == {i \in 1 .. Len(accounts) : accounts[i].session = thread[t].cookie} IN
       \/ mine = {} /\ Return(t)
       \/ \E i \in mine : Read(t, "changeSave", i)
    /\ UNCHANGED <<accounts, asked, now, passwords, tokens, setBy, data, cut>>

\* Rejected: the session stays open.
ChangeSaveStaysOpen(t) ==
    /\ At(t, "changeSave")
    /\ NextPassword
    /\ SaveRow(t, [thread[t].copy EXCEPT !.pwd = passwords'])
    /\ Return(t)
    /\ UNCHANGED <<asked, now, tokens, setBy, data, cut>>

ChangeSave(t) ==
    /\ At(t, "changeSave")
    /\ NextPassword
    /\ SaveRow(t, [thread[t].copy EXCEPT !.pwd = passwords', !.session = NoSession,
                                         !.until = Never])
    /\ Return(t)
    /\ UNCHANGED <<asked, now, tokens, setBy, data, cut>>

\* wipeUserData
Erase(t) == /\ data' = NoData
            /\ cut' = {}
            /\ Return(t)
            /\ UNCHANGED <<accounts, asked, now, passwords, tokens, setBy>>

\* handlePostResetData
ResetData(t) == At(t, "erase") /\ Erase(t)

-----------------------------------------------------------------------------
(* /recover of the panel: asking for a token. *)

RecoverOnCooldown(e) == asked[e] # Never /\ now - asked[e] < Cooldown

RecoverRead(t, i) ==
    /\ At(t, "idle")
    /\ ~RecoverOnCooldown(accounts[i].email)
    /\ asked' = [asked EXCEPT ![accounts[i].email] = now]
    /\ Read(t, "issue", i)
    /\ UNCHANGED <<accounts, now, passwords, tokens, setBy, data, cut>>

\* Rejected: the mark of the token that was there before stays.
IssueUnmarked(t, via) ==
    /\ At(t, "issue")
    /\ NextToken
    /\ SaveRow(t, [thread[t].copy EXCEPT
                     !.token = [no |-> tokens', via |-> via],
                     !.expires = now + ResetTTL,
                     !.trusted = (@ \/ via = "chat")])
    /\ Return(t)
    /\ UNCHANGED <<asked, now, passwords, setBy, data, cut>>

\* The token goes to the console of the server or to the admin's chat.
Issue(t, via) ==
    /\ At(t, "issue")
    /\ NextToken
    /\ SaveRow(t, [thread[t].copy EXCEPT
                     !.token = [no |-> tokens', via |-> via],
                     !.expires = now + ResetTTL,
                     !.trusted = (via = "chat")])
    /\ Return(t)
    /\ UNCHANGED <<asked, now, passwords, setBy, data, cut>>

IssueWeb(t) == t \in Requests /\ Issue(t, "web")

\* The chat's /recover: the first account, and no cooldown.
ChatRecoverRead ==
    /\ At(Worker, "idle")
    /\ accounts # <<>>
    /\ Read(Worker, "issue", 1)
    /\ UNCHANGED <<accounts, asked, now, passwords, tokens, setBy, data, cut>>

IssueChat == Issue(Worker, "chat")

-----------------------------------------------------------------------------
(* /recover of the panel: using a token. *)

\* The row is read before the transaction that validates the token.
ResetRead(t, i) ==
    /\ At(t, "idle")
    /\ Read(t, "reset", i)
    /\ UNCHANGED <<accounts, asked, now, passwords, tokens, setBy, data, cut>>

\* The token typed is that of the copy, and the copy has not expired.
TokenAccepted(t) == /\ thread[t].copy.token # NoToken
                    /\ now <= thread[t].copy.expires

\* It has expired, or another one was typed.
ResetRefused(t) ==
    /\ At(t, "reset")
    /\ Return(t)
    /\ UNCHANGED <<accounts, asked, now, passwords, tokens, setBy, data, cut>>

\* The copy is saved as row.  A token of the console goes on to erase the data.
ResetTo(t, row) ==
    /\ At(t, "reset")
    /\ TokenAccepted(t)
    /\ NextPassword
    /\ setBy' = [setBy EXCEPT ![passwords'] = thread[t].copy.token]
    /\ SaveRow(t, row)
    /\ IF thread[t].copy.trusted
       THEN Return(t)
       ELSE thread' = [thread EXCEPT ![t].pc = "wipe", ![t].copy = row]
    /\ UNCHANGED <<asked, now, tokens, data, cut>>

\* Rejected: the token stays, for a second reset.
ResetKeepsToken(t) ==
    ResetTo(t, [thread[t].copy EXCEPT !.pwd = passwords', !.session = NoSession])

ResetSave(t) ==
    ResetTo(t, [thread[t].copy EXCEPT
                  !.pwd = passwords', !.token = NoToken, !.expires = Never,
                  !.trusted = FALSE, !.session = NoSession])

\* What follows a reset that was not trusted.
Wipe(t) == At(t, "wipe") /\ Erase(t)

-----------------------------------------------------------------------------
\* A student writes, or an administrator adds one.
Use == /\ data = NoData
       /\ data' = passwords
       /\ UNCHANGED <<accounts, asked, now, passwords, tokens, setBy, cut, thread>>

Tick == /\ now < MaxTime
        /\ now' = now + 1
        /\ UNCHANGED <<accounts, asked, passwords, tokens, setBy, data, cut, thread>>

\* The process stops between two statements and starts again: the table is
\* all that is left, sessions and reset tokens included.
Restart == /\ cut' = cut \cup {thread[t].copy.pwd : t \in {t \in Requests : At(t, "wipe")}}
           /\ asked' = [e \in Emails |-> Never]
           /\ thread' = [t \in Threads |-> IdleThread]
           /\ UNCHANGED <<accounts, now, passwords, tokens, setBy, data>>

Request(t) ==
    \/ \E e \in Emails : SetupCheck(t, e)
    \/ \E i \in 1 .. Len(accounts) :
          \/ LoginRead(t, i) \/ LogoutRead(t, i)
          \/ SessionMiddleware(t, i, "change") \/ SessionMiddleware(t, i, "erase")
          \/ RecoverRead(t, i) \/ ResetRead(t, i)

Handle(t) == \/ SetupCreate(t) \/ LoginSave(t) \/ LogoutSave(t)
             \/ ChangeRead(t) \/ ChangeSave(t) \/ ResetData(t)
             \/ IssueWeb(t) \/ ResetRefused(t) \/ ResetSave(t) \/ Wipe(t)

Next == \/ \E t \in Requests : Request(t) \/ Handle(t)
        \/ ChatRecoverRead \/ IssueChat
        \/ Use \/ Tick \/ Restart

Spec == Init /\ [][Next]_vars

-----------------------------------------------------------------------------
TypeOK ==
    /\ accounts \in Seq(Row)
    /\ asked \in [Emails -> Nat \cup {Never}]
    /\ now \in Nat
    /\ passwords \in 0 .. MaxPasswords
    /\ tokens \in 0 .. MaxTokens
    /\ setBy \in [1 .. MaxPasswords -> Token]
    /\ data \in {NoData} \cup 0 .. passwords
    /\ cut \subseteq 1 .. passwords
    /\ thread \in [Threads -> [pc : Steps, id : Nat, copy : Row, cookie : Session]]

\* Whatever requests overlap and put older rows back, a session that opens the
\* panel was opened with the very password that is in force: changing and
\* resetting it "drops previous sessions", and a late save that revives an old
\* session revives its password with it.
SessionUnderPassword ==
    \A i \in 1 .. Len(accounts) :
        accounts[i].session # NoSession => accounts[i].session.pwd = accounts[i].pwd

\* A password was set with a token of the console, and there is data from before.
OwesWipe(w) == /\ setBy[w].no # 0 /\ setBy[w].via = "web"
               /\ data # NoData /\ data < w

\* A reset with a token of the console erases every student, message and group
\* there was ("we treat it as a possible compromise and wipe the data"): none of
\* them is there beside the new password once the request is over, but if the
\* process stops between the two.  One with a token of the chat erases nothing
\* ("a reset done with this token does NOT wipe the data").  Both hold also when
\* requests for tokens of both kinds overlap and save over each other.
WipedUnlessProven ==
    /\ [](\A w \in 1 .. MaxPasswords : OwesWipe(w) =>
             \/ w \in cut
             \/ \E t \in Requests : At(t, "wipe") /\ thread[t].copy.pwd = w)
    /\ [][data # NoData /\ data' = NoData =>
             \E t \in Requests : \/ At(t, "erase")
                                 \/ At(t, "wipe") /\ setBy[thread[t].copy.pwd].via = "web"]_vars

\* No account ever offers the reset token that its password was set with: the
\* token is used up in the same write, and no late save brings it back without
\* bringing the older password back.
TokenUsedUp ==
    \A i \in 1 .. Len(accounts) :
        LET row == accounts[i] IN row.token # NoToken => setBy[row.pwd] # row.token

=============================================================================
