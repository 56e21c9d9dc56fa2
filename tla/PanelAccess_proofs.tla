-------------------------- MODULE PanelAccess_proofs --------------------------
(***************************************************************************)
(* Proofs about the panel's access (PanelAccess) and, at the end, about    *)
(* the API keys it edits (KeyVault).  What three requests may do to each   *)
(* other reduces to one fact: every row, in the table or in a request's    *)
(* hands, is consistent in itself, and stays so when the counters move on. *)
(* A late save then puts back a consistent row, whichever.                 *)
(***************************************************************************)
EXTENDS PanelAccess, KeyVault, SequenceTheorems, WellFoundedInduction, TLAPS

\* Consistent at a time when w passwords and k tokens had been given out, and
\* by says which token each password was set with.
Consistent(row, w, k, by) ==
    /\ row \in Row
    /\ row.pwd \in 1 .. w
    /\ row.session # NoSession => row.session.pwd = row.pwd
    /\ row.token.no <= k
    /\ row.token # NoToken => /\ row.trusted <=> row.token.via = "chat"
                              /\ by[row.pwd] # row.token

\* The steps at which a request holds a copy it read from the table.
Holding == {"login", "logout", "changeSave", "issue", "reset"}

Working(th, n, w, k, by) ==
    /\ th \in [pc : Steps, id : Nat, copy : Row, cookie : Session]
    /\ th.pc \in Holding => th.id \in 1 .. n /\ Consistent(th.copy, w, k, by)

Counters == /\ now \in Nat
            /\ passwords \in 0 .. MaxPasswords
            /\ tokens \in 0 .. MaxTokens
            /\ setBy \in [1 .. MaxPasswords -> Token]
            /\ \A w \in 1 .. MaxPasswords :
                  /\ setBy[w].no <= tokens
                  /\ w > passwords => setBy[w] = NoToken
            /\ asked \in [Emails -> Nat \cup {Never}]

Rows == /\ accounts \in Seq(Row)
        /\ \A i \in 1 .. Len(accounts) :
              Consistent(accounts[i], passwords, tokens, setBy)

Threading == /\ DOMAIN thread = Threads
             /\ thread = [t \in Threads |-> thread[t]]
             /\ \A t \in Threads :
                   Working(thread[t], Len(accounts), passwords, tokens, setBy)

\* The inductive invariant.
IInv == Counters /\ Rows /\ Threading

-----------------------------------------------------------------------------
\* Giving out passwords and tokens spoils no row.
LEMMA StaysConsistent ==
    ASSUME NEW row, NEW w \in Nat, NEW k \in Nat, NEW by,
           NEW w1 \in Nat, NEW k1 \in Nat, NEW by1,
           Consistent(row, w, k, by), w <= w1, k <= k1,
           \A x \in 1 .. w : by1[x] = by[x]
    PROVE  Consistent(row, w1, k1, by1)
<1>1. /\ row.pwd \in 1 .. w1
      /\ row.token.no <= k1
      /\ by1[row.pwd] = by[row.pwd]
  <2>1. row.token.no \in Nat /\ row.pwd \in 1 .. w /\ row.token.no <= k
    BY DEF Consistent, Row, Token
  <2> QED BY <2>1
<1> QED BY <1>1 DEF Consistent

\* The empty thread and the empty row are of their types.
LEMMA Empty ==
    /\ IdleThread \in [pc : Steps, id : Nat, copy : Row, cookie : Session]
    /\ IdleThread.pc = "idle"
    /\ \A e \in Emails \cup {NoEmail}, w \in Nat : NewRow(e, w) \in Row
BY DEF IdleThread, NoRow, NewRow, NoSession, NoToken, Session, Token, Row,
       Steps, Channels, Never

\* A step that changes one request's state, and neither the table nor what has
\* been given out.
LEMMA Moves ==
    ASSUME IInv, NEW t \in Threads, NEW th,
           Working(th, Len(accounts), passwords, tokens, setBy),
           thread' = [thread EXCEPT ![t] = th],
           UNCHANGED <<accounts, now, passwords, tokens, setBy>>,
           asked' \in [Emails -> Nat \cup {Never}]
    PROVE  IInv'
<1>1. Counters' BY DEF IInv, Counters
<1>2. Rows' BY DEF IInv, Rows
<1>3. Threading'
  <2>1. \A u \in Threads : thread'[u] = IF u = t THEN th ELSE thread[u]
    BY DEF IInv, Threading
  <2>2. DOMAIN thread' = Threads BY DEF IInv, Threading
  <2>3. ASSUME NEW u \in Threads
        PROVE  Working(thread'[u], Len(accounts), passwords, tokens, setBy)
    <3>1. CASE u = t BY <2>1, <3>1
    <3>2. CASE u # t BY <2>1, <3>2 DEF IInv, Threading
    <3> QED BY <3>1, <3>2
  <2> QED BY <2>1, <2>2, <2>3 DEF Threading
<1> QED BY <1>1, <1>2, <1>3 DEF IInv

\* What a save may have given out: passwords and tokens, in order.
GivesOut == /\ passwords' \in 0 .. MaxPasswords /\ passwords <= passwords'
            /\ tokens' \in 0 .. MaxTokens /\ tokens <= tokens'
            /\ setBy' \in [1 .. MaxPasswords -> Token]
            /\ \A w \in 1 .. passwords : setBy'[w] = setBy[w]
            /\ \A w \in 1 .. MaxPasswords :
                  /\ setBy'[w].no <= tokens'
                  /\ w > passwords' => setBy'[w] = NoToken

\* A save of a consistent row, whatever the table holds by then.
LEMMA Saves ==
    ASSUME IInv, NEW t \in Threads, thread[t].pc \in Holding, NEW row, NEW th,
           accounts' = [accounts EXCEPT ![thread[t].id] = row],
           GivesOut, Consistent(row, passwords', tokens', setBy'),
           th \in [pc : Steps, id : Nat, copy : Row, cookie : Session],
           th.pc \notin Holding,
           thread' = [thread EXCEPT ![t] = th],
           UNCHANGED <<asked, now>>
    PROVE  IInv'
<1>0. /\ passwords \in Nat /\ tokens \in Nat /\ passwords' \in Nat /\ tokens' \in Nat
      /\ passwords <= passwords' /\ tokens <= tokens'
      /\ \A w \in 1 .. passwords : setBy'[w] = setBy[w]
  BY PanelAccessAssumption DEF IInv, Counters, GivesOut
<1>1. Counters' BY DEF IInv, Counters, GivesOut
<1>2. row \in Row BY DEF Consistent
<1>3. /\ accounts' \in Seq(Row)
      /\ Len(accounts') = Len(accounts)
      /\ \A i \in 1 .. Len(accounts) :
            accounts'[i] = IF i = thread[t].id THEN row ELSE accounts[i]
  <2>1. accounts \in Seq(Row) /\ DOMAIN accounts = 1 .. Len(accounts) BY DEF IInv, Rows
  <2>2. thread[t].id \in 1 .. Len(accounts) BY DEF IInv, Threading, Working
  <2> QED BY <1>2, <2>1, <2>2
<1>4. Rows'
  <2>1. ASSUME NEW i \in 1 .. Len(accounts)
        PROVE  Consistent(accounts'[i], passwords', tokens', setBy')
    <3>1. CASE i = thread[t].id BY <3>1, <1>3
    <3>2. CASE i # thread[t].id
      <4>1. accounts'[i] = accounts[i] BY <3>2, <1>3
      <4>2. Consistent(accounts[i], passwords, tokens, setBy) BY DEF IInv, Rows
      <4>3. Consistent(accounts[i], passwords', tokens', setBy')
        BY <1>0, <4>2, StaysConsistent
      <4> QED BY <4>1, <4>3
    <3> QED BY <3>1, <3>2
  <2> QED BY <1>3, <2>1 DEF Rows
<1>5. Threading'
  <2>1. \A u \in Threads : thread'[u] = IF u = t THEN th ELSE thread[u]
    BY DEF IInv, Threading
  <2>2. DOMAIN thread' = Threads BY DEF IInv, Threading
  <2>3. ASSUME NEW u \in Threads
        PROVE  Working(thread'[u], Len(accounts'), passwords', tokens', setBy')
    <3>1. CASE u = t BY <2>1, <3>1 DEF Working
    <3>2. CASE u # t
      <4>1. thread'[u] = thread[u] BY <2>1, <3>2
      <4>2. Working(thread[u], Len(accounts), passwords, tokens, setBy)
        BY DEF IInv, Threading
      <4>3. ASSUME thread[u].pc \in Holding
            PROVE  Consistent(thread[u].copy, passwords', tokens', setBy')
        BY <1>0, <4>2, <4>3, StaysConsistent DEF Working
      <4> QED BY <1>3, <4>1, <4>2, <4>3 DEF Working
    <3> QED BY <3>1, <3>2
  <2> QED BY <2>1, <2>2, <2>3 DEF Threading
<1> QED BY <1>1, <1>4, <1>5 DEF IInv

-----------------------------------------------------------------------------
LEMMA Initially == Init => IInv
<1> SUFFICES ASSUME Init PROVE IInv OBVIOUS
<1>1. Counters BY PanelAccessAssumption
              DEF Init, Counters, NoToken, Token, Channels, Never
<1>2. Rows BY DEF Init, Rows
<1>3. Threading BY Empty DEF Init, Threading, Working, Holding
<1> QED BY <1>1, <1>2, <1>3 DEF IInv

\* A request's state at a step where it holds no copy.
LEMMA FreeWorking ==
    ASSUME NEW th \in [pc : Steps, id : Nat, copy : Row, cookie : Session],
           th.pc \notin Holding
    PROVE  Working(th, Len(accounts), passwords, tokens, setBy)
BY DEF Working

LEMMA ReturnKeeps ==
    ASSUME IInv, NEW t \in Threads, Return(t),
           UNCHANGED <<accounts, now, passwords, tokens, setBy>>,
           asked' \in [Emails -> Nat \cup {Never}]
    PROVE  IInv'
<1>1. Working(IdleThread, Len(accounts), passwords, tokens, setBy)
  BY Empty DEF Working, Holding
<1> QED BY <1>1, Moves DEF Return

LEMMA ReadKeeps ==
    ASSUME IInv, NEW t \in Threads, NEW step \in Holding,
           NEW i \in 1 .. Len(accounts), Read(t, step, i),
           UNCHANGED <<accounts, now, passwords, tokens, setBy>>,
           asked' \in [Emails -> Nat \cup {Never}]
    PROVE  IInv'
<1> DEFINE th == [pc |-> step, id |-> i, copy |-> accounts[i], cookie |-> NoSession]
<1>1. Consistent(accounts[i], passwords, tokens, setBy) BY DEF IInv, Rows
<1>2. accounts[i] \in Row BY <1>1 DEF Consistent
<1>3. Len(accounts) \in Nat BY DEF IInv, Rows
<1>4. th \in [pc : Steps, id : Nat, copy : Row, cookie : Session]
  BY <1>2, <1>3 DEF Steps, Holding, NoSession, Session
<1>5. th.id = i /\ th.copy = accounts[i] OBVIOUS
<1>6. Working(th, Len(accounts), passwords, tokens, setBy)
  BY <1>1, <1>4, <1>5 DEF Working
<1>7. thread' = [thread EXCEPT ![t] = th] BY DEF Read
<1> HIDE DEF th
<1> QED BY <1>6, <1>7, Moves

LEMMA SetupKeeps ==
    ASSUME IInv, NEW t \in Threads, NEW e \in Emails, SetupCheck(t, e)
    PROVE  IInv'
<1> DEFINE th == [thread[t] EXCEPT !.pc = "create", !.copy = NewRow(e, 0)]
<1>1. thread[t] \in [pc : Steps, id : Nat, copy : Row, cookie : Session]
  BY DEF IInv, Threading, Working
<1>2. NewRow(e, 0) \in Row BY Empty
<1>3. th \in [pc : Steps, id : Nat, copy : Row, cookie : Session] /\ th.pc = "create"
  BY <1>1, <1>2 DEF Steps
<1>4. Working(th, Len(accounts), passwords, tokens, setBy)
  BY <1>3 DEF Working, Holding
<1>5. thread' = [thread EXCEPT ![t] = th] BY DEF SetupCheck
<1> HIDE DEF th
<1> QED BY <1>4, <1>5, Moves DEF SetupCheck, IInv, Counters

LEMMA CreateKeeps ==
    ASSUME IInv, NEW t \in Threads, SetupCreate(t)
    PROVE  IInv'
<1> DEFINE e == thread[t].copy.email
<1>0. /\ e \in Emails \cup {NoEmail}
      /\ passwords \in Nat /\ tokens \in Nat
  <2>1. thread[t].copy \in Row BY DEF IInv, Threading, Working
  <2> QED BY <2>1, PanelAccessAssumption DEF Row, IInv, Counters
<1> HIDE DEF e
<1>1. CASE UNCHANGED <<accounts, passwords>>
  BY <1>1, ReturnKeeps DEF SetupCreate, IInv, Counters
<1>2. CASE NextPassword /\ accounts' = Append(accounts, NewRow(e, passwords'))
  <2>1. passwords' = passwords + 1 /\ passwords' \in 1 .. MaxPasswords
    BY <1>0, <1>2, PanelAccessAssumption DEF NextPassword
  <2>2. NewRow(e, passwords') \in Row BY <1>0, <2>1, Empty
  <2>3. Counters' BY <2>1, PanelAccessAssumption DEF SetupCreate, IInv, Counters
  <2>4. /\ accounts' \in Seq(Row)
        /\ Len(accounts') = Len(accounts) + 1 /\ Len(accounts) \in Nat
        /\ \A i \in 1 .. Len(accounts) : accounts'[i] = accounts[i]
        /\ accounts'[Len(accounts) + 1] = NewRow(e, passwords')
    BY <1>2, <2>2 DEF IInv, Rows
  <2>5. Consistent(NewRow(e, passwords'), passwords', tokens', setBy')
    BY <1>0, <2>1, <2>2 DEF Consistent, NewRow, NoToken, SetupCreate
  <2>6. ASSUME NEW r, Consistent(r, passwords, tokens, setBy)
        PROVE  Consistent(r, passwords', tokens', setBy')
    BY <1>0, <2>1, <2>6, StaysConsistent DEF SetupCreate
  <2>7. Rows'
    <3>1. ASSUME NEW i \in 1 .. Len(accounts')
          PROVE  Consistent(accounts'[i], passwords', tokens', setBy')
      <4>1. CASE i = Len(accounts) + 1 BY <4>1, <2>4, <2>5
      <4>2. CASE i # Len(accounts) + 1
        <5>1. i \in 1 .. Len(accounts) BY <4>2, <2>4
        <5> QED BY <5>1, <2>4, <2>6 DEF IInv, Rows
      <4> QED BY <4>1, <4>2
    <3> QED BY <3>1, <2>4 DEF Rows
  <2>8. Threading'
    <3>1. /\ \A u \in Threads : thread'[u] = IF u = t THEN IdleThread ELSE thread[u]
          /\ thread' = [u \in Threads |-> thread'[u]] /\ DOMAIN thread' = Threads
      BY DEF IInv, Threading, SetupCreate, Return
    <3>2. ASSUME NEW u \in Threads
          PROVE  Working(thread'[u], Len(accounts'), passwords', tokens', setBy')
      <4>1. CASE u = t BY <3>1, <4>1, Empty DEF Working, Holding
      <4>2. CASE u # t
        <5>1. thread'[u] = thread[u] BY <3>1, <4>2
        <5>2. Working(thread[u], Len(accounts), passwords, tokens, setBy)
          BY DEF IInv, Threading
        <5> QED BY <2>4, <2>6, <5>1, <5>2 DEF Working
      <4> QED BY <4>1, <4>2
    <3> QED BY <3>1, <3>2 DEF Threading
  <2> QED BY <2>3, <2>7, <2>8 DEF IInv
<1> QED BY <1>1, <1>2 DEF SetupCreate, e

-----------------------------------------------------------------------------
\* A copy in a request's hands, as the save finds it.
LEMMA HeldCopy ==
    ASSUME IInv, NEW t \in Threads, thread[t].pc \in Holding
    PROVE  /\ Consistent(thread[t].copy, passwords, tokens, setBy)
           /\ thread[t].copy \in Row
           /\ thread[t].copy.pwd \in 1 .. passwords
           /\ thread[t].copy.token \in Token
           /\ passwords \in Nat /\ tokens \in Nat /\ now \in Nat
BY PanelAccessAssumption
   DEF IInv, Threading, Working, Consistent, Row, Counters

LEMMA CountsToken ==
    ASSUME IInv, NextToken, UNCHANGED <<passwords, setBy>>
    PROVE  GivesOut /\ tokens' \in Nat
<1>1. /\ passwords \in 0 .. MaxPasswords /\ tokens \in Nat
      /\ tokens' = tokens + 1 /\ tokens' \in 0 .. MaxTokens
  BY PanelAccessAssumption DEF IInv, Counters, NextToken
<1>2. ASSUME NEW w \in 1 .. MaxPasswords
      PROVE  setBy'[w].no <= tokens' /\ (w > passwords' => setBy'[w] = NoToken)
  <2>1. /\ setBy[w].no \in Nat /\ setBy[w].no <= tokens
        /\ w > passwords => setBy[w] = NoToken
    BY DEF IInv, Counters, Token
  <2> QED BY <1>1, <2>1
<1> QED BY <1>1, <1>2, PanelAccessAssumption DEF GivesOut, IInv, Counters

LEMMA CountsPassword ==
    ASSUME IInv, NextPassword, UNCHANGED <<tokens, setBy>>
    PROVE  /\ GivesOut /\ passwords' \in Nat /\ passwords' \in 1 .. MaxPasswords
           /\ setBy'[passwords'] = NoToken
<1>1. /\ passwords \in 0 .. MaxPasswords /\ tokens \in 0 .. MaxTokens
      /\ passwords' = passwords + 1 /\ passwords' \in 1 .. MaxPasswords
  BY PanelAccessAssumption DEF IInv, Counters, NextPassword
<1>2. ASSUME NEW w \in 1 .. MaxPasswords
      PROVE  setBy'[w].no <= tokens' /\ (w > passwords => setBy'[w] = NoToken)
  BY DEF IInv, Counters
<1>3. \A w \in 1 .. MaxPasswords : w > passwords' => w > passwords
  BY <1>1, PanelAccessAssumption
<1> QED BY <1>1, <1>2, <1>3, PanelAccessAssumption DEF GivesOut, IInv, Counters

\* What remains of a save: the row it writes is consistent.
LEMMA SavesAndReturns ==
    ASSUME IInv, NEW t \in Threads, thread[t].pc \in Holding, NEW row,
           SaveRow(t, row), Return(t), GivesOut,
           Consistent(row, passwords', tokens', setBy'),
           UNCHANGED <<asked, now>>
    PROVE  IInv'
<1>1. IdleThread \in [pc : Steps, id : Nat, copy : Row, cookie : Session]
  BY Empty
<1>2. IdleThread.pc \notin Holding BY Empty DEF Holding
<1> QED BY <1>1, <1>2, Saves DEF SaveRow, Return

LEMMA LoginKeeps ==
    ASSUME IInv, NEW t \in Threads, LoginSave(t)
    PROVE  IInv'
<1> DEFINE copy == thread[t].copy
           row == [copy EXCEPT !.session = [no |-> tokens', pwd |-> copy.pwd],
                               !.until = now + SessionTTL]
<1>0. thread[t].pc \in Holding BY DEF LoginSave, At, Holding
<1>1. /\ Consistent(copy, passwords, tokens, setBy) /\ copy \in Row
      /\ passwords \in Nat /\ tokens \in Nat /\ now \in Nat
  BY <1>0, HeldCopy
<1>2. GivesOut /\ tokens' \in Nat BY CountsToken DEF LoginSave
<1>3. /\ row \in Row
      /\ row.session = [no |-> tokens', pwd |-> copy.pwd]
      /\ row.pwd = copy.pwd /\ row.token = copy.token /\ row.trusted = copy.trusted
  <2>1. copy.pwd \in Nat BY <1>1 DEF Row
  <2>2. [no |-> tokens', pwd |-> copy.pwd] \in Session
    BY <1>1, <1>2, <2>1 DEF Session
  <2>3. now + SessionTTL \in Nat BY <1>1, PanelAccessAssumption
  <2>4. row \in Row BY <1>1, <2>2, <2>3 DEF Row
  <2>5. row.session = [no |-> tokens', pwd |-> copy.pwd] BY <1>1 DEF Row
  <2>6. row.pwd = copy.pwd BY <1>1 DEF Row
  <2>7. row.token = copy.token BY <1>1 DEF Row
  <2>8. row.trusted = copy.trusted BY <1>1 DEF Row
  <2> QED BY <2>4, <2>5, <2>6, <2>7, <2>8
<1>4. Consistent(copy, passwords', tokens', setBy')
  BY <1>1, <1>2, StaysConsistent DEF LoginSave, GivesOut
<1>5. Consistent(row, passwords', tokens', setBy')
  BY <1>3, <1>4 DEF Consistent
<1>6. SaveRow(t, row) BY DEF LoginSave
<1> HIDE DEF row, copy
<1> QED BY <1>0, <1>2, <1>5, <1>6, SavesAndReturns DEF LoginSave

LEMMA LogoutKeeps ==
    ASSUME IInv, NEW t \in Threads, LogoutSave(t)
    PROVE  IInv'
<1> DEFINE copy == thread[t].copy
           row == [copy EXCEPT !.session = NoSession, !.until = Never]
<1>0. thread[t].pc \in Holding BY DEF LogoutSave, At, Holding
<1>1. /\ Consistent(copy, passwords, tokens, setBy) /\ copy \in Row
      /\ passwords \in Nat /\ tokens \in Nat
  BY <1>0, HeldCopy
<1>2. GivesOut
  BY PanelAccessAssumption DEF LogoutSave, GivesOut, IInv, Counters
<1>3. /\ row \in Row
      /\ row.session = NoSession
      /\ row.pwd = copy.pwd /\ row.token = copy.token
  BY <1>1 DEF Row, NoSession, Session
<1>4. row.trusted = copy.trusted BY <1>1 DEF Row
<1>5. Consistent(row, passwords', tokens', setBy')
  BY <1>1, <1>3, <1>4 DEF Consistent, LogoutSave
<1>6. SaveRow(t, row) BY DEF LogoutSave
<1> HIDE DEF row, copy
<1> QED BY <1>0, <1>2, <1>5, <1>6, SavesAndReturns DEF LogoutSave

LEMMA ChangeKeeps ==
    ASSUME IInv, NEW t \in Threads, ChangeSave(t)
    PROVE  IInv'
<1> DEFINE copy == thread[t].copy
           row == [copy EXCEPT !.pwd = passwords', !.session = NoSession,
                               !.until = Never]
<1>0. thread[t].pc \in Holding BY DEF ChangeSave, At, Holding
<1>1. /\ Consistent(copy, passwords, tokens, setBy) /\ copy \in Row
      /\ passwords \in Nat /\ tokens \in Nat
  BY <1>0, HeldCopy
<1>2. /\ GivesOut /\ passwords' \in 1 .. MaxPasswords /\ passwords' \in Nat
      /\ setBy'[passwords'] = NoToken
  BY CountsPassword DEF ChangeSave
<1>3. /\ row \in Row
      /\ row.session = NoSession
      /\ row.pwd = passwords' /\ row.token = copy.token
  BY <1>1, <1>2 DEF Row, NoSession, Session
<1>4. row.trusted = copy.trusted BY <1>1 DEF Row
<1>5. /\ row.token # NoToken => setBy'[row.pwd] # row.token
      /\ row.pwd \in 1 .. passwords'
  BY <1>2, <1>3
<1>6. Consistent(row, passwords', tokens', setBy')
  BY <1>1, <1>3, <1>4, <1>5 DEF Consistent, ChangeSave
<1>7. SaveRow(t, row) BY DEF ChangeSave
<1> HIDE DEF row, copy
<1> QED BY <1>0, <1>2, <1>6, <1>7, SavesAndReturns DEF ChangeSave

LEMMA IssueKeeps ==
    ASSUME IInv, NEW t \in Threads, NEW via \in Channels, Issue(t, via)
    PROVE  IInv'
<1> DEFINE copy == thread[t].copy
           row == [copy EXCEPT !.token = [no |-> tokens', via |-> via],
                               !.expires = now + ResetTTL,
                               !.trusted = (via = "chat")]
<1>0. thread[t].pc \in Holding BY DEF Issue, At, Holding
<1>1. /\ Consistent(copy, passwords, tokens, setBy) /\ copy \in Row
      /\ copy.pwd \in 1 .. passwords
      /\ passwords \in Nat /\ tokens \in Nat /\ now \in Nat
  BY <1>0, HeldCopy
<1>2. /\ GivesOut /\ tokens' \in Nat /\ tokens' = tokens + 1
      /\ UNCHANGED <<passwords, setBy>>
  BY CountsToken DEF Issue, NextToken
<1>3. [no |-> tokens', via |-> via] \in Token BY <1>2 DEF Token
<1>4. now + ResetTTL \in Nat BY <1>1, PanelAccessAssumption
<1>5. row \in Row BY <1>1, <1>3, <1>4 DEF Row
<1>6. /\ row.session = copy.session /\ row.pwd = copy.pwd
      /\ row.token = [no |-> tokens', via |-> via]
  BY <1>1 DEF Row
<1>7. row.trusted <=> via = "chat" BY <1>1 DEF Row
<1>8. setBy'[row.pwd] # row.token
  <2>1. copy.pwd \in 1 .. MaxPasswords
    BY <1>1, PanelAccessAssumption DEF IInv, Counters
  <2>2. setBy[copy.pwd].no <= tokens /\ setBy[copy.pwd] \in Token
    BY <2>1 DEF IInv, Counters
  <2> QED BY <1>1, <1>2, <1>6, <2>2 DEF Token
<1>9. Consistent(row, passwords', tokens', setBy')
  BY <1>1, <1>2, <1>5, <1>6, <1>7, <1>8 DEF Consistent
<1>10. SaveRow(t, row) BY DEF Issue
<1> HIDE DEF row, copy
<1> QED BY <1>0, <1>2, <1>9, <1>10, SavesAndReturns DEF Issue

LEMMA ResetKeeps ==
    ASSUME IInv, NEW t \in Threads, ResetSave(t)
    PROVE  IInv'
<1> DEFINE copy == thread[t].copy
           row == [copy EXCEPT !.pwd = passwords', !.token = NoToken,
                               !.expires = Never, !.trusted = FALSE,
                               !.session = NoSession]
<1>0. thread[t].pc \in Holding BY DEF ResetSave, ResetTo, At, Holding
<1>1. /\ Consistent(copy, passwords, tokens, setBy) /\ copy \in Row
      /\ copy.token \in Token /\ copy.token.no <= tokens
      /\ passwords \in Nat /\ tokens \in Nat
  BY <1>0, HeldCopy DEF Consistent
<1>2. passwords' = passwords + 1 /\ passwords' \in 1 .. MaxPasswords
  BY <1>1, PanelAccessAssumption DEF ResetSave, ResetTo, NextPassword
<1>3. /\ setBy' \in [1 .. MaxPasswords -> Token]
      /\ \A w \in 1 .. MaxPasswords :
            setBy'[w] = IF w = passwords' THEN copy.token ELSE setBy[w]
  BY <1>1, <1>2 DEF ResetSave, ResetTo, IInv, Counters
<1>4. GivesOut
  <2>1. ASSUME NEW w \in 1 .. MaxPasswords
        PROVE  setBy'[w].no <= tokens' /\ (w > passwords' => setBy'[w] = NoToken)
    <3>1. CASE w = passwords' BY <1>1, <1>2, <1>3, <3>1 DEF ResetSave, ResetTo
    <3>2. CASE w # passwords'
      <4>1. setBy'[w] = setBy[w] BY <1>3, <3>2
      <4>2. setBy[w].no <= tokens /\ (w > passwords => setBy[w] = NoToken)
        BY DEF IInv, Counters
      <4>3. w > passwords' => w > passwords BY <1>1, <1>2
      <4> QED BY <4>1, <4>2, <4>3 DEF ResetSave, ResetTo
    <3> QED BY <3>1, <3>2
  <2>2. ASSUME NEW w \in 1 .. passwords PROVE setBy'[w] = setBy[w]
    <3>1. w \in 1 .. MaxPasswords /\ w # passwords'
      BY <1>1, <1>2, PanelAccessAssumption
    <3> QED BY <1>3, <3>1
  <2>3. passwords' \in 0 .. MaxPasswords /\ passwords <= passwords' BY <1>1, <1>2
  <2>4. tokens' \in 0 .. MaxTokens /\ tokens <= tokens'
    BY <1>1 DEF ResetSave, ResetTo, IInv, Counters
  <2> QED BY <1>3, <2>1, <2>2, <2>3, <2>4 DEF GivesOut
<1>5. /\ row \in Row /\ row.session = NoSession
      /\ row.pwd = passwords' /\ row.token = NoToken
  <2>1. NoSession \in Session /\ NoToken \in Token /\ Never \in Nat \cup {Never}
    BY DEF NoSession, NoToken, Session, Token, Channels
  <2>2. passwords' \in Nat BY <1>1, <1>2
  <2>3. row \in Row BY <1>1, <2>1, <2>2 DEF Row
  <2> QED BY <1>1, <2>3 DEF Row
<1>6. Consistent(row, passwords', tokens', setBy')
  <2>1. row.token.no <= tokens' /\ row.pwd \in 1 .. passwords'
    BY <1>1, <1>2, <1>5 DEF NoToken, ResetSave, ResetTo
  <2> QED BY <1>5, <2>1 DEF Consistent
<1>7. accounts' = [accounts EXCEPT ![thread[t].id] = row]
  BY DEF ResetSave, ResetTo, SaveRow
<1>10. Return(t) \/ thread' = [thread EXCEPT ![t].pc = "wipe", ![t].copy = row]
  BY DEF ResetSave, ResetTo
<1> HIDE DEF row, copy
<1>8. CASE Return(t)
  BY <1>0, <1>4, <1>6, <1>7, <1>8, SavesAndReturns DEF ResetSave, ResetTo, SaveRow
<1>9. CASE thread' = [thread EXCEPT ![t].pc = "wipe", ![t].copy = row]
  <2> DEFINE th == [thread[t] EXCEPT !.pc = "wipe", !.copy = row]
  <2>1. thread[t] \in [pc : Steps, id : Nat, copy : Row, cookie : Session]
    BY DEF IInv, Threading, Working
  <2>2. th \in [pc : Steps, id : Nat, copy : Row, cookie : Session] /\ th.pc = "wipe"
    BY <1>5, <2>1 DEF Steps
  <2>3. th.pc \notin Holding BY <2>2 DEF Holding
  <2>4. thread' = [thread EXCEPT ![t] = th] BY <1>9
  <2> HIDE DEF th
  <2> QED BY <1>0, <1>4, <1>6, <1>7, <2>2, <2>3, <2>4, Saves DEF ResetSave, ResetTo
<1> QED BY <1>8, <1>9, <1>10

\* The session check passes on the cookie it found.
LEMMA MiddlewareKeeps ==
    ASSUME IInv, NEW t \in Threads, NEW i \in 1 .. Len(accounts),
           NEW step \in {"change", "erase"}, SessionMiddleware(t, i, step)
    PROVE  IInv'
<1> DEFINE th == [thread[t] EXCEPT !.pc = step, !.cookie = accounts[i].session]
<1>1. thread[t] \in [pc : Steps, id : Nat, copy : Row, cookie : Session]
  BY DEF IInv, Threading, Working
<1>2. accounts[i].session \in Session BY DEF IInv, Rows, Consistent, Row
<1>3. th \in [pc : Steps, id : Nat, copy : Row, cookie : Session] /\ th.pc = step
  BY <1>1, <1>2 DEF Steps
<1>4. Working(th, Len(accounts), passwords, tokens, setBy)
  BY <1>3 DEF Working, Holding
<1>5. thread' = [thread EXCEPT ![t] = th] BY DEF SessionMiddleware
<1> HIDE DEF th
<1> QED BY <1>4, <1>5, Moves DEF SessionMiddleware, IInv, Counters

LEMMA Inductive == IInv /\ [Next]_vars => IInv'
<1> SUFFICES ASSUME IInv, [Next]_vars PROVE IInv' OBVIOUS
<1>0. /\ asked \in [Emails -> Nat \cup {Never}]
      /\ Len(accounts) \in Nat /\ now \in Nat
  BY DEF IInv, Counters, Rows
<1>1. ASSUME NEW t \in Requests, Request(t) PROVE IInv'
  <2>0. t \in Threads BY DEF Threads
  <2>1. ASSUME NEW e \in Emails, SetupCheck(t, e) PROVE IInv'
    BY <2>0, <2>1, SetupKeeps
  <2>2. ASSUME NEW i \in 1 .. Len(accounts), LoginRead(t, i) PROVE IInv'
    BY <1>0, <2>0, <2>2, ReadKeeps DEF LoginRead, Holding
  <2>3. ASSUME NEW i \in 1 .. Len(accounts), LogoutRead(t, i) PROVE IInv'
    BY <1>0, <2>0, <2>3, ReadKeeps DEF LogoutRead, Holding
  <2>4. ASSUME NEW i \in 1 .. Len(accounts), NEW step \in {"change", "erase"},
               SessionMiddleware(t, i, step)
        PROVE  IInv'
    BY <2>0, <2>4, MiddlewareKeeps
  <2>5. ASSUME NEW i \in 1 .. Len(accounts), RecoverRead(t, i) PROVE IInv'
    <3>1. asked' \in [Emails -> Nat \cup {Never}]
      BY <1>0, <2>5 DEF RecoverRead
    <3> QED BY <2>0, <2>5, <3>1, ReadKeeps DEF RecoverRead, Holding
  <2>6. ASSUME NEW i \in 1 .. Len(accounts), ResetRead(t, i) PROVE IInv'
    BY <1>0, <2>0, <2>6, ReadKeeps DEF ResetRead, Holding
  <2> QED BY <1>1, <2>1, <2>2, <2>3, <2>4, <2>5, <2>6 DEF Request
<1>2. ASSUME NEW t \in Requests, Handle(t) PROVE IInv'
  <2>0. t \in Threads BY DEF Threads
  <2>1. CASE SetupCreate(t) BY <2>0, <2>1, CreateKeeps
  <2>2. CASE LoginSave(t) BY <2>0, <2>2, LoginKeeps
  <2>3. CASE LogoutSave(t) BY <2>0, <2>3, LogoutKeeps
  <2>4. CASE ChangeRead(t)
    <3>1. CASE Return(t) BY <1>0, <2>0, <2>4, <3>1, ReturnKeeps DEF ChangeRead
    <3>2. CASE \E i \in 1 .. Len(accounts) : Read(t, "changeSave", i)
      BY <1>0, <2>0, <2>4, <3>2, ReadKeeps DEF ChangeRead, Holding
    <3> QED BY <2>4, <3>1, <3>2 DEF ChangeRead
  <2>5. CASE ChangeSave(t) BY <2>0, <2>5, ChangeKeeps
  <2>6. CASE ResetData(t) \/ Wipe(t)
    BY <1>0, <2>0, <2>6, ReturnKeeps DEF ResetData, Wipe, Erase
  <2>7. CASE IssueWeb(t) BY <2>0, <2>7, IssueKeeps DEF IssueWeb, Channels
  <2>8. CASE ResetRefused(t)
    BY <1>0, <2>0, <2>8, ReturnKeeps DEF ResetRefused
  <2>9. CASE ResetSave(t) BY <2>0, <2>9, ResetKeeps
  <2> QED BY <1>2, <2>1, <2>2, <2>3, <2>4, <2>5, <2>6, <2>7, <2>8, <2>9 DEF Handle
<1>3. CASE ChatRecoverRead
  <2>1. 1 \in 1 .. Len(accounts)
    BY <1>3 DEF ChatRecoverRead, IInv, Rows
  <2> QED BY <1>0, <1>3, <2>1, ReadKeeps DEF ChatRecoverRead, Threads, Holding
<1>4. CASE IssueChat BY <1>4, IssueKeeps DEF IssueChat, Threads, Channels
<1>5. CASE Use \/ UNCHANGED vars
  <2>1. UNCHANGED <<accounts, asked, now, passwords, tokens, setBy, thread>>
    BY <1>5 DEF Use, vars
  <2> QED BY <2>1 DEF IInv, Counters, Rows, Threading
<1>6. CASE Tick
  <2>1. now' \in Nat BY <1>0, <1>6 DEF Tick
  <2> QED BY <1>6, <2>1 DEF Tick, IInv, Counters, Rows, Threading
<1>7. CASE Restart
  <2>1. asked' \in [Emails -> Nat \cup {Never}] BY <1>7 DEF Restart
  <2>2. Counters' BY <1>7, <2>1 DEF Restart, IInv, Counters
  <2>3. Rows' BY <1>7 DEF Restart, IInv, Rows
  <2>4. Threading'
    BY <1>7, Empty DEF Restart, Threading, Working, Holding
  <2> QED BY <2>2, <2>3, <2>4 DEF IInv
<1> QED BY <1>1, <1>2, <1>3, <1>4, <1>5, <1>6, <1>7 DEF Next

LEMMA Invariance == Spec => []IInv
BY Initially, Inductive, PTL DEF Spec

-----------------------------------------------------------------------------
(* The data that a reset erases. *)

\* The reset that set password w is about to erase the data, or was cut.
Pledged(w) == \/ w \in cut
              \/ \E t \in Requests : At(t, "wipe") /\ thread[t].copy.pwd = w

\* Only a reset with a token of the console is about to erase the data.
DataInv == /\ data \in {NoData} \cup 0 .. passwords
           /\ cut \subseteq 1 .. passwords
           /\ \A t \in Requests : At(t, "wipe") =>
                 /\ thread[t].copy.pwd \in 1 .. passwords
                 /\ setBy[thread[t].copy.pwd].via = "web"
           /\ \A w \in 1 .. MaxPasswords : OwesWipe(w) => Pledged(w)

\* Requests about to erase data are not disturbed, and no other becomes one.
SameWipers == \A t \in Requests : At(t, "wipe") \/ At(t, "wipe")' => thread'[t] = thread[t]

LEMMA OtherWipers ==
    ASSUME IInv, NEW t \in Threads, ~At(t, "wipe"), NEW th, th.pc # "wipe",
           thread' = [thread EXCEPT ![t] = th]
    PROVE  SameWipers
<1>1. \A u \in Threads : thread'[u] = IF u = t THEN th ELSE thread[u]
  BY DEF IInv, Threading
<1> QED BY <1>1 DEF SameWipers, At, Threads

LEMMA DataStays ==
    ASSUME IInv, DataInv, SameWipers, passwords' \in Nat, passwords <= passwords',
           UNCHANGED <<setBy, data, cut>>
    PROVE  DataInv'
<1>1. passwords \in Nat
  BY PanelAccessAssumption DEF IInv, Counters
<1>2. \A t \in Requests : At(t, "wipe") <=> At(t, "wipe")'
  BY DEF SameWipers, At
<1>3. ASSUME NEW w \in 1 .. MaxPasswords, OwesWipe(w)'
      PROVE  Pledged(w)'
  <2>1. Pledged(w)
    BY <1>3 DEF OwesWipe, DataInv
  <2> QED BY <1>2, <2>1 DEF Pledged, SameWipers
<1> QED BY <1>1, <1>2, <1>3 DEF DataInv, SameWipers

\* A reset: the new password was set with the token of the copy.
LEMMA ResetPledges ==
    ASSUME IInv, DataInv, NEW t \in Requests, ResetSave(t)
    PROVE  DataInv'
<1> DEFINE copy == thread[t].copy
           row == [copy EXCEPT !.pwd = passwords', !.token = NoToken,
                               !.expires = Never, !.trusted = FALSE,
                               !.session = NoSession]
<1>0. t \in Threads /\ thread[t].pc = "reset" /\ UNCHANGED <<data, cut>>
  BY DEF ResetSave, ResetTo, At, Threads
<1>1. /\ copy \in Row /\ copy.token # NoToken /\ copy.token \in Token
      /\ copy.trusted <=> copy.token.via = "chat"
  BY <1>0, HeldCopy DEF ResetSave, ResetTo, TokenAccepted, Holding, Consistent
<1>2. /\ passwords \in Nat /\ passwords' = passwords + 1
      /\ passwords' \in 1 .. MaxPasswords
  BY PanelAccessAssumption DEF ResetSave, ResetTo, NextPassword, IInv, Counters
<1>3. \A w \in 1 .. MaxPasswords :
         setBy'[w] = IF w = passwords' THEN copy.token ELSE setBy[w]
  BY <1>2 DEF ResetSave, ResetTo, IInv, Counters
<1>9. \A w \in 1 .. passwords : w \in 1 .. passwords' /\ setBy'[w] = setBy[w]
  BY <1>2, <1>3, PanelAccessAssumption
<1>4. row.pwd = passwords'
  BY <1>1 DEF Row
<1>5. thread' = [thread EXCEPT ![t] = IF copy.trusted THEN IdleThread
                                      ELSE [@ EXCEPT !.pc = "wipe", !.copy = row]]
  BY DEF ResetSave, ResetTo, Return
<1> HIDE DEF row
<1>6. \A u \in Requests : u # t => thread'[u] = thread[u]
  BY <1>5 DEF IInv, Threading, Threads
<1>7. CASE copy.trusted
  <2>1. thread'[t].pc = "idle"
    BY <1>0, <1>5, <1>7, Empty DEF IInv, Threading
  <2>2. setBy'[passwords'].via = "chat"
    BY <1>1, <1>2, <1>3, <1>7
  <2>3. ASSUME NEW u \in Requests, At(u, "wipe")'
        PROVE  u # t /\ At(u, "wipe") /\ thread'[u] = thread[u]
    BY <1>6, <2>1, <2>3 DEF At
  <2>4. ASSUME NEW w \in 1 .. MaxPasswords, OwesWipe(w)'
        PROVE  Pledged(w)'
    <3>1. w # passwords' /\ OwesWipe(w)
      BY <1>0, <1>3, <2>2, <2>4 DEF OwesWipe
    <3>2. Pledged(w)
      BY <3>1 DEF DataInv
    <3>3. CASE w \in cut
      BY <1>0, <3>3 DEF Pledged
    <3>4. CASE \E u \in Requests : At(u, "wipe") /\ thread[u].copy.pwd = w
      <4>1. PICK u \in Requests : At(u, "wipe") /\ thread[u].copy.pwd = w
        BY <3>4
      <4>2. thread'[u] = thread[u]
        BY <1>0, <1>6, <4>1 DEF At
      <4> QED BY <4>1, <4>2 DEF Pledged, At
    <3> QED BY <3>2, <3>3, <3>4 DEF Pledged
  <2>5. ASSUME NEW u \in Requests, At(u, "wipe")'
        PROVE  /\ thread'[u].copy.pwd \in 1 .. passwords'
               /\ setBy'[thread'[u].copy.pwd].via = "web"
    <3>1. /\ thread'[u] = thread[u] /\ thread[u].copy.pwd \in 1 .. passwords
          /\ setBy[thread[u].copy.pwd].via = "web"
      BY <2>3, <2>5 DEF DataInv
    <3> QED BY <1>9, <3>1
  <2> QED BY <1>0, <1>2, <2>4, <2>5 DEF DataInv
<1>8. CASE ~copy.trusted
  <2>1. thread'[t].pc = "wipe" /\ thread'[t].copy.pwd = passwords'
    <3>1. thread[t] \in [pc : Steps, id : Nat, copy : Row, cookie : Session]
      BY <1>0 DEF IInv, Threading, Working
    <3> QED BY <1>0, <1>4, <1>5, <1>8, <3>1 DEF IInv, Threading
  <2>2. setBy'[passwords'].via = "web"
    BY <1>1, <1>2, <1>3, <1>8 DEF Token, Channels
  <2>4. ASSUME NEW w \in 1 .. MaxPasswords, OwesWipe(w)'
        PROVE  Pledged(w)'
    <3>1. CASE w = passwords'
      BY <2>1, <3>1 DEF Pledged, At
    <3>2. CASE w # passwords'
      <4>1. OwesWipe(w)
        BY <1>0, <1>3, <2>4, <3>2 DEF OwesWipe
      <4>2. Pledged(w)
        BY <4>1 DEF DataInv
      <4>3. CASE w \in cut
        BY <1>0, <4>3 DEF Pledged
      <4>4. CASE \E u \in Requests : At(u, "wipe") /\ thread[u].copy.pwd = w
        <5>1. PICK u \in Requests : At(u, "wipe") /\ thread[u].copy.pwd = w
          BY <4>4
        <5>2. thread'[u] = thread[u]
          BY <1>0, <1>6, <5>1 DEF At
        <5> QED BY <5>1, <5>2 DEF Pledged, At
      <4> QED BY <4>2, <4>3, <4>4 DEF Pledged
    <3> QED BY <3>1, <3>2
  <2>5. ASSUME NEW u \in Requests, At(u, "wipe")'
        PROVE  /\ thread'[u].copy.pwd \in 1 .. passwords'
               /\ setBy'[thread'[u].copy.pwd].via = "web"
    <3>1. CASE u = t
      BY <1>2, <2>1, <2>2, <3>1
    <3>2. CASE u # t
      <4>1. /\ thread'[u] = thread[u] /\ thread[u].copy.pwd \in 1 .. passwords
            /\ setBy[thread[u].copy.pwd].via = "web"
        BY <1>6, <2>5, <3>2 DEF DataInv, At
      <4> QED BY <1>9, <4>1
    <3> QED BY <3>1, <3>2
  <2> QED BY <1>0, <1>2, <2>4, <2>5 DEF DataInv
<1> QED BY <1>7, <1>8

\* What a restart cuts.
LEMMA RestartPledges ==
    ASSUME IInv, DataInv, Restart
    PROVE  DataInv'
<1>1. \A t \in Requests : ~At(t, "wipe")'
  BY Empty DEF Restart, At, Threads
<1>2. cut' \subseteq 1 .. passwords
  BY DEF Restart, DataInv
<1>3. ASSUME NEW w \in 1 .. MaxPasswords, OwesWipe(w)'
      PROVE  w \in cut'
  <2>1. Pledged(w)
    BY <1>3 DEF OwesWipe, Restart, DataInv
  <2> QED BY <2>1 DEF Pledged, Restart
<1> QED BY <1>1, <1>2, <1>3 DEF DataInv, Restart, Pledged

LEMMA DataStep ==
    ASSUME IInv, DataInv, [Next]_vars
    PROVE  DataInv'
<1>0. /\ passwords \in Nat /\ passwords \in 0 .. MaxPasswords
      /\ \A w \in 1 .. MaxPasswords : w > passwords => setBy[w] = NoToken
  BY PanelAccessAssumption DEF IInv, Counters
<1> DEFINE Keeps == /\ passwords' \in Nat /\ passwords <= passwords'
                    /\ UNCHANGED <<setBy, data, cut>>
<1>1. ASSUME NEW t \in Threads, Return(t), ~At(t, "wipe"), Keeps
      PROVE  DataInv'
  BY <1>1, Empty, OtherWipers, DataStays DEF Return
<1>2. ASSUME NEW t \in Threads, NEW step \in Steps \ {"wipe"}, NEW i, Read(t, step, i),
             ~At(t, "wipe"), Keeps
      PROVE  DataInv'
  <2> DEFINE th == [pc |-> step, id |-> i, copy |-> accounts[i], cookie |-> NoSession]
  <2>1. th.pc # "wipe" /\ thread' = [thread EXCEPT ![t] = th]
    BY <1>2 DEF Read
  <2> HIDE DEF th
  <2> QED BY <1>2, <2>1, OtherWipers, DataStays
<1>3. ASSUME NEW t \in Requests, Request(t)
      PROVE  DataInv'
  <2>0. t \in Threads /\ ~At(t, "wipe") /\ Keeps
    BY <1>0, <1>3 DEF Threads, Request, SetupCheck, LoginRead, LogoutRead, SessionMiddleware,
       RecoverRead, ResetRead, At
  <2>1. CASE \E i \in 1 .. Len(accounts) :
                LoginRead(t, i) \/ LogoutRead(t, i) \/ RecoverRead(t, i) \/ ResetRead(t, i)
    BY <1>2, <2>0, <2>1 DEF LoginRead, LogoutRead, RecoverRead, ResetRead, Steps
  <2>2. CASE \/ \E e \in Emails : SetupCheck(t, e)
             \/ \E i \in 1 .. Len(accounts), step \in {"change", "erase"} :
                   SessionMiddleware(t, i, step)
    <3>1. PICK th : th.pc # "wipe" /\ thread' = [thread EXCEPT ![t] = th]
      <4>1. thread[t] \in [pc : Steps, id : Nat, copy : Row, cookie : Session]
        BY <2>0 DEF IInv, Threading, Working
      <4>2. CASE \E e \in Emails : SetupCheck(t, e)
        <5>1. PICK e \in Emails : SetupCheck(t, e)
          BY <4>2
        <5> DEFINE th == [thread[t] EXCEPT !.pc = "create", !.copy = NewRow(e, 0)]
        <5>2. th.pc # "wipe" /\ thread' = [thread EXCEPT ![t] = th]
          BY <4>1, <5>1 DEF SetupCheck
        <5> HIDE DEF th
        <5> QED BY <5>2
      <4>3. CASE \E i \in 1 .. Len(accounts), step \in {"change", "erase"} :
                    SessionMiddleware(t, i, step)
        <5>1. PICK i \in 1 .. Len(accounts), step \in {"change", "erase"} :
                 SessionMiddleware(t, i, step)
          BY <4>3
        <5> DEFINE th == [thread[t] EXCEPT !.pc = step, !.cookie = accounts[i].session]
        <5>2. th.pc # "wipe" /\ thread' = [thread EXCEPT ![t] = th]
          BY <4>1, <5>1 DEF SessionMiddleware
        <5> HIDE DEF th
        <5> QED BY <5>2
      <4> QED BY <2>2, <4>2, <4>3
    <3> QED BY <2>0, <3>1, OtherWipers, DataStays
  <2> QED BY <1>3, <2>1, <2>2 DEF Request
<1>4. ASSUME NEW t \in Requests, Handle(t)
      PROVE  DataInv'
  <2>0. t \in Threads
    BY DEF Threads
  <2>1. CASE SetupCreate(t) \/ LoginSave(t) \/ LogoutSave(t) \/ ChangeSave(t)
             \/ IssueWeb(t) \/ ResetRefused(t)
    <3>1. Return(t) /\ ~At(t, "wipe") /\ Keeps
      BY <1>0, <2>1 DEF SetupCreate, LoginSave, LogoutSave, ChangeSave, IssueWeb, Issue,
         ResetRefused, NextPassword, At
    <3> QED BY <1>1, <2>0, <3>1
  <2>2. CASE ChangeRead(t)
    <3>1. ~At(t, "wipe") /\ Keeps
      BY <1>0, <2>2 DEF ChangeRead, At
    <3>2. CASE Return(t)
      BY <1>1, <2>0, <3>1, <3>2
    <3>3. CASE \E i \in 1 .. Len(accounts) : Read(t, "changeSave", i)
      BY <1>2, <2>0, <3>1, <3>3 DEF Steps
    <3> QED BY <2>2, <3>2, <3>3 DEF ChangeRead
  <2>3. CASE ResetData(t) \/ Wipe(t)
    <3>1. data' = NoData /\ cut' = {} /\ Return(t) /\ UNCHANGED <<passwords, setBy>>
      BY <2>3 DEF ResetData, Wipe, Erase
    <3>2. \A u \in Requests : At(u, "wipe")' => At(u, "wipe") /\ thread'[u] = thread[u]
      BY <2>0, <3>1, Empty DEF Return, At, IInv, Threading, Threads
    <3> QED BY <3>1, <3>2 DEF DataInv, OwesWipe
  <2>4. CASE ResetSave(t)
    BY <2>4, ResetPledges
  <2> QED BY <1>4, <2>1, <2>2, <2>3, <2>4 DEF Handle
<1>5. CASE ChatRecoverRead
  BY <1>0, <1>2, <1>5 DEF ChatRecoverRead, Threads, Steps, At
<1>6. CASE IssueChat
  BY <1>0, <1>1, <1>6 DEF IssueChat, Issue, Threads, At
<1>7. CASE Use
  <2>1. data' = passwords /\ UNCHANGED <<passwords, setBy, cut, thread>>
    BY <1>7 DEF Use
  <2>2. \A w \in 1 .. MaxPasswords : ~OwesWipe(w)'
    BY <1>0, <2>1 DEF OwesWipe, NoToken
  <2> QED BY <1>0, <2>1, <2>2 DEF DataInv, At
<1>8. CASE Tick \/ UNCHANGED vars
  <2>1. SameWipers
    BY <1>8 DEF SameWipers, Tick, vars
  <2> QED BY <1>0, <1>8, <2>1, DataStays DEF Tick, vars
<1>9. CASE Restart
  BY <1>9, RestartPledges
<1> QED BY <1>3, <1>4, <1>5, <1>6, <1>7, <1>8, <1>9 DEF Next

LEMMA DataInvariance == Spec => []DataInv
<1>1. Init => DataInv
  BY Empty DEF Init, DataInv, OwesWipe, NoToken, At, Threads
<1>2. IInv /\ DataInv /\ [Next]_vars => DataInv'
  BY DataStep
<1> QED BY <1>1, <1>2, Invariance, PTL DEF Spec

-----------------------------------------------------------------------------
\* The variables' types, for all constants.
THEOREM AccessTypes == Spec => []TypeOK
<1>1. IInv /\ DataInv => TypeOK
  BY DEF IInv, Counters, Rows, Threading, Working, DataInv, TypeOK
<1> QED BY <1>1, Invariance, DataInvariance, PTL

\* A session belongs to the password in force, for any number of requests,
\* whichever of them saves last: setup, login, logout, change-password and both
\* ways to /recover.
THEOREM SessionsFollowPasswords == Spec => []SessionUnderPassword
<1>1. IInv => SessionUnderPassword
  BY DEF IInv, Rows, Consistent, SessionUnderPassword
<1> QED BY <1>1, Invariance, PTL

\* A reset token is used up by the reset, whatever is saved late.
THEOREM TokensAreUsedUp == Spec => []TokenUsedUp
<1>1. IInv => TokenUsedUp
  BY DEF IInv, Rows, Consistent, TokenUsedUp
<1> QED BY <1>1, Invariance, PTL

\* A reset with a token of the console, and nothing else without a session,
\* erases the data there were; only a stop of the process saves them.
THEOREM WipeFollowsChannel == Spec => WipedUnlessProven
<1> DEFINE Kept == \A w \in 1 .. MaxPasswords : OwesWipe(w) => Pledged(w)
           Erased == data # NoData /\ data' = NoData =>
                        \E t \in Requests :
                           \/ At(t, "erase")
                           \/ At(t, "wipe") /\ setBy[thread[t].copy.pwd].via = "web"
<1>1. DataInv => Kept
  BY DEF DataInv
<1>2. IInv /\ DataInv /\ [Next]_vars => [Erased]_vars
  <2> SUFFICES ASSUME DataInv, Next, data # NoData, data' = NoData
               PROVE  Erased
    BY DEF vars
  <2>1. PICK t \in Requests : ResetData(t) \/ Wipe(t)
    BY DEF Next, Request, Handle, SetupCheck, SetupCreate, LoginRead, LoginSave, LogoutRead,
           LogoutSave, SessionMiddleware, RecoverRead, ResetRead, ChangeRead, ChangeSave,
           ResetRefused, ResetSave, ResetTo, Issue, IssueWeb, IssueChat, ChatRecoverRead, Use,
           Tick, Restart
  <2> QED BY <2>1 DEF ResetData, Wipe, DataInv
<1>3. Spec => []Kept
  BY <1>1, DataInvariance, PTL
<1>4. Spec => [][Erased]_vars
  BY <1>2, Invariance, DataInvariance, PTL DEF Spec
<1> QED BY <1>3, <1>4 DEF WipedUnlessProven, Pledged

-----------------------------------------------------------------------------
(***************************************************************************)
(* The API keys, which the same panel edits (KeyVault).  A restart loads   *)
(* what the vault holds, split at the commas, so the argument needs what   *)
(* joining and splitting a pool preserve; then one invariant, that a       *)
(* request under way holds what the memory holds, gives all three results. *)
(***************************************************************************)

\* A least counterexample stands for induction on the length of a pool.
LEMMA SmallestAt ==
    ASSUME NEW T, T \subseteq Nat, T # {}
    PROVE  \E n \in T : \A m \in T : n <= m
<1> DEFINE R == {ss \in Nat \X Nat : ss[1] < ss[2]}
<1>1. IsWellFoundedOn(R, Nat)
  BY NatLessThanWellFounded DEF OpToRel
<1> HIDE DEF R
<1>2. PICK n \in T : \A m \in T : <<m, n>> \notin R
  BY <1>1, WFMin
<1>3. \A m \in T : ~ (m < n)
  BY <1>2 DEF R
<1> QED  BY <1>3

\* g holds the concatenations of the first 1, 2 ... n members of pool.
Concatenates(pool, n, g) ==
    g = [i \in 1 .. n |-> IF i = 1 THEN pool[i] ELSE g[i-1] \o pool[i]]

LEMMA ConcatenationsExist ==
    ASSUME NEW pool, NEW n \in Nat
    PROVE  \E g : Concatenates(pool, n, g)
<1> DEFINE T == {m \in Nat : ~ \E g : Concatenates(pool, m, g)}
<1>1. SUFFICES ASSUME T # {}  PROVE FALSE
  OBVIOUS
<1>2. PICK m \in T : \A k \in T : m <= k
  BY <1>1, SmallestAt
<1>3. CASE m = 0
  BY <1>2, <1>3, Concatenates(pool, 0, [i \in 1 .. 0 |-> pool[i]]) DEF Concatenates
<1>4. CASE m = 1
  BY <1>2, <1>4, Concatenates(pool, 1, [i \in 1 .. 1 |-> pool[i]]) DEF Concatenates
<1>5. CASE m > 1
  <2>1. m - 1 \in Nat /\ m - 1 \notin T
    BY <1>2, <1>5
  <2>2. PICK g : Concatenates(pool, m - 1, g)
    BY <2>1
  <2> DEFINE G == [i \in 1 .. m |-> IF i = m THEN g[m-1] \o pool[m] ELSE g[i]]
  <2>3. Concatenates(pool, m, G)
    <3>1. SUFFICES ASSUME NEW i \in 1 .. m
                   PROVE  G[i] = IF i = 1 THEN pool[i] ELSE G[i-1] \o pool[i]
      BY DEF Concatenates
    <3>2. CASE i = m
      <4>1. G[m] = g[m-1] \o pool[m] /\ m # 1
        <5>1. m \in 1 .. m
          BY <1>2, <1>5
        <5>2. G[m] = g[m-1] \o pool[m]
          BY <5>1
        <5>3. m # 1
          BY <1>2, <1>5
        <5> QED  BY <5>2, <5>3, Zenon
      <4>2. G[m-1] = g[m-1]
        <5>1. m - 1 \in 1 .. m /\ m - 1 # m
          BY <1>5
        <5> QED  BY <5>1
      <4> QED  BY <4>1, <4>2, <3>2
    <3>3. CASE i # m
      <4>1. i \in 1 .. m - 1 /\ G[i] = g[i] /\ (i # 1 => G[i-1] = g[i-1])
        BY <3>3
      <4>2. g[i] = IF i = 1 THEN pool[i] ELSE g[i-1] \o pool[i]
        BY <4>1, <2>2 DEF Concatenates
      <4> QED  BY <4>1, <4>2
    <3> QED  BY <3>2, <3>3
  <2> QED  BY <2>3
<1> QED  BY <1>2, <1>3, <1>4, <1>5

\* What Join makes: the last of the concatenations.
LEMMA JoinIsLast ==
    ASSUME NEW pool, Len(pool) \in Nat \ {0}
    PROVE  \E g : Concatenates(pool, Len(pool), g) /\ Join(pool) = g[Len(pool)]
<1> DEFINE g == CHOOSE f : f = [i \in 1 .. Len(pool) |->
                                  IF i = 1 THEN pool[i] ELSE f[i-1] \o pool[i]]
<1>1. Join(pool) = g[Len(pool)]
  BY DEF Join, FlattenSeq
<1>2. \E f : f = [i \in 1 .. Len(pool) |-> IF i = 1 THEN pool[i] ELSE f[i-1] \o pool[i]]
  BY ConcatenationsExist DEF Concatenates
<1>3. Concatenates(pool, Len(pool), g)
  BY <1>2, Zenon DEF Concatenates
<1> QED  BY <1>1, <1>3

LEMMA ToSetOfConcat ==
    ASSUME NEW A, NEW s \in Seq(A), NEW e \in Seq(A)
    PROVE  ToSet(s \o e) = ToSet(s) \cup ToSet(e)
<1>1. DOMAIN s = 1 .. Len(s) /\ DOMAIN e = 1 .. Len(e)
      /\ DOMAIN (s \o e) = 1 .. Len(s) + Len(e) /\ Len(s) \in Nat /\ Len(e) \in Nat
  OBVIOUS
<1>2. ASSUME NEW k \in 1 .. Len(s)  PROVE s[k] \in ToSet(s \o e)
  <2>1. (s \o e)[k] = s[k] /\ k \in 1 .. Len(s) + Len(e)
    BY <1>1
  <2> QED  BY <2>1, <1>1 DEF ToSet
<1>3. ASSUME NEW k \in 1 .. Len(e)  PROVE e[k] \in ToSet(s \o e)
  <2>1. (s \o e)[Len(s) + k] = e[k] /\ Len(s) + k \in 1 .. Len(s) + Len(e)
    BY <1>1
  <2> QED  BY <2>1, <1>1 DEF ToSet
<1>4. ASSUME NEW k \in 1 .. Len(s) + Len(e)  PROVE (s \o e)[k] \in ToSet(s) \cup ToSet(e)
  <2>1. CASE k <= Len(s)
    BY <2>1, <1>1 DEF ToSet
  <2>2. CASE k > Len(s)
    <3>1. (s \o e)[k] = e[k - Len(s)] /\ k - Len(s) \in 1 .. Len(e)
      BY <2>2, <1>1
    <3> QED  BY <3>1, <1>1 DEF ToSet
  <2> QED  BY <2>1, <2>2, <1>1
<1>5. ToSet(s) = {s[k] : k \in 1 .. Len(s)} /\ ToSet(e) = {e[k] : k \in 1 .. Len(e)}
      /\ ToSet(s \o e) = {(s \o e)[k] : k \in 1 .. Len(s) + Len(e)}
  BY <1>1 DEF ToSet
<1> QED  BY <1>2, <1>3, <1>4, <1>5

LEMMA HeadOfConcat ==
    ASSUME NEW A, NEW s \in Seq(A) \ {<<>>}, NEW e \in Seq(A)
    PROVE  s \o e \in Seq(A) \ {<<>>} /\ (s \o e)[1] = s[1]
<1>1. Len(s) \in Nat \ {0} /\ Len(e) \in Nat /\ s \o e \in Seq(A)
  OBVIOUS
<1>2. 1 \in 1 .. Len(s) /\ Len(s \o e) = Len(s) + Len(e)
  BY <1>1
<1>3. s \o e # <<>>
  BY <1>1, <1>2
<1>4. (s \o e)[1] = s[1]
  BY <1>2
<1> QED  BY <1>1, <1>3, <1>4

\* Joining a pool keeps its atoms and its first one.
LEMMA JoinOfKeys ==
    ASSUME NEW A, NEW pool \in Seq(Seq(A) \ {<<>>})
    PROVE  /\ Join(pool) \in Seq(A)
           /\ pool = <<>> <=> Join(pool) = <<>>
           /\ pool # <<>> => Join(pool)[1] = pool[1][1]
           /\ ToSet(Join(pool)) = Atoms(pool)
<1>1. CASE pool = <<>>
  BY <1>1 DEF Join, FlattenSeq, Atoms, ToSet
<1>2. CASE pool # <<>>
  <2> DEFINE n == Len(pool)
             Upto(i) == UNION {ToSet(pool[j]) : j \in 1 .. i}
             Good(g, i) == /\ g[i] \in Seq(A) \ {<<>>}
                           /\ g[i][1] = pool[1][1]
                           /\ ToSet(g[i]) = Upto(i)
  <2>1. n \in Nat \ {0} /\ \A i \in 1 .. n : pool[i] \in Seq(A) \ {<<>>}
    BY <1>2
  <2> HIDE DEF n
  <2>2. PICK g : Concatenates(pool, n, g) /\ Join(pool) = g[n]
    BY <2>1, JoinIsLast DEF n
  <2> DEFINE T == {i \in 1 .. n : ~ Good(g, i)}
  <2>3. T = {}
    <3>1. SUFFICES ASSUME T # {}  PROVE FALSE
      OBVIOUS
    <3> HIDE DEF Good
    <3>2. PICK i \in T : \A k \in T : i <= k
      BY <3>1, SmallestAt, T \subseteq Nat
    <3>3. g[i] = IF i = 1 THEN pool[i] ELSE g[i-1] \o pool[i]
      BY <3>2, <2>2 DEF Concatenates
    <3>4. CASE i = 1
      <4>1. Upto(1) = ToSet(pool[1])
        OBVIOUS
      <4> QED  BY <4>1, <3>2, <3>3, <3>4, <2>1 DEF Good
    <3>5. CASE i # 1
      <4>1. i \in 1 .. n /\ i - 1 \in 1 .. n /\ i - 1 \notin T
        BY <3>2, <3>5, <2>1
      <4>2. Good(g, i-1)
        BY <4>1
      <4>3. g[i] \in Seq(A) \ {<<>>} /\ g[i][1] = g[i-1][1]
        <5>1. g[i] = g[i-1] \o pool[i] /\ pool[i] \in Seq(A)
          BY <4>1, <3>3, <3>5, <2>1
        <5>2. g[i-1] \in Seq(A) \ {<<>>}
          BY <4>2 DEF Good
        <5> HIDE DEF T
        <5>3. /\ g[i-1] \o pool[i] \in Seq(A) \ {<<>>}
              /\ (g[i-1] \o pool[i])[1] = g[i-1][1]
          BY <5>1, <5>2, HeadOfConcat, Zenon
        <5> QED  BY <5>1, <5>3, Zenon
      <4>4. ToSet(g[i]) = ToSet(g[i-1]) \cup ToSet(pool[i])
        BY <4>1, <4>2, <3>3, <3>5, <2>1, ToSetOfConcat DEF Good
      <4>5. Upto(i) = Upto(i-1) \cup ToSet(pool[i])
        BY <4>1
      <4> QED  BY <3>2, <4>2, <4>3, <4>4, <4>5 DEF Good
    <3> QED  BY <3>4, <3>5
  <2>4. Good(g, n)
    <3> HIDE DEF Good
    <3>1. n \in 1 .. n /\ n \notin T
      BY <2>1, <2>3
    <3> QED  BY <3>1
  <2> QED  BY <2>2, <2>4, <1>2 DEF Atoms, n
<1> QED  BY <1>1, <1>2

\* Keys without a comma come back from a joined pool as they were.
LEMMA JoinOfSingles ==
    ASSUME NEW A, NEW pool \in Seq({<<a>> : a \in A})
    PROVE  ParseKeyPool(Join(pool)) = pool
<1> DEFINE n == Len(pool)
<1>0. n \in Nat /\ \A i \in 1 .. n : pool[i] = <<pool[i][1]>>
  OBVIOUS
<1>a. pool = [i \in 1 .. n |-> <<pool[i][1]>>]
  <2>1. pool = [i \in 1 .. n |-> pool[i]]
    OBVIOUS
  <2> QED  BY <2>1, <1>0
<1> HIDE DEF n
<1>1. CASE n = 0
  BY <1>1 DEF Join, FlattenSeq, ParseKeyPool, n
<1>2. CASE n # 0
  <2>1. PICK g : Concatenates(pool, n, g) /\ Join(pool) = g[n]
    BY <1>0, <1>2, JoinIsLast DEF n
  <2> DEFINE Firsts(i) == [j \in 1 .. i |-> pool[j][1]]
             T == {i \in 1 .. n : g[i] # Firsts(i)}
  <2>2. T = {}
    <3>1. SUFFICES ASSUME T # {}  PROVE FALSE
      OBVIOUS
    <3>2. PICK i \in T : \A k \in T : i <= k
      BY <3>1, SmallestAt, T \subseteq Nat
    <3>3. g[i] = IF i = 1 THEN pool[i] ELSE g[i-1] \o pool[i]
      BY <3>2, <2>1 DEF Concatenates
    <3>4. CASE i = 1
      BY <3>2, <3>3, <3>4, <1>0
    <3>5. CASE i # 1
      <4>1. i \in 1 .. n /\ i - 1 \in 1 .. n /\ i - 1 \notin T
        BY <3>2, <3>5, <1>0
      <4>2. g[i-1] = Firsts(i-1)
        BY <4>1
      <4>3. Firsts(i-1) \o <<pool[i][1]>> = Firsts(i)
        BY <4>1, <1>0
      <4> QED  BY <3>2, <3>3, <3>5, <4>1, <4>2, <4>3, <1>0
    <3> QED  BY <3>4, <3>5
  <2>3. Join(pool) = Firsts(n)
    <3>1. n \in 1 .. n
      BY <1>0, <1>2
    <3> QED  BY <3>1, <2>1, <2>2
  <2> QED  BY <2>3, <1>a, <1>0 DEF ParseKeyPool
<1> QED  BY <1>1, <1>2

-----------------------------------------------------------------------------
Keys == Seq(Alphabet) \ {<<>>}
Variables == [single : Seq(Alphabet), pool : Seq(Alphabet)]
SealedKeys == [primary : Seq(Alphabet), pool : Seq(Alphabet)]
OneAtom == {<<a>> : a \in Alphabet}

\* The primary key and the pool that a vault holds for a provider were those
\* of one memory, in which the primary key was the first of its pool.
Agreeing(v) == /\ v.pool = <<>> <=> v.primary = <<>>
               /\ v.pool # <<>> => v.primary[1] = v.pool[1]

\* Splitting yields keys of one atom each, all of them.
LEMMA ParsedKeys ==
    ASSUME NEW s \in Seq(Alphabet)
    PROVE  /\ ParseKeyPool(s) \in Seq(Keys)
           /\ ParseKeyPool(s) \in Seq(OneAtom)
           /\ Len(ParseKeyPool(s)) = Len(s)
           /\ \A i \in 1 .. Len(s) : ParseKeyPool(s)[i] = <<s[i]>>
           /\ Atoms(ParseKeyPool(s)) = ToSet(s)
<1>1. /\ ParseKeyPool(s) \in Seq(OneAtom)
      /\ Len(ParseKeyPool(s)) = Len(s)
      /\ \A i \in 1 .. Len(s) : ParseKeyPool(s)[i] = <<s[i]>>
  BY DEF ParseKeyPool, OneAtom
<1>2. ParseKeyPool(s) \in Seq(Keys)
  BY DEF ParseKeyPool, Keys
<1>3. \A i \in 1 .. Len(s) : ToSet(<<s[i]>>) = {s[i]}
  BY DEF ToSet
<1>4. Atoms(ParseKeyPool(s)) = UNION {{s[i]} : i \in 1 .. Len(s)}
  BY <1>1, <1>3 DEF Atoms
<1>5. ToSet(s) = {s[i] : i \in 1 .. Len(s)}
  BY DEF ToSet
<1> QED  BY <1>1, <1>2, <1>4, <1>5

LEMMA AtomsOfPrepended ==
    ASSUME NEW pool \in Seq(Keys), NEW k \in Keys
    PROVE  /\ <<k>> \o pool \in Seq(Keys)
           /\ FirstKey(<<k>> \o pool) = k
           /\ Atoms(<<k>> \o pool) = ToSet(k) \cup Atoms(pool)
<1> DEFINE s == <<k>> \o pool
<1>1. /\ s \in Seq(Keys) /\ Len(s) = Len(pool) + 1 /\ s[1] = k /\ s # <<>>
      /\ \A i \in 1 .. Len(pool) : s[i+1] = pool[i]
      /\ \A i \in 1 .. Len(s) : i = 1 \/ (i - 1 \in 1 .. Len(pool) /\ s[i] = pool[i-1])
      /\ Len(pool) \in Nat
  OBVIOUS
<1> HIDE DEF s
<1>2. FirstKey(s) = k
  BY <1>1 DEF FirstKey
<1>3. Atoms(s) \subseteq ToSet(k) \cup Atoms(pool)
  BY <1>1 DEF Atoms
<1>4. ToSet(k) \subseteq Atoms(s)
  <2>1. 1 \in 1 .. Len(s)
    BY <1>1
  <2> QED  BY <2>1, <1>1 DEF Atoms
<1>5. \A i \in 1 .. Len(pool) : ToSet(pool[i]) \subseteq Atoms(s)
  <2>1. \A i \in 1 .. Len(pool) : i + 1 \in 1 .. Len(s)
    BY <1>1
  <2> QED  BY <2>1, <1>1 DEF Atoms
<1>6. Atoms(s) = ToSet(k) \cup Atoms(pool)
  BY <1>3, <1>4, <1>5 DEF Atoms
<1> QED  BY <1>1, <1>2, <1>6 DEF s

\* The pool of the environment has the atoms of both variables.
LEMMA EnvironmentPool ==
    ASSUME NEW e \in Variables
    PROVE  /\ BuildKeyPool(e) \in Seq(Keys)
           /\ Atoms(BuildKeyPool(e)) = ToSet(e.single) \cup ToSet(e.pool)
<1> DEFINE pool == ParseKeyPool(e.pool)
<1>1. e.single \in Seq(Alphabet) /\ e.pool \in Seq(Alphabet)
  BY DEF Variables
<1>2. pool \in Seq(Keys) /\ Atoms(pool) = ToSet(e.pool) /\ Len(pool) = Len(e.pool)
  BY <1>1, ParsedKeys
<1> HIDE DEF pool
<1>3. CASE e.single = NoKey
  <2>1. ToSet(e.single) = {}
    BY <1>3, KeyVaultAssumption DEF ToSet
  <2> QED  BY <1>2, <1>3, <2>1 DEF BuildKeyPool, pool
<1>4. CASE Contains(pool, e.single)
  <2>1. ToSet(e.single) \subseteq Atoms(pool)
    BY <1>4 DEF Contains, Atoms
  <2> QED  BY <1>2, <1>4, <2>1 DEF BuildKeyPool, pool
<1>5. CASE e.single # NoKey /\ ~ Contains(pool, e.single)
  <2>1. e.single \in Keys
    BY <1>1, <1>5, KeyVaultAssumption DEF Keys
  <2>2. BuildKeyPool(e) = <<e.single>> \o pool
    BY <1>5 DEF BuildKeyPool, pool
  <2> QED  BY <2>1, <2>2, <1>2, AtomsOfPrepended
<1> QED  BY <1>3, <1>4, <1>5

LEMMA FirstOfKeys ==
    ASSUME NEW pool \in Seq(Keys)
    PROVE  /\ FirstKey(pool) \in Seq(Alphabet)
           /\ FirstKey(pool) = NoKey <=> pool = <<>>
           /\ pool # <<>> => Contains(pool, FirstKey(pool)) /\ FirstKey(pool) = pool[1]
BY KeyVaultAssumption DEF FirstKey, Keys, Contains

\* Without a vault the environment is taken as it is.
LEMMA LoadFromEnvironment ==
    ASSUME NEW e \in Variables, NEW v \in SealedKeys, v.primary = <<>>, v.pool = <<>>
    PROVE  Load(e, v) = [primary |-> FirstKey(BuildKeyPool(e)), pool |-> BuildKeyPool(e)]
<1>1. BuildKeyPool(e) \in Seq(Keys)
  BY EnvironmentPool
<1>2. EnsurePrimaryInPool(BuildKeyPool(e), FirstKey(BuildKeyPool(e))) = BuildKeyPool(e)
  BY <1>1, FirstOfKeys DEF EnsurePrimaryInPool
<1> QED  BY <1>2, KeyVaultAssumption DEF Load

LEMMA LoadFromVault ==
    ASSUME NEW e \in Variables, NEW v \in SealedKeys, Agreeing(v), v.pool # <<>>
    PROVE  /\ Load(e, v).primary = v.primary
           /\ Load(e, v).pool = EnsurePrimaryInPool(ParseKeyPool(v.pool), v.primary)
           /\ Load(e, v).pool \in Seq(Keys)
           /\ FirstKey(Load(e, v).pool) = v.primary
           /\ ToSet(v.pool) \subseteq Atoms(Load(e, v).pool)
<1> DEFINE pool == ParseKeyPool(v.pool)
<1>1. /\ v.primary \in Keys /\ v.primary # NoKey
      /\ v.pool \in Seq(Alphabet) /\ v.primary[1] = v.pool[1]
  BY KeyVaultAssumption DEF SealedKeys, Agreeing, Keys
<1>2. Load(e, v).primary = v.primary /\ Load(e, v).pool = EnsurePrimaryInPool(pool, v.primary)
  BY <1>1, KeyVaultAssumption DEF Load
<1>3. pool \in Seq(Keys) /\ Atoms(pool) = ToSet(v.pool)
      /\ Len(pool) = Len(v.pool) /\ \A i \in 1 .. Len(v.pool) : pool[i] = <<v.pool[i]>>
  BY <1>1, ParsedKeys
<1> HIDE DEF pool
<1>4. CASE Contains(pool, v.primary)
  <2>1. PICK i \in 1 .. Len(v.pool) : v.primary = <<v.pool[i]>>
    BY <1>3, <1>4 DEF Contains
  <2>2. v.primary = <<v.pool[1]>>
    BY <2>1, <1>1
  <2>3. 1 \in 1 .. Len(v.pool)
    BY <1>1
  <2>4. FirstKey(pool) = v.primary
    BY <2>2, <2>3, <1>3 DEF FirstKey
  <2> QED  BY <1>2, <1>3, <1>4, <2>4 DEF EnsurePrimaryInPool, pool
<1>5. CASE ~ Contains(pool, v.primary)
  <2>1. Load(e, v).pool = <<v.primary>> \o pool
    BY <1>1, <1>2, <1>5 DEF EnsurePrimaryInPool
  <2> QED  BY <2>1, <1>1, <1>2, <1>3, AtomsOfPrepended DEF pool
<1> QED  BY <1>4, <1>5

\* What is loaded has its primary key first.
LEMMA LoadOrders ==
    ASSUME NEW e \in Variables, NEW v \in SealedKeys, Agreeing(v)
    PROVE  /\ Load(e, v).pool \in Seq(Keys)
           /\ Load(e, v).primary \in Seq(Alphabet)
           /\ Load(e, v).primary = FirstKey(Load(e, v).pool)
<1>1. CASE v.pool = <<>>
  <2>1. v.primary = <<>>
    BY <1>1 DEF Agreeing
  <2>2. Load(e, v) = [primary |-> FirstKey(BuildKeyPool(e)), pool |-> BuildKeyPool(e)]
    BY <1>1, <2>1, LoadFromEnvironment
  <2> QED  BY <2>2, EnvironmentPool, FirstOfKeys
<1>2. CASE v.pool # <<>>
  BY <1>2, LoadFromVault DEF SealedKeys
<1> QED  BY <1>1, <1>2

\* What was sealed of a memory is found again.
LEMMA SealedMemory ==
    ASSUME NEW e \in Variables, NEW pool \in Seq(Keys), NEW v,
           v = [primary |-> FirstKey(pool), pool |-> Join(pool)]
    PROVE  /\ v \in SealedKeys /\ Agreeing(v)
           /\ Atoms(pool) \subseteq Atoms(Load(e, v).pool)
           /\ pool \in Seq(OneAtom) /\ pool # <<>>
                 => Load(e, v) = [primary |-> FirstKey(pool), pool |-> pool]
<1>1. /\ Join(pool) \in Seq(Alphabet)
      /\ pool = <<>> <=> Join(pool) = <<>>
      /\ pool # <<>> => Join(pool)[1] = pool[1][1]
      /\ ToSet(Join(pool)) = Atoms(pool)
  BY JoinOfKeys DEF Keys
<1>2. v \in SealedKeys /\ Agreeing(v)
  BY <1>1, FirstOfKeys, KeyVaultAssumption DEF SealedKeys, Agreeing
<1>3. Atoms(pool) \subseteq Atoms(Load(e, v).pool)
  <2>1. CASE pool = <<>>
    BY <2>1 DEF Atoms
  <2>2. CASE pool # <<>>
    BY <2>2, <1>1, <1>2, LoadFromVault
  <2> QED  BY <2>1, <2>2
<1>4. ASSUME pool \in Seq(OneAtom), pool # <<>>
      PROVE  Load(e, v) = [primary |-> FirstKey(pool), pool |-> pool]
  <2>1. ParseKeyPool(Join(pool)) = pool
    BY <1>4, JoinOfSingles DEF OneAtom
  <2>2. v.primary # NoKey /\ v.pool # <<>> /\ v.pool = Join(pool) /\ v.primary = FirstKey(pool)
    BY <1>1, <1>4, FirstOfKeys
  <2>3. EnsurePrimaryInPool(pool, FirstKey(pool)) = pool
    BY <1>4, FirstOfKeys DEF EnsurePrimaryInPool
  <2> QED  BY <2>1, <2>2, <2>3 DEF Load
<1> QED  BY <1>2, <1>3, <1>4

-----------------------------------------------------------------------------
(* The invariant, for one administrator *)

OneAdministrator == \A s, t \in Panels : s = t

VaultSteps == {"idle", "add", "remove", "first", "primary", "snapshot", "save", "env"}
PanelWork == [pc : VaultSteps, provider : Providers \cup {NoKey}, key : Seq(Alphabet),
              index : Nat, read : Seq(Seq(Alphabet)),
              snapshot : [Providers -> SealedKeys] \cup {<<>>}]

VaultTypes == /\ env \in [Providers -> Variables]
              /\ pools \in [Providers -> Seq(Keys)]
              /\ primary \in [Providers -> Seq(Alphabet)]
              /\ machineKey \in Nat
              /\ vault \in [sealed : Nat, keys : [Providers -> SealedKeys]]
              /\ panel \in [Panels -> PanelWork]
              /\ kept \in [Providers -> SUBSET Alphabet]

\* What persistEncryptedKeys seals.
Sealed == [p \in Providers |-> [primary |-> primary[p], pool |-> Join(pools[p])]]

\* What a request has in its hands is what the memory holds.
RequestInv == \A t \in Panels :
    LET w == panel[t] IN
    /\ w.pc = "idle" => w.provider = NoKey /\ w.key = NoKey
    /\ w.pc \in {"add", "remove", "first", "primary"} => w.provider \in Providers
    /\ w.pc \in {"add", "remove"} => w.read = pools[w.provider]
    /\ w.pc = "add" => w.key \in Pasted
    /\ w.pc = "remove" => /\ w.key = NoKey
                          /\ w.index \in 1 .. Len(w.read)
                          /\ kept[w.provider] \cap ToSet(w.read[w.index]) = {}
    /\ w.pc = "primary" => w.read = <<FirstKey(pools[w.provider])>>
    /\ w.pc \in {"first", "primary", "snapshot", "save"} /\ w.key # NoKey
          => w.provider \in Providers /\ Contains(pools[w.provider], w.key)
    /\ w.pc = "save" => w.snapshot = Sealed
    /\ w.pc = "env" => vault = [sealed |-> machineKey, keys |-> Sealed]

\* The primary key is out of step only while a request is changing it.
PrimaryInv == \A p \in Providers :
    \/ primary[p] = FirstKey(pools[p])
    \/ \E t \in Panels : panel[t].pc \in {"first", "primary"} /\ panel[t].provider = p

VaultInv == \A p \in Providers : Agreeing(vault.keys[p])

KeptInv == \A p \in Providers : kept[p] \subseteq Atoms(pools[p])

KeysInv == VaultTypes /\ RequestInv /\ PrimaryInv /\ VaultInv /\ KeptInv /\ NoKeyLost

\* Keys without a comma.
NoCommas == \A k \in Pasted \cup EnvSingles : Len(k) \in {0, 1}

SinglesInv == \A p \in Providers : /\ pools[p] \in Seq(OneAtom)
                                   /\ env[p].single \in OneAtom \cup {<<>>}
                                   /\ vault.keys[p].primary \in OneAtom \cup {<<>>}

\* A restart would change the memory only while a request that has changed it
\* has not saved it.
ReloadInv == \A p \in Providers :
    \/ pools[p] = <<>>
    \/ Reloads(p)
    \/ \E t \in Panels : /\ panel[t].pc \in {"first", "primary", "snapshot", "save"}
                         /\ panel[t].provider = p

-----------------------------------------------------------------------------
LEMMA KeysAreSequences == Seq(Keys) \subseteq Seq(Seq(Alphabet))
BY DEF Keys

\* An added key is in the pool, and the others stay.
LEMMA AppendedKey ==
    ASSUME NEW pool \in Seq(Keys), NEW k \in Keys
    PROVE  /\ Append(pool, k) \in Seq(Keys)
           /\ Contains(Append(pool, k), k)
           /\ Atoms(pool) \subseteq Atoms(Append(pool, k))
<1> DEFINE s == Append(pool, k)
<1>1. /\ s \in Seq(Keys) /\ Len(s) = Len(pool) + 1 /\ s[Len(s)] = k /\ Len(pool) \in Nat
      /\ \A i \in 1 .. Len(pool) : s[i] = pool[i]
  OBVIOUS
<1> HIDE DEF s
<1>2. Len(s) \in 1 .. Len(s) /\ \A i \in 1 .. Len(pool) : i \in 1 .. Len(s)
  BY <1>1
<1> QED  BY <1>1, <1>2 DEF Contains, Atoms, s

\* Taking a key out of a pool takes at most its atoms out.
LEMMA RemovedKey ==
    ASSUME NEW S, NEW pool \in Seq(S), NEW i \in 1 .. Len(pool)
    PROVE  /\ RemoveAt(pool, i) \in Seq(S)
           /\ Atoms(pool) \ ToSet(pool[i]) \subseteq Atoms(RemoveAt(pool, i))
<1> DEFINE a == SubSeq(pool, 1, i-1)
           b == SubSeq(pool, i+1, Len(pool))
           s == RemoveAt(pool, i)
<1>1. Len(pool) \in Nat /\ a \in Seq(S) /\ b \in Seq(S) /\ Len(a) = i - 1 /\ Len(b) = Len(pool) - i
  OBVIOUS
<1>2. /\ \A j \in 1 .. i - 1 : a[j] = pool[j]
      /\ \A j \in 1 .. Len(pool) - i : b[j] = pool[i + j]
  OBVIOUS
<1>3. s = a \o b
  BY DEF RemoveAt
<1> HIDE DEF a, b, s
<1>4. s \in Seq(S) /\ Len(s) = Len(pool) - 1
  <2>1. s \in Seq(S) /\ Len(s) = Len(a) + Len(b)
    BY <1>1, <1>3, ConcatProperties
  <2> QED  BY <2>1, <1>1
<1>5. \A j \in 1 .. Len(pool) : j < i => j \in 1 .. Len(s) /\ s[j] = pool[j]
  BY <1>1, <1>2, <1>3, <1>4
<1>6. \A j \in 1 .. Len(pool) : j > i => j - 1 \in 1 .. Len(s) /\ s[j - 1] = pool[j]
  <2>1. SUFFICES ASSUME NEW j \in 1 .. Len(pool), j > i
                 PROVE  j - 1 \in 1 .. Len(s) /\ s[j - 1] = pool[j]
    OBVIOUS
  <2>2. j - i \in 1 .. Len(pool) - i /\ b[j - i] = pool[i + (j - i)] /\ i + (j - i) = j
    BY <2>1, <1>1, <1>2
  <2>3. j - 1 \in 1 .. Len(s) /\ j - 1 = Len(a) + (j - i)
    BY <2>1, <1>1, <1>4
  <2>4. s[j - 1] = b[j - i]
    BY <2>1, <2>2, <2>3, <1>1, <1>3
  <2> QED  BY <2>2, <2>3, <2>4
<1>7. \A j \in 1 .. Len(pool) : j = i \/ ToSet(pool[j]) \subseteq Atoms(s)
  BY <1>5, <1>6, <1>1 DEF Atoms
<1>8. Atoms(pool) \ ToSet(pool[i]) \subseteq Atoms(s)
  BY <1>7 DEF Atoms
<1> QED  BY <1>4, <1>8 DEF s

LEMMA AtomsOfMember ==
    ASSUME NEW pool, NEW k, Contains(pool, k)
    PROVE  ToSet(k) \subseteq Atoms(pool)
BY DEF Contains, Atoms

\* What a start loads is in order, with any machine key.
LEMMA LoadedOrders ==
    ASSUME VaultTypes, VaultInv, NEW p \in Providers, NEW key
    PROVE  /\ LoadedWith(key, p).pool \in Seq(Keys)
           /\ LoadedWith(key, p).primary \in Seq(Alphabet)
           /\ LoadedWith(key, p).primary = FirstKey(LoadedWith(key, p).pool)
<1>1. /\ EmptyVault.keys[p] \in SealedKeys /\ Agreeing(EmptyVault.keys[p])
      /\ vault.keys[p] \in SealedKeys /\ Agreeing(vault.keys[p])
      /\ env[p] \in Variables
  BY KeyVaultAssumption DEF EmptyVault, SealedKeys, Agreeing, VaultTypes, VaultInv
<1> QED  BY <1>1, LoadOrders DEF LoadedWith

LEMMA SealedTyped ==
    ASSUME VaultTypes
    PROVE  Sealed \in [Providers -> SealedKeys]
<1>1. \A p \in Providers : primary[p] \in Seq(Alphabet) /\ Join(pools[p]) \in Seq(Alphabet)
  BY JoinOfKeys DEF VaultTypes, Keys
<1> QED  BY <1>1 DEF Sealed, SealedKeys

LEMMA EnvironmentTyped ==
    ASSUME VaultInit
    PROVE  env \in [Providers -> Variables]
BY KeyVaultAssumption DEF VaultInit, Variables

\* The first boot, with an empty vault.
LEMMA VaultStart ==
    ASSUME VaultInit
    PROVE  KeysInv
<1>1. env \in [Providers -> Variables]
  BY EnvironmentTyped
<1>2. vault = EmptyVault /\ vault \in [sealed : Nat, keys : [Providers -> SealedKeys]]
      /\ \A p \in Providers : vault.keys[p].primary = <<>> /\ vault.keys[p].pool = <<>>
  BY KeyVaultAssumption DEF VaultInit, EmptyVault, SealedKeys
<1>3. ASSUME NEW p \in Providers
      PROVE  /\ pools[p] = BuildKeyPool(env[p]) /\ primary[p] = FirstKey(pools[p])
             /\ Loaded(p).pool = pools[p]
             /\ kept[p] = Atoms(pools[p]) /\ kept[p] \subseteq Alphabet
             /\ pools[p] \in Seq(Keys) /\ primary[p] \in Seq(Alphabet)
  <2>1. env[p] \in Variables /\ vault.keys[p] \in SealedKeys
    BY <1>1, <1>2
  <2>2. vault.sealed = machineKey
    BY DEF VaultInit, EmptyVault
  <2>3. Loaded(p) = [primary |-> FirstKey(BuildKeyPool(env[p])), pool |-> BuildKeyPool(env[p])]
    BY <1>2, <2>1, <2>2, LoadFromEnvironment DEF Loaded, LoadedWith
  <2>4. pools[p] = BuildKeyPool(env[p]) /\ primary[p] = FirstKey(pools[p]) /\ Loaded(p).pool = pools[p]
    BY <2>3 DEF VaultInit
  <2>5. pools[p] \in Seq(Keys) /\ Atoms(pools[p]) = ToSet(env[p].single) \cup ToSet(env[p].pool)
    BY <2>1, <2>4, EnvironmentPool
  <2>6. kept[p] = ToSet(env[p].single) \cup ToSet(env[p].pool)
    BY DEF VaultInit
  <2>7. kept[p] \subseteq Alphabet
    BY <2>1, <2>6 DEF Variables, ToSet
  <2>8. primary[p] \in Seq(Alphabet)
    BY <2>4, <2>5, FirstOfKeys
  <2> QED  BY <2>4, <2>5, <2>6, <2>7, <2>8
<1>4. panel \in [Panels -> PanelWork]
      /\ \A t \in Panels : panel[t].pc = "idle" /\ panel[t].provider = NoKey /\ panel[t].key = NoKey
  BY KeyVaultAssumption DEF VaultInit, NoRequest, PanelWork, VaultSteps
<1>5. VaultTypes
  <2>1. DOMAIN pools = Providers /\ DOMAIN primary = Providers /\ DOMAIN kept = Providers
        /\ pools = [p \in Providers |-> pools[p]] /\ primary = [p \in Providers |-> primary[p]]
        /\ kept = [p \in Providers |-> kept[p]] /\ machineKey \in Nat
    BY DEF VaultInit
  <2>2. pools \in [Providers -> Seq(Keys)]
    BY <2>1, <1>3
  <2>3. primary \in [Providers -> Seq(Alphabet)]
    BY <2>1, <1>3
  <2>4. kept \in [Providers -> SUBSET Alphabet]
    BY <2>1, <1>3
  <2> QED  BY <1>1, <1>2, <1>4, <2>1, <2>2, <2>3, <2>4 DEF VaultTypes
<1>6. RequestInv
  BY <1>4 DEF RequestInv
<1>7. PrimaryInv /\ KeptInv /\ NoKeyLost
  BY <1>3 DEF PrimaryInv, KeptInv, NoKeyLost
<1>8. VaultInv
  BY <1>2 DEF VaultInv, Agreeing
<1> QED  BY <1>5, <1>6, <1>7, <1>8 DEF KeysInv

-----------------------------------------------------------------------------
(* One lemma per step; t is the goroutine that takes it *)

\* As long as the environment, the vault and the machine key stay, so does
\* what a restart would load.
LEMMA SameLoad ==
    ASSUME UNCHANGED <<env, vault, machineKey>>
    PROVE  \A p \in Providers : Loaded(p)' = Loaded(p)
BY DEF Loaded, LoadedWith

LEMMA RequestAddKeeps ==
    ASSUME KeysInv, OneAdministrator, NEW t \in Panels, NEW p \in Providers,
           NEW k \in Pasted, RequestAdd(t, p, k)
    PROVE  KeysInv'
<1>1. panel' = [panel EXCEPT ![t] = [pc |-> "add", provider |-> p, key |-> k, index |-> 0,
                                     read |-> pools[p], snapshot |-> <<>>]]
  BY DEF RequestAdd, Editing
<1>2. UNCHANGED <<env, machineKey, pools, primary, vault, kept>>
  BY DEF RequestAdd, memory
<1>3. panel \in [Panels -> PanelWork] /\ panel[t].pc = "idle" /\ \A s \in Panels : s = t
  BY DEF KeysInv, VaultTypes, RequestAdd, Awaits, OneAdministrator
<1>4. k \in Seq(Alphabet) /\ pools[p] \in Seq(Seq(Alphabet))
  BY KeyVaultAssumption, KeysAreSequences DEF KeysInv, VaultTypes
<1>5. VaultTypes'
  <2>1. panel' \in [Panels -> PanelWork]
    BY <1>1, <1>3, <1>4 DEF PanelWork, VaultSteps
  <2> QED  BY <1>2, <2>1 DEF KeysInv, VaultTypes
<1>6. RequestInv'
  BY <1>1, <1>2, <1>3 DEF RequestInv
<1>7. PrimaryInv'
  BY <1>1, <1>2, <1>3 DEF PrimaryInv, KeysInv
<1>8. VaultInv' /\ KeptInv'
  BY <1>2 DEF VaultInv, KeptInv, KeysInv
<1>9. NoKeyLost'
  BY <1>2, SameLoad DEF NoKeyLost, KeysInv
<1> QED  BY <1>5, <1>6, <1>7, <1>8, <1>9 DEF KeysInv

LEMMA AddKeyKeeps ==
    ASSUME KeysInv, OneAdministrator, NEW t \in Panels, AddKey(t)
    PROVE  KeysInv'
<1> DEFINE p == panel[t].provider
           k == panel[t].key
<1>1. panel' = [panel EXCEPT ![t].pc = "first"]
      /\ UNCHANGED <<env, machineKey, primary, vault, kept>>
  BY DEF AddKey, Go
<1>2. panel \in [Panels -> PanelWork] /\ panel[t].pc = "add" /\ \A s \in Panels : s = t
  BY DEF KeysInv, VaultTypes, AddKey, Awaits, OneAdministrator
<1>3. p \in Providers /\ k \in Keys /\ panel[t].read = pools[p]
  BY <1>2, KeyVaultAssumption DEF KeysInv, RequestInv, Keys
<1>4. pools \in [Providers -> Seq(Keys)]
  BY DEF KeysInv, VaultTypes
<1>5. pools' = [pools EXCEPT ![p] = IF Contains(pools[p], k) THEN pools[p]
                                                    ELSE Append(pools[p], k)]
  BY <1>3 DEF AddKey
<1>6. /\ pools' \in [Providers -> Seq(Keys)]
      /\ Contains(pools'[p], k)
      /\ \A q \in Providers : Atoms(pools[q]) \subseteq Atoms(pools'[q])
      /\ \A q \in Providers : q # p => pools'[q] = pools[q]
  BY <1>3, <1>4, <1>5, AppendedKey
<1> HIDE DEF p, k
<1>7. VaultTypes'
  <2>1. panel' \in [Panels -> PanelWork]
    BY <1>1, <1>2 DEF PanelWork, VaultSteps
  <2> QED  BY <1>1, <1>6, <2>1 DEF KeysInv, VaultTypes
<1>8. panel'[t].pc = "first" /\ panel'[t].provider = p /\ panel'[t].key = k
  BY <1>1, <1>2 DEF p, k, PanelWork
<1>9. RequestInv'
  BY <1>2, <1>3, <1>6, <1>8 DEF RequestInv
<1>10. PrimaryInv'
  BY <1>1, <1>2, <1>6, <1>8 DEF PrimaryInv, KeysInv
<1>11. VaultInv' /\ KeptInv'
  BY <1>1, <1>6 DEF VaultInv, KeptInv, KeysInv
<1>12. NoKeyLost'
  BY <1>1, SameLoad DEF NoKeyLost, KeysInv
<1> QED  BY <1>7, <1>9, <1>10, <1>11, <1>12 DEF KeysInv

LEMMA RequestRemoveKeeps ==
    ASSUME KeysInv, OneAdministrator, NEW t \in Panels, NEW p \in Providers,
           NEW i \in 1 .. Len(pools[p]), RequestRemove(t, p, i)
    PROVE  KeysInv'
<1>1. panel' = [panel EXCEPT ![t] = [pc |-> "remove", provider |-> p, key |-> NoKey,
                                     index |-> i, read |-> pools[p], snapshot |-> <<>>]]
  BY DEF RequestRemove, Editing
<1>2. UNCHANGED <<env, machineKey, pools, primary, vault>>
      /\ kept' = [kept EXCEPT ![p] = @ \ ToSet(pools[p][i])]
  BY DEF RequestRemove, memory
<1>3. panel \in [Panels -> PanelWork] /\ panel[t].pc = "idle" /\ \A s \in Panels : s = t
  BY DEF KeysInv, VaultTypes, RequestRemove, Awaits, OneAdministrator
<1>4. pools[p] \in Seq(Seq(Alphabet)) /\ i \in Nat /\ NoKey \in Seq(Alphabet)
  BY KeyVaultAssumption, KeysAreSequences DEF KeysInv, VaultTypes
<1>5. /\ kept' \in [Providers -> SUBSET Alphabet]
      /\ \A q \in Providers : kept'[q] \subseteq kept[q]
      /\ kept'[p] \cap ToSet(pools[p][i]) = {}
  BY <1>2 DEF KeysInv, VaultTypes
<1>6. VaultTypes'
  <2>1. panel' \in [Panels -> PanelWork]
    BY <1>1, <1>3, <1>4 DEF PanelWork, VaultSteps
  <2> QED  BY <1>2, <1>5, <2>1 DEF KeysInv, VaultTypes
<1>7. RequestInv'
  BY <1>1, <1>2, <1>3, <1>5 DEF RequestInv
<1>8. PrimaryInv'
  BY <1>1, <1>2, <1>3 DEF PrimaryInv, KeysInv
<1>9. VaultInv' /\ KeptInv'
  BY <1>2, <1>5 DEF VaultInv, KeptInv, KeysInv
<1>10. NoKeyLost'
  BY <1>2, <1>5, SameLoad DEF NoKeyLost, KeysInv
<1> QED  BY <1>6, <1>7, <1>8, <1>9, <1>10 DEF KeysInv

LEMMA RemoveKeyKeeps ==
    ASSUME KeysInv, OneAdministrator, NEW t \in Panels, RemoveKey(t)
    PROVE  KeysInv'
<1> DEFINE p == panel[t].provider
           i == panel[t].index
<1>1. panel' = [panel EXCEPT ![t].pc = "first"]
      /\ UNCHANGED <<env, machineKey, primary, vault, kept>>
  BY DEF RemoveKey, Go
<1>2. panel \in [Panels -> PanelWork] /\ panel[t].pc = "remove" /\ \A s \in Panels : s = t
  BY DEF KeysInv, VaultTypes, RemoveKey, Awaits, OneAdministrator
<1>3. /\ p \in Providers /\ panel[t].read = pools[p] /\ i \in 1 .. Len(pools[p])
      /\ kept[p] \cap ToSet(pools[p][i]) = {} /\ panel[t].key = NoKey
  BY <1>2 DEF KeysInv, RequestInv
<1>4. pools \in [Providers -> Seq(Keys)] /\ \A q \in Providers : kept[q] \subseteq Atoms(pools[q])
  BY DEF KeysInv, VaultTypes, KeptInv
<1>5. pools' = [pools EXCEPT ![p] = RemoveAt(pools[p], i)]
  BY <1>3 DEF RemoveKey
<1>6. /\ RemoveAt(pools[p], i) \in Seq(Keys)
      /\ Atoms(pools[p]) \ ToSet(pools[p][i]) \subseteq Atoms(RemoveAt(pools[p], i))
  BY <1>3, <1>4, RemovedKey
<1> HIDE DEF p, i
<1>7. /\ pools' \in [Providers -> Seq(Keys)]
      /\ \A q \in Providers : kept[q] \subseteq Atoms(pools'[q])
      /\ \A q \in Providers : q # p => pools'[q] = pools[q]
  BY <1>3, <1>4, <1>5, <1>6
<1>8. VaultTypes'
  <2>1. panel' \in [Panels -> PanelWork]
    BY <1>1, <1>2 DEF PanelWork, VaultSteps
  <2> QED  BY <1>1, <1>7, <2>1 DEF KeysInv, VaultTypes
<1>9. panel'[t].pc = "first" /\ panel'[t].provider = p /\ panel'[t].key = NoKey
  BY <1>1, <1>2, <1>3 DEF p, PanelWork
<1>10. RequestInv'
  BY <1>2, <1>3, <1>9 DEF RequestInv
<1>11. PrimaryInv'
  BY <1>1, <1>2, <1>7, <1>9 DEF PrimaryInv, KeysInv
<1>12. VaultInv' /\ KeptInv'
  BY <1>1, <1>7 DEF VaultInv, KeptInv, KeysInv
<1>13. NoKeyLost'
  BY <1>1, SameLoad DEF NoKeyLost, KeysInv
<1> QED  BY <1>8, <1>10, <1>11, <1>12, <1>13 DEF KeysInv

LEMMA FirstKeeps ==
    ASSUME KeysInv, OneAdministrator, NEW t \in Panels, First(t)
    PROVE  KeysInv'
<1> DEFINE p == panel[t].provider
<1>1. UNCHANGED <<env, machineKey, pools, primary, vault, kept>>
  BY DEF First, memory
<1>2. panel \in [Panels -> PanelWork] /\ panel[t].pc = "first" /\ \A s \in Panels : s = t
  BY DEF KeysInv, VaultTypes, First, Awaits, OneAdministrator
<1>3. /\ p \in Providers /\ pools[p] \in Seq(Keys)
      /\ panel[t].key # NoKey => Contains(pools[p], panel[t].key)
  BY <1>2 DEF KeysInv, RequestInv, VaultTypes
<1>4. ~ (pools[p] = <<>> /\ panel[t].key # NoKey)
  BY <1>3 DEF Contains
<1>5. panel' = [panel EXCEPT ![t].pc = "primary", ![t].read = <<FirstKey(pools[p])>>]
  BY <1>4 DEF First
<1>6. /\ panel'[t].pc = "primary" /\ panel'[t].provider = p
      /\ panel'[t].key = panel[t].key /\ panel'[t].read = <<FirstKey(pools[p])>>
  BY <1>5, <1>2 DEF PanelWork
<1>7. VaultTypes'
  <2>1. FirstKey(pools[p]) \in Seq(Alphabet)
    BY <1>3, FirstOfKeys
  <2>2. /\ <<FirstKey(pools[p])>> \in Seq(Seq(Alphabet))
        /\ panel[t] \in PanelWork
    BY <1>2, <2>1
  <2>3. [panel[t] EXCEPT !.pc = "primary", !.read = <<FirstKey(pools[p])>>] \in PanelWork
    BY <2>2 DEF PanelWork, VaultSteps
  <2>4. panel' \in [Panels -> PanelWork]
    BY <1>2, <1>5, <2>3
  <2> QED  BY <1>1, <2>4 DEF KeysInv, VaultTypes
<1> HIDE DEF p
<1>8. RequestInv'
  BY <1>1, <1>2, <1>3, <1>6 DEF RequestInv
<1>9. PrimaryInv'
  BY <1>1, <1>2, <1>6 DEF PrimaryInv, KeysInv, p
<1>10. VaultInv' /\ KeptInv'
  BY <1>1 DEF VaultInv, KeptInv, KeysInv
<1>11. NoKeyLost'
  BY <1>1, SameLoad DEF NoKeyLost, KeysInv
<1> QED  BY <1>7, <1>8, <1>9, <1>10, <1>11 DEF KeysInv

LEMMA SetPrimaryKeeps ==
    ASSUME KeysInv, OneAdministrator, NEW t \in Panels, SetPrimary(t)
    PROVE  KeysInv'
<1> DEFINE p == panel[t].provider
<1>1. panel' = [panel EXCEPT ![t].pc = "snapshot"]
      /\ UNCHANGED <<env, machineKey, pools, vault, kept>>
  BY DEF SetPrimary, Go
<1>2. panel \in [Panels -> PanelWork] /\ panel[t].pc = "primary" /\ \A s \in Panels : s = t
  BY DEF KeysInv, VaultTypes, SetPrimary, Awaits, OneAdministrator
<1>3. /\ p \in Providers /\ pools[p] \in Seq(Keys) /\ panel[t].read = <<FirstKey(pools[p])>>
      /\ panel[t].key # NoKey => Contains(pools[p], panel[t].key)
  BY <1>2 DEF KeysInv, RequestInv, VaultTypes
<1>4. primary' = [primary EXCEPT ![p] = FirstKey(pools[p])]
  BY <1>3 DEF SetPrimary
<1>5. primary \in [Providers -> Seq(Alphabet)]
  BY DEF KeysInv, VaultTypes
<1>6. panel'[t].pc = "snapshot" /\ panel'[t].provider = p /\ panel'[t].key = panel[t].key
  BY <1>1, <1>2 DEF PanelWork
<1>7. VaultTypes'
  <2>1. primary' \in [Providers -> Seq(Alphabet)]
    BY <1>3, <1>4, <1>5, FirstOfKeys
  <2>2. panel' \in [Panels -> PanelWork]
    BY <1>1, <1>2 DEF PanelWork, VaultSteps
  <2> QED  BY <1>1, <2>1, <2>2 DEF KeysInv, VaultTypes
<1>8. RequestInv'
  BY <1>1, <1>2, <1>3, <1>6 DEF RequestInv
<1>9. PrimaryInv'
  <2>1. \A q \in Providers : q # p => primary'[q] = primary[q] /\ primary[q] = FirstKey(pools[q])
    BY <1>2, <1>4, <1>5 DEF PrimaryInv, KeysInv
  <2>2. primary'[p] = FirstKey(pools[p])
    BY <1>3, <1>4, <1>5
  <2> QED  BY <1>1, <2>1, <2>2 DEF PrimaryInv
<1>10. VaultInv' /\ KeptInv'
  BY <1>1 DEF VaultInv, KeptInv, KeysInv
<1>11. NoKeyLost'
  BY <1>1, SameLoad DEF NoKeyLost, KeysInv
<1> QED  BY <1>7, <1>8, <1>9, <1>10, <1>11 DEF KeysInv

LEMMA RequestUpdateKeeps ==
    ASSUME KeysInv, OneAdministrator, NEW t \in Panels, RequestUpdateConfig(t)
    PROVE  KeysInv'
<1>1. panel' = [panel EXCEPT ![t].pc = "snapshot"]
      /\ UNCHANGED <<env, machineKey, pools, primary, vault, kept>>
  BY DEF RequestUpdateConfig, memory
<1>2. panel \in [Panels -> PanelWork] /\ panel[t].pc = "idle" /\ panel[t].key = NoKey
      /\ \A s \in Panels : s = t
  BY DEF KeysInv, VaultTypes, RequestInv, RequestUpdateConfig, Awaits, OneAdministrator
<1>3. panel'[t].pc = "snapshot" /\ panel'[t].key = NoKey
  BY <1>1, <1>2 DEF PanelWork
<1>4. VaultTypes'
  <2>1. panel' \in [Panels -> PanelWork]
    BY <1>1, <1>2 DEF PanelWork, VaultSteps
  <2> QED  BY <1>1, <2>1 DEF KeysInv, VaultTypes
<1>5. RequestInv'
  BY <1>2, <1>3 DEF RequestInv
<1>6. PrimaryInv'
  BY <1>1, <1>2 DEF PrimaryInv, KeysInv
<1>7. VaultInv' /\ KeptInv'
  BY <1>1 DEF VaultInv, KeptInv, KeysInv
<1>8. NoKeyLost'
  BY <1>1, SameLoad DEF NoKeyLost, KeysInv
<1> QED  BY <1>4, <1>5, <1>6, <1>7, <1>8 DEF KeysInv

LEMMA SnapshotKeeps ==
    ASSUME KeysInv, OneAdministrator, NEW t \in Panels, Snapshot(t)
    PROVE  KeysInv'
<1>1. panel' = [panel EXCEPT ![t].pc = "save", ![t].snapshot = Sealed]
      /\ UNCHANGED <<env, machineKey, pools, primary, vault, kept>>
  BY DEF Snapshot, Sealed, memory
<1>2. panel \in [Panels -> PanelWork] /\ panel[t].pc = "snapshot" /\ \A s \in Panels : s = t
  BY DEF KeysInv, VaultTypes, Snapshot, Awaits, OneAdministrator
<1>3. Sealed \in [Providers -> SealedKeys]
  BY SealedTyped DEF KeysInv
<1>4. [panel[t] EXCEPT !.pc = "save", !.snapshot = Sealed] \in PanelWork
  BY <1>2, <1>3 DEF PanelWork, VaultSteps
<1>5. panel' \in [Panels -> PanelWork]
  BY <1>1, <1>2, <1>4
<1>6. /\ panel'[t].pc = "save" /\ panel'[t].snapshot = Sealed
      /\ panel'[t].provider = panel[t].provider /\ panel'[t].key = panel[t].key
  BY <1>1, <1>2 DEF PanelWork
<1>7. VaultTypes'
  BY <1>1, <1>5 DEF KeysInv, VaultTypes
<1>8. Sealed' = Sealed
  BY <1>1 DEF Sealed
<1>9. RequestInv'
  BY <1>1, <1>2, <1>6, <1>8 DEF RequestInv, KeysInv
<1>10. PrimaryInv'
  BY <1>1, <1>2 DEF PrimaryInv, KeysInv
<1>11. VaultInv' /\ KeptInv'
  BY <1>1 DEF VaultInv, KeptInv, KeysInv
<1>12. NoKeyLost'
  BY <1>1, SameLoad DEF NoKeyLost, KeysInv
<1> QED  BY <1>7, <1>9, <1>10, <1>11, <1>12 DEF KeysInv

\* A vault sealed of a memory in order gives back what its pools are made of.
LEMMA SealedOrders ==
    ASSUME VaultTypes, \A p \in Providers : primary[p] = FirstKey(pools[p]),
           NEW p \in Providers, NEW e \in Variables
    PROVE  /\ Agreeing(Sealed[p])
           /\ Atoms(pools[p]) \subseteq Atoms(Load(e, Sealed[p]).pool)
           /\ pools[p] \in Seq(OneAtom) /\ pools[p] # <<>>
                 => Load(e, Sealed[p]) = [primary |-> primary[p], pool |-> pools[p]]
<1>1. pools[p] \in Seq(Keys)
      /\ Sealed[p] = [primary |-> FirstKey(pools[p]), pool |-> Join(pools[p])]
      /\ primary[p] = FirstKey(pools[p])
  BY DEF VaultTypes, Sealed
<1> QED  BY <1>1, SealedMemory

\* A save: the vault is the memory's, and all that is relied on is in there.
LEMMA SaveKeeps ==
    ASSUME KeysInv, OneAdministrator, NEW t \in Panels, Save(t)
    PROVE  KeysInv'
<1> DEFINE p == panel[t].provider
           k == panel[t].key
<1>1. panel \in [Panels -> PanelWork] /\ panel[t].pc = "save" /\ \A s \in Panels : s = t
  BY DEF KeysInv, VaultTypes, Save, Awaits, OneAdministrator
<1>2. /\ panel[t].snapshot = Sealed
      /\ k # NoKey => p \in Providers /\ Contains(pools[p], k)
  BY <1>1 DEF KeysInv, RequestInv
<1>3. UNCHANGED <<env, machineKey, pools, primary>>
  BY DEF Save, memory
<1>4. vault' = [sealed |-> machineKey, keys |-> Sealed] /\ Sealed' = Sealed
  BY <1>2, <1>3 DEF Save, Sealed
<1>5. \A q \in Providers : primary[q] = FirstKey(pools[q])
  BY <1>1 DEF PrimaryInv, KeysInv
<1>6. Sealed \in [Providers -> SealedKeys] /\ machineKey \in Nat
  BY SealedTyped DEF KeysInv, VaultTypes
<1>7. ASSUME NEW q \in Providers
      PROVE  /\ Agreeing(Sealed[q])
             /\ Atoms(pools[q]) \subseteq Atoms(Load(env[q], Sealed[q]).pool)
  BY <1>5, SealedOrders DEF KeysInv, VaultTypes
<1>8. /\ kept' \in [Providers -> SUBSET Alphabet]
      /\ \A q \in Providers : kept'[q] \subseteq Atoms(pools[q])
  <2>1. kept \in [Providers -> SUBSET Alphabet] /\ k \in Seq(Alphabet)
        /\ \A q \in Providers : kept[q] \subseteq Atoms(pools[q])
    BY <1>1 DEF KeysInv, VaultTypes, KeptInv, PanelWork
  <2>2. CASE k = NoKey
    BY <2>1, <2>2 DEF Save
  <2>3. CASE k # NoKey
    <3>1. ToSet(k) \subseteq Atoms(pools[p]) /\ ToSet(k) \subseteq Alphabet /\ p \in Providers
      <4>1. ToSet(k) \subseteq Alphabet
        BY <2>1 DEF ToSet
      <4> QED  BY <4>1, <1>2, <2>3, AtomsOfMember
    <3>2. kept' = [kept EXCEPT ![p] = @ \cup ToSet(k)]
      BY <2>3 DEF Save
    <3> HIDE DEF p, k
    <3> QED  BY <2>1, <3>1, <3>2
  <2> QED  BY <2>2, <2>3
<1>9. /\ panel' \in [Panels -> PanelWork]
      /\ panel'[t].pc \in {"idle", "env"}
      /\ panel'[t].pc = "idle" => panel'[t].provider = NoKey /\ panel'[t].key = NoKey
  <2>1. NoRequest \in PanelWork
    BY KeyVaultAssumption DEF NoRequest, PanelWork, VaultSteps
  <2>2. CASE IsUpdate(t)
    <3>1. panel' = [panel EXCEPT ![t].pc = "env"]
      BY <2>2 DEF Save, Go
    <3> QED  BY <1>1, <3>1 DEF PanelWork, VaultSteps
  <2>3. CASE ~ IsUpdate(t)
    <3>1. panel' = [panel EXCEPT ![t] = NoRequest]
      BY <2>3 DEF Save, Reply
    <3> QED  BY <1>1, <2>1, <3>1 DEF NoRequest
  <2> QED  BY <2>2, <2>3
<1>10. VaultTypes'
  <2>1. vault' \in [sealed : Nat, keys : [Providers -> SealedKeys]]
    BY <1>4, <1>6
  <2> QED  BY <1>3, <1>8, <1>9, <2>1 DEF KeysInv, VaultTypes
<1>11. RequestInv'
  BY <1>1, <1>3, <1>4, <1>9 DEF RequestInv
<1>12. PrimaryInv'
  BY <1>3, <1>5 DEF PrimaryInv
<1>13. VaultInv' /\ KeptInv'
  BY <1>3, <1>4, <1>7, <1>8 DEF VaultInv, KeptInv
<1>14. NoKeyLost'
  <2>1. \A q \in Providers : Loaded(q)' = Load(env[q], Sealed[q])
    BY <1>3, <1>4 DEF Loaded, LoadedWith
  <2> QED  BY <2>1, <1>7, <1>8 DEF NoKeyLost
<1> QED  BY <1>10, <1>11, <1>12, <1>13, <1>14 DEF KeysInv

\* The keys may leave the environment: the vault has been sealed before.
LEMMA WriteEnvKeeps ==
    ASSUME KeysInv, OneAdministrator, NEW t \in Panels, WriteEnv(t)
    PROVE  KeysInv'
<1>1. panel \in [Panels -> PanelWork] /\ panel[t].pc = "env" /\ \A s \in Panels : s = t
  BY DEF KeysInv, VaultTypes, WriteEnv, Awaits, OneAdministrator
<1>2. panel' = [panel EXCEPT ![t] = NoRequest]
      /\ UNCHANGED <<machineKey, pools, primary, vault, kept>>
  BY DEF WriteEnv, Reply, memory
<1>3. vault = [sealed |-> machineKey, keys |-> Sealed]
  BY <1>1 DEF KeysInv, RequestInv
<1>4. env' \in [Providers -> Variables]
  <2>1. NoEnv \in Variables
    BY KeyVaultAssumption DEF NoEnv, Variables
  <2> QED  BY <2>1 DEF WriteEnv, KeysInv, VaultTypes
<1>5. \A q \in Providers : primary[q] = FirstKey(pools[q])
  BY <1>1 DEF PrimaryInv, KeysInv
<1>6. NoRequest \in PanelWork
  BY KeyVaultAssumption DEF NoRequest, PanelWork, VaultSteps
<1>7. VaultTypes'
  BY <1>1, <1>2, <1>4, <1>6 DEF KeysInv, VaultTypes
<1>8. RequestInv'
  BY <1>1, <1>2 DEF RequestInv, NoRequest
<1>9. PrimaryInv'
  BY <1>2, <1>5 DEF PrimaryInv
<1>10. VaultInv' /\ KeptInv'
  BY <1>2 DEF VaultInv, KeptInv, KeysInv
<1>11. NoKeyLost'
  <2>1. \A q \in Providers : Loaded(q)' = Load(env'[q], Sealed[q])
    BY <1>2, <1>3 DEF Loaded, LoadedWith
  <2>2. ASSUME NEW q \in Providers
        PROVE  Atoms(pools[q]) \subseteq Atoms(Load(env'[q], Sealed[q]).pool)
    BY <1>4, <1>5, SealedOrders DEF KeysInv
  <2> QED  BY <2>1, <2>2, <1>2 DEF NoKeyLost, KeptInv, KeysInv
<1> QED  BY <1>7, <1>8, <1>9, <1>10, <1>11 DEF KeysInv

\* A start puts any memory in order, whatever request it cut off.
LEMMA RebootKeeps ==
    ASSUME KeysInv, Reboot
    PROVE  KeysInv'
<1>1. /\ env' = env /\ vault' = vault /\ machineKey' \in Nat
      /\ panel' = [t \in Panels |-> NoRequest]
  BY DEF Reboot, KeysInv, VaultTypes
<1>2. ASSUME NEW p \in Providers
      PROVE  /\ pools'[p] = LoadedWith(machineKey', p).pool
             /\ primary'[p] = LoadedWith(machineKey', p).primary
             /\ pools'[p] \in Seq(Keys) /\ primary'[p] \in Seq(Alphabet)
             /\ primary'[p] = FirstKey(pools'[p])
             /\ Loaded(p)' = LoadedWith(machineKey', p)
  <2>1. /\ pools'[p] = LoadedWith(machineKey', p).pool
        /\ primary'[p] = LoadedWith(machineKey', p).primary
    BY DEF Reboot
  <2>2. Loaded(p)' = LoadedWith(machineKey', p)
    BY <1>1 DEF Loaded, LoadedWith
  <2>3. /\ LoadedWith(machineKey', p).pool \in Seq(Keys)
        /\ LoadedWith(machineKey', p).primary \in Seq(Alphabet)
        /\ LoadedWith(machineKey', p).primary = FirstKey(LoadedWith(machineKey', p).pool)
    BY LoadedOrders DEF KeysInv
  <2> QED  BY <2>1, <2>2, <2>3
<1>3. ASSUME NEW p \in Providers
      PROVE  kept'[p] \subseteq Atoms(pools'[p]) /\ kept'[p] \subseteq kept[p]
  <2>1. CASE machineKey' = machineKey
    <3>1. kept' = kept /\ pools'[p] = Loaded(p).pool
      BY <2>1, <1>2 DEF Reboot, Loaded
    <3> QED  BY <3>1 DEF KeysInv, NoKeyLost
  <2>2. CASE machineKey' # machineKey
    BY <2>2 DEF Reboot
  <2> QED  BY <2>1, <2>2
<1>4. VaultTypes'
  <2>1. NoRequest \in PanelWork
    BY KeyVaultAssumption DEF NoRequest, PanelWork, VaultSteps
  <2>2. panel' \in [Panels -> PanelWork]
    BY <1>1, <2>1
  <2>3. pools' \in [Providers -> Seq(Keys)] /\ primary' \in [Providers -> Seq(Alphabet)]
    <3>1. pools' = [p \in Providers |-> pools'[p]] /\ primary' = [p \in Providers |-> primary'[p]]
      BY DEF Reboot
    <3> QED  BY <3>1, <1>2
  <2>4. kept' \in [Providers -> SUBSET Alphabet]
    BY DEF Reboot, KeysInv, VaultTypes
  <2> QED  BY <1>1, <2>2, <2>3, <2>4 DEF KeysInv, VaultTypes
<1>5. RequestInv'
  BY <1>1 DEF RequestInv, NoRequest
<1>6. PrimaryInv'
  BY <1>2 DEF PrimaryInv
<1>7. VaultInv' /\ KeptInv'
  BY <1>1, <1>3 DEF VaultInv, KeptInv, KeysInv
<1>8. NoKeyLost'
  BY <1>2, <1>3 DEF NoKeyLost
<1> QED  BY <1>4, <1>5, <1>6, <1>7, <1>8 DEF KeysInv

\* The invariant of the keys is inductive.
LEMMA KeysInductive ==
    ASSUME KeysInv, OneAdministrator, [VaultNext]_vaultVars
    PROVE  KeysInv'
<1>1. CASE UNCHANGED vaultVars
  <2>1. UNCHANGED <<env, machineKey, pools, primary, vault, panel, kept>>
    BY <1>1 DEF vaultVars, memory
  <2>2. Sealed' = Sealed
    BY <2>1 DEF Sealed
  <2>3. VaultTypes' /\ RequestInv' /\ PrimaryInv' /\ VaultInv' /\ KeptInv'
    BY <2>1, <2>2 DEF KeysInv, VaultTypes, RequestInv, PrimaryInv, VaultInv, KeptInv
  <2>4. NoKeyLost'
    BY <2>1, SameLoad DEF NoKeyLost, KeysInv
  <2> QED  BY <2>3, <2>4 DEF KeysInv
<1>2. CASE Reboot
  BY <1>2, RebootKeeps
<1>3. ASSUME NEW t \in Panels, PanelRequest(t) \/ Handler(t)  PROVE KeysInv'
  BY <1>3, RequestAddKeeps, AddKeyKeeps, RequestRemoveKeeps, RemoveKeyKeeps, FirstKeeps,
     SetPrimaryKeeps, RequestUpdateKeeps, SnapshotKeeps, SaveKeeps, WriteEnvKeeps
     DEF PanelRequest, Handler
<1> QED  BY <1>1, <1>2, <1>3 DEF VaultNext

-----------------------------------------------------------------------------
(* What a restart reloads, for keys without a comma *)

LEMMA FirstOfSingles ==
    ASSUME NEW pool \in Seq(OneAtom)
    PROVE  FirstKey(pool) \in OneAtom \cup {<<>>}
BY KeyVaultAssumption DEF FirstKey

LEMMA PrependedSingle ==
    ASSUME NEW pool \in Seq(OneAtom), NEW k \in OneAtom
    PROVE  <<k>> \o pool \in Seq(OneAtom)
OBVIOUS

LEMMA LoadedSingles ==
    ASSUME NEW e \in Variables, e.single \in OneAtom \cup {<<>>},
           NEW v \in SealedKeys, v.primary \in OneAtom \cup {<<>>}
    PROVE  Load(e, v).pool \in Seq(OneAtom)
<1>1. e.pool \in Seq(Alphabet) /\ v.pool \in Seq(Alphabet)
  BY DEF Variables, SealedKeys
<1>2. ParseKeyPool(e.pool) \in Seq(OneAtom) /\ ParseKeyPool(v.pool) \in Seq(OneAtom)
  BY <1>1, ParsedKeys
<1>3. BuildKeyPool(e) \in Seq(OneAtom)
  BY <1>2, PrependedSingle, KeyVaultAssumption DEF BuildKeyPool
<1> DEFINE first == IF v.primary = NoKey THEN FirstKey(BuildKeyPool(e)) ELSE v.primary
           pool == IF v.pool = <<>> THEN BuildKeyPool(e) ELSE ParseKeyPool(v.pool)
<1>4. first \in OneAtom \cup {<<>>} /\ pool \in Seq(OneAtom)
  BY <1>2, <1>3, FirstOfSingles
<1>5. Load(e, v).pool = EnsurePrimaryInPool(pool, first)
  BY DEF Load
<1> HIDE DEF first, pool
<1> QED  BY <1>4, <1>5, PrependedSingle, KeyVaultAssumption DEF EnsurePrimaryInPool

LEMMA LoadedWithSingles ==
    ASSUME VaultTypes, SinglesInv, NEW p \in Providers, NEW key
    PROVE  LoadedWith(key, p).pool \in Seq(OneAtom)
<1>1. /\ EmptyVault.keys[p] \in SealedKeys /\ EmptyVault.keys[p].primary = <<>>
      /\ vault.keys[p] \in SealedKeys /\ env[p] \in Variables
  BY KeyVaultAssumption DEF EmptyVault, SealedKeys, VaultTypes
<1>2. env[p].single \in OneAtom \cup {<<>>} /\ vault.keys[p].primary \in OneAtom \cup {<<>>}
  BY DEF SinglesInv
<1> QED  BY <1>1, <1>2, LoadedSingles DEF LoadedWith

LEMMA ShortKeys ==
    ASSUME NEW k \in Seq(Alphabet), Len(k) \in {0, 1}
    PROVE  k \in OneAtom \cup {<<>>}
<1>1. CASE Len(k) = 0
  BY <1>1
<1>2. CASE Len(k) = 1
  <2>1. k = <<k[1]>> /\ k[1] \in Alphabet
    BY <1>2
  <2> QED  BY <2>1 DEF OneAtom
<1> QED  BY <1>1, <1>2

LEMMA SinglesStart ==
    ASSUME VaultInit, NoCommas
    PROVE  SinglesInv /\ ReloadInv
<1>0. KeysInv
  BY VaultStart
<1>1. ASSUME NEW p \in Providers
      PROVE  env[p].single \in OneAtom \cup {<<>>} /\ vault.keys[p].primary \in OneAtom \cup {<<>>}
  <2>1. env[p].single \in Seq(Alphabet) /\ Len(env[p].single) \in {0, 1}
    BY KeyVaultAssumption DEF VaultInit, NoCommas
  <2>2. vault.keys[p].primary = <<>>
    BY KeyVaultAssumption DEF VaultInit, EmptyVault
  <2> QED  BY <2>1, <2>2, ShortKeys
<1>2. ASSUME NEW p \in Providers  PROVE pools[p] \in Seq(OneAtom)
  <2>1. /\ env[p] \in Variables
        /\ EmptyVault.keys[p] \in SealedKeys /\ EmptyVault.keys[p].primary = <<>>
    BY <1>0, KeyVaultAssumption DEF EmptyVault, SealedKeys, KeysInv, VaultTypes
  <2>2. vault.keys[p] = EmptyVault.keys[p]
    BY DEF VaultInit
  <2>3. Loaded(p).pool \in Seq(OneAtom)
    BY <2>1, <2>2, <1>1, LoadedSingles DEF Loaded, LoadedWith
  <2> QED  BY <2>3 DEF VaultInit
<1>3. \A p \in Providers : Reloads(p)
  BY DEF VaultInit, Reloads
<1> QED  BY <1>1, <1>2, <1>3 DEF SinglesInv, ReloadInv

\* No step makes a key with a comma of keys without one.
LEMMA SinglesInductive ==
    ASSUME KeysInv, SinglesInv, OneAdministrator, NoCommas, [VaultNext]_vaultVars
    PROVE  SinglesInv'
<1>0. VaultTypes
  BY DEF KeysInv
<1>1. CASE UNCHANGED <<env, pools, vault>>
  BY <1>1 DEF SinglesInv
<1>2. CASE Reboot
  <2>1. env' = env /\ vault' = vault
    BY <1>2 DEF Reboot
  <2>2. \A p \in Providers : pools'[p] \in Seq(OneAtom)
    BY <1>0, <1>2, LoadedWithSingles DEF Reboot
  <2> QED  BY <2>1, <2>2 DEF SinglesInv
<1>3. ASSUME NEW t \in Panels, AddKey(t)  PROVE SinglesInv'
  <2> DEFINE p == panel[t].provider
             k == panel[t].key
  <2>1. p \in Providers /\ k \in Pasted /\ panel[t].read = pools[p]
    BY <1>3 DEF KeysInv, RequestInv, AddKey, Awaits
  <2>2. k \in OneAtom
    BY <2>1, ShortKeys, KeyVaultAssumption DEF NoCommas
  <2>3. pools' = [pools EXCEPT ![p] = IF Contains(pools[p], k) THEN pools[p]
                                                      ELSE Append(pools[p], k)]
        /\ UNCHANGED <<env, vault>>
    BY <1>3, <2>1 DEF AddKey
  <2> HIDE DEF p, k
  <2>4. \A q \in Providers : pools[q] \in Seq(OneAtom)
    BY DEF SinglesInv
  <2>5. \A q \in Providers : pools'[q] \in Seq(OneAtom)
    BY <1>0, <2>1, <2>2, <2>3, <2>4 DEF VaultTypes
  <2> QED  BY <2>3, <2>5 DEF SinglesInv
<1>4. ASSUME NEW t \in Panels, RemoveKey(t)  PROVE SinglesInv'
  <2> DEFINE p == panel[t].provider
             i == panel[t].index
  <2>1. p \in Providers /\ panel[t].read = pools[p] /\ i \in 1 .. Len(pools[p])
    BY <1>4 DEF KeysInv, RequestInv, RemoveKey, Awaits
  <2>2. pools' = [pools EXCEPT ![p] = RemoveAt(pools[p], i)] /\ UNCHANGED <<env, vault>>
    BY <1>4, <2>1 DEF RemoveKey
  <2>3. RemoveAt(pools[p], i) \in Seq(OneAtom)
    BY <2>1, RemovedKey DEF SinglesInv
  <2> HIDE DEF p, i
  <2>4. \A q \in Providers : pools'[q] \in Seq(OneAtom)
    BY <1>0, <2>1, <2>2, <2>3 DEF VaultTypes, SinglesInv
  <2> QED  BY <2>2, <2>4 DEF SinglesInv
<1>5. ASSUME NEW t \in Panels, Save(t)  PROVE SinglesInv'
  <2>1. panel[t].pc = "save" /\ \A s \in Panels : s = t
    BY <1>5 DEF Save, Awaits, OneAdministrator
  <2>2. panel[t].snapshot = Sealed
    BY <2>1 DEF KeysInv, RequestInv
  <2>3. vault'.keys = Sealed /\ env' = env /\ pools' = pools
    BY <1>5, <2>2 DEF Save, memory
  <2>4. \A p \in Providers : vault'.keys[p].primary = FirstKey(pools[p])
    BY <2>1, <2>3 DEF KeysInv, PrimaryInv, Sealed
  <2> QED  BY <2>3, <2>4, FirstOfSingles DEF SinglesInv
<1>6. ASSUME NEW t \in Panels, WriteEnv(t)  PROVE SinglesInv'
  BY <1>6, KeyVaultAssumption DEF WriteEnv, memory, SinglesInv, NoEnv
<1>7. ASSUME NEW t \in Panels, PanelRequest(t) \/ First(t) \/ SetPrimary(t) \/ Snapshot(t)
      PROVE  UNCHANGED <<env, pools, vault>>
  BY <1>7 DEF PanelRequest, RequestAdd, RequestRemove, RequestUpdateConfig, First,
     SetPrimary, Snapshot, memory
<1> QED  BY <1>1, <1>2, <1>3, <1>4, <1>5, <1>6, <1>7
         DEF VaultNext, Handler, vaultVars, memory

\* The steps between a change of the memory and the save of it.
Unsaved == {"first", "primary", "snapshot", "save"}

\* A request that has changed the memory is under way until its save.
LEMMA ReloadInductive ==
    ASSUME KeysInv, SinglesInv, ReloadInv, OneAdministrator, [VaultNext]_vaultVars
    PROVE  ReloadInv'
<1>0. VaultTypes
  BY DEF KeysInv
<1>1. CASE UNCHANGED vaultVars
  <2>1. UNCHANGED <<env, machineKey, pools, primary, vault, panel>>
    BY <1>1 DEF vaultVars, memory
  <2> QED  BY <2>1, SameLoad DEF ReloadInv, Reloads
<1>2. CASE Reboot
  <2>1. \A p \in Providers : Loaded(p)' = LoadedWith(machineKey', p)
    BY <1>2 DEF Reboot, Loaded, LoadedWith
  <2>2. \A p \in Providers : Reloads(p)'
    BY <2>1, <1>2 DEF Reboot, Reloads
  <2> QED  BY <2>2 DEF ReloadInv
<1>3. ASSUME NEW t \in Panels, PanelRequest(t) \/ First(t) \/ Snapshot(t)  PROVE ReloadInv'
  <2>1. UNCHANGED <<env, machineKey, pools, primary, vault>>
    BY <1>3 DEF PanelRequest, RequestAdd, RequestRemove, RequestUpdateConfig, First,
       Snapshot, memory
  <2>2. \A p \in Providers : panel[t].pc \in Unsaved /\ panel[t].provider = p
           => panel'[t].pc \in Unsaved /\ panel'[t].provider = p
    <3>1. CASE PanelRequest(t)
      BY <3>1 DEF PanelRequest, RequestAdd, RequestRemove, RequestUpdateConfig, Awaits, Unsaved
    <3>2. CASE First(t)
      <4>1. panel[t].pc = "first" /\ panel[t] \in PanelWork
        BY <1>0, <3>2 DEF First, Awaits, VaultTypes
      <4>2. panel[t].key # NoKey => Contains(pools[panel[t].provider], panel[t].key)
        BY <4>1 DEF KeysInv, RequestInv
      <4>3. panel' = [panel EXCEPT ![t].pc = "primary",
                                   ![t].read = <<FirstKey(pools[panel[t].provider])>>]
        BY <3>2, <4>2 DEF First, Contains
      <4> QED  BY <1>0, <4>1, <4>3 DEF VaultTypes, PanelWork, Unsaved
    <3>3. CASE Snapshot(t)
      BY <1>0, <3>3 DEF Snapshot, VaultTypes, PanelWork, Unsaved
    <3> QED  BY <1>3, <3>1, <3>2, <3>3
  <2>3. \A s \in Panels : s = t
    BY DEF OneAdministrator
  <2> QED  BY <2>1, <2>2, <2>3, SameLoad DEF ReloadInv, Reloads, Unsaved
<1>4. ASSUME NEW t \in Panels, AddKey(t) \/ RemoveKey(t) \/ SetPrimary(t)  PROVE ReloadInv'
  <2> DEFINE p == panel[t].provider
  <2>1. /\ panel'[t].pc \in Unsaved /\ panel'[t].provider = p /\ p \in Providers
        /\ UNCHANGED <<env, machineKey, vault>>
        /\ \A q \in Providers : q # p => pools'[q] = pools[q] /\ primary'[q] = primary[q]
    <3>1. p \in Providers /\ panel[t] \in PanelWork
          /\ panel \in [Panels -> PanelWork]
      BY <1>0, <1>4 DEF KeysInv, RequestInv, AddKey, RemoveKey, SetPrimary, Awaits, VaultTypes
    <3>2. panel'[t].pc \in Unsaved /\ panel'[t].provider = p
      BY <1>4, <3>1 DEF AddKey, RemoveKey, SetPrimary, Go, PanelWork, Unsaved
    <3>3. UNCHANGED <<env, machineKey, vault>>
      BY <1>4 DEF AddKey, RemoveKey, SetPrimary
    <3>4. \A q \in Providers : q # p => pools'[q] = pools[q] /\ primary'[q] = primary[q]
      BY <1>0, <1>4 DEF AddKey, RemoveKey, SetPrimary, VaultTypes
    <3> QED  BY <3>1, <3>2, <3>3, <3>4
  <2>2. \A s \in Panels : s = t
    BY DEF OneAdministrator
  <2>3. ASSUME NEW q \in Providers, q # p  PROVE pools'[q] = <<>> \/ Reloads(q)'
    <3>1. pools[q] = <<>> \/ Reloads(q)
      BY <2>2, <2>3 DEF ReloadInv
    <3> QED  BY <3>1, <2>1, <2>3, SameLoad DEF Reloads
  <2> HIDE DEF p
  <2> QED  BY <2>1, <2>3 DEF ReloadInv, Unsaved
<1>5. ASSUME NEW t \in Panels, Save(t) \/ WriteEnv(t)  PROVE ReloadInv'
  <2>1. /\ vault' = [sealed |-> machineKey, keys |-> Sealed]
        /\ UNCHANGED <<machineKey, pools, primary>>
        /\ panel[t].pc \in {"save", "env"}
    <3>1. CASE Save(t)
      BY <3>1 DEF Save, Awaits, KeysInv, RequestInv, memory
    <3>2. CASE WriteEnv(t)
      BY <3>2 DEF WriteEnv, Awaits, KeysInv, RequestInv, memory
    <3> QED  BY <1>5, <3>1, <3>2
  <2>2. env' \in [Providers -> Variables]
    <3>1. KeysInv'
      BY KeysInductive
    <3> QED  BY <3>1 DEF KeysInv, VaultTypes
  <2>3. \A p \in Providers : primary[p] = FirstKey(pools[p])
    BY <2>1 DEF KeysInv, PrimaryInv, OneAdministrator
  <2>4. ASSUME NEW p \in Providers, pools[p] # <<>>
        PROVE  Load(env'[p], Sealed[p]) = [primary |-> primary[p], pool |-> pools[p]]
    BY <1>0, <2>2, <2>3, <2>4, SealedOrders DEF SinglesInv
  <2>5. \A p \in Providers : Loaded(p)' = Load(env'[p], Sealed[p])
    BY <2>1 DEF Loaded, LoadedWith
  <2>6. ASSUME NEW p \in Providers  PROVE pools'[p] = <<>> \/ Reloads(p)'
    <3>1. SUFFICES ASSUME pools[p] # <<>>  PROVE Reloads(p)'
      BY <2>1
    <3>2. Loaded(p)' = [primary |-> primary[p], pool |-> pools[p]]
      BY <2>4, <2>5, <3>1
    <3>3. Loaded(p)'.pool = pools'[p] /\ Loaded(p)'.primary = primary'[p]
      BY <2>1, <3>2
    <3> QED  BY <3>3 DEF Reloads
  <2> QED  BY <2>6 DEF ReloadInv
<1> QED  BY <1>1, <1>2, <1>3, <1>4, <1>5 DEF VaultNext, Handler

-----------------------------------------------------------------------------
(* The theorems *)

\* The invariant holds in every state.
LEMMA KeysAlways ==
    ASSUME OneAdministrator
    PROVE  VaultSpec => []KeysInv
<1>1. VaultInit => KeysInv
  BY VaultStart
<1>2. KeysInv /\ [VaultNext]_vaultVars => KeysInv'
  BY KeysInductive
<1> QED  BY <1>1, <1>2, PTL DEF VaultSpec

\* However many restarts, losses of the machine key and changes of the keys:
\* with one administrator the primary key is the head of its pool whenever no
\* request is under way ("primary == pool[0]").
THEOREM PrimaryIsFirst ==
    ASSUME OneAdministrator
    PROVE  VaultSpec => []PrimaryFirst
<1>1. KeysInv => PrimaryFirst
  BY DEF KeysInv, PrimaryInv, PrimaryFirst, AtRest, Awaits
<1> QED  BY <1>1, KeysAlways, PTL

\* With one administrator a restart at any moment finds every key that was in
\* the environment or acknowledged, and not taken back: the save is complete
\* before the keys leave .env.
THEOREM KeysAreKept ==
    ASSUME OneAdministrator
    PROVE  VaultSpec => []NoKeyLost
<1>1. KeysInv => NoKeyLost
  BY DEF KeysInv
<1> QED  BY <1>1, KeysAlways, PTL

\* With one administrator, and keys that hold no comma, a restart reloads what
\* the panel shows, whenever no request is under way.
THEOREM RestartIsFaithful ==
    ASSUME OneAdministrator, NoCommas
    PROVE  VaultSpec => []RestartReloads
<1>1. VaultInit => SinglesInv /\ ReloadInv
  BY SinglesStart
<1>2. KeysInv /\ SinglesInv /\ ReloadInv /\ [VaultNext]_vaultVars
         => SinglesInv' /\ ReloadInv'
  BY SinglesInductive, ReloadInductive
<1>3. ReloadInv => RestartReloads
  BY DEF ReloadInv, RestartReloads, AtRest, Awaits
<1> QED  BY <1>1, <1>2, <1>3, KeysAlways, PTL DEF VaultSpec

=============================================================================
