----------------------------- MODULE Interview -----------------------------
(***************************************************************************)
(* The initial interview of a student (onboarding.go): the state kept in   *)
(* User.FlowState, the placement test, and what runs beside it: /restart   *)
(* and /language, which ProcessWhatsAppMessage handles before the          *)
(* interview, panel handlers that save a copy of the row they read before, *)
(* and restarts of the process.                                            *)
(*                                                                         *)
(* One student, one worker.  A job reads the row, handles one input, saves *)
(* the copy, and sends its reply after that, which may fail unnoticed.  Of *)
(* replies only the questions of the test matter here; the others are left *)
(* out.  "TEST_Q2:1" is the pair of a state and a score.  The wording of   *)
(* answers is left out; the row remembers which fields have been answered. *)
(***************************************************************************)
EXTENDS Integers, FiniteSets

CONSTANTS Inputs,      \* what a student may type, sanitised and trimmed
          Years,       \* the inputs parseBirthYear accepts
          LanguageOf,  \* parseLanguageCode: the code it makes of an input
          Commands,    \* which of "/restart" and "/language" are used
          Panels,      \* panel request goroutines
          MaxEvents    \* bound: panel requests, and restarts

Levels == {"A1", "A2", "B1", "B2", "C1", "C2"}
Fields == {"name", "year", "native", "target", "level", "teacher", "interests"}

\* The flow states in the order of the interview.
Stages == <<"INIT", "AWAIT_NAME", "AWAIT_BIRTHYEAR", "AWAIT_NATIVE", "AWAIT_TARGET",
            "AWAIT_LEVEL_CHOICE", "AWAIT_LEVEL_MANUAL", "TEST_Q1", "TEST_Q2",
            "TEST_Q3", "AWAIT_TEACHER_NAME", "AWAIT_INTERESTS", "COMPLETE">>
Rank(flow) == CHOOSE i \in DOMAIN Stages : Stages[i] = flow

Languages == {LanguageOf[t] : t \in Inputs}

ASSUME InterviewAssumption == /\ Years \subseteq Inputs
                              /\ DOMAIN LanguageOf = Inputs
                              /\ Commands \subseteq {"/restart", "/language"}
                              /\ MaxEvents \in Nat

VARIABLES row,     \* the student's row
          worker,  \* the job's next step and its copy of the row
          panel,   \* per panel goroutine: whether it will save, and what
          asked,   \* the question of this test sent to the student last
          right,   \* answers of this test that were right for the question sent last
          missed,  \* questions of this test that were not sent, or whose language
                   \* was changed before the answer
          clean,   \* no panel has saved the row since the test began
          events   \* panel requests and restarts so far

vars == <<row, worker, panel, asked, right, missed, clean, events>>

Row == [flow : {Stages[i] : i \in DOMAIN Stages}, score : 0 .. 3, done : BOOLEAN,
        target : Languages \cup {"en"}, level : Levels, answered : SUBSET Fields]

NewRow == [flow |-> "INIT", score |-> 0, done |-> FALSE, target |-> "en",
           level |-> "A1", answered |-> {}]
Idle == [pc |-> "idle", user |-> NewRow]
NoQuestion == [lang |-> "none", number |-> 1]

Init == /\ row = NewRow
        /\ worker = Idle
        /\ panel = [p \in Panels |-> Idle]
        /\ asked = NoQuestion
        /\ right = 0
        /\ missed = {}
        /\ clean = TRUE
        /\ events = 0

-----------------------------------------------------------------------------
(* The placement test. *)

\* getQuestions: the answer keys; a language without a test has none.
AnswerKey(lang) ==
    CASE lang \in {"en"}       -> <<"B", "B", "C">>
      [] lang \in {"es", "fr"} -> <<"B", "B", "A">>
      [] lang \in {"de", "ja"} -> <<"B", "B", "B">>
      [] lang \in {"it"}       -> <<"B", "A", "A">>
      [] lang \in {"ko", "zh"} -> <<"B", "B", "A">>
      [] lang \in {"ru"}       -> <<"B", "A", "B">>
      [] OTHER                 -> <<"", "", "">>

HasTest(lang) == AnswerKey(lang) # <<"", "", "">>

\* The level for a score.
Placement(score) == <<"A1", "A2", "B1", "B2">>[score + 1]

Question(flow) == CASE flow = "TEST_Q1" -> 1 [] flow = "TEST_Q2" -> 2 [] OTHER -> 3
InTest(r) == r.flow \in {"TEST_Q1", "TEST_Q2", "TEST_Q3"}

-----------------------------------------------------------------------------
(* The worker. *)

user == worker.user

Fetch == /\ worker.pc = "idle"
         /\ worker' = [pc |-> "handle", user |-> row]
         /\ UNCHANGED <<row, panel, asked, right, missed, clean, events>>

\* The job saves its copy, changed to u, and ends.
SaveLast(u) == row' = u /\ worker' = Idle /\ UNCHANGED <<panel, events>>
Save(u) == SaveLast(u) /\ UNCHANGED <<asked, right, missed, clean>>

\* The job saves u, and then sends the question of the test that u is at.
SaveAndAsk(u) == /\ row' = u
                 /\ worker' = [pc |-> "reply", user |-> u]
                 /\ UNCHANGED <<panel, events>>

\* The observer's books of the test, when none has been sent a question of yet.
NoTest == asked' = NoQuestion /\ right' = 0 /\ missed' = {}

\* An answer that is accepted: the field is filled in and the interview goes on.
Advance(flow, field) ==
    Save([user EXCEPT !.flow = flow, !.answered = @ \cup {field}])

\* /restart saves INIT, and ProcessOnboarding then saves AWAIT_NAME.
RestartInterview ==
    /\ "/restart" \in Commands
    /\ worker.pc = "handle"
    /\ row' = [user EXCEPT !.done = FALSE, !.flow = "INIT"]
    /\ worker' = [pc |-> "begin", user |-> row']
    /\ NoTest
    /\ UNCHANGED <<panel, clean, events>>

Begin == /\ worker.pc = "begin"
         /\ Save([user EXCEPT !.flow = "AWAIT_NAME"])

\* /language <language>, whatever the flow state.
ChangeLanguage(t) ==
    /\ "/language" \in Commands
    /\ worker.pc = "handle"
    /\ t # ""
    /\ SaveLast([user EXCEPT !.target = LanguageOf[t], !.answered = @ \cup {"target"}])
    /\ missed' = IF InTest(user) THEN missed \cup {Question(user.flow)} ELSE missed
    /\ UNCHANGED <<asked, right, clean>>

In(flow) == worker.pc = "handle" /\ ~user.done /\ user.flow = flow

Greet(t) == In("INIT") /\ Save([user EXCEPT !.flow = "AWAIT_NAME"])
GiveName(t) == In("AWAIT_NAME") /\ t # "" /\ Advance("AWAIT_BIRTHYEAR", "name")
GiveYear(t) == In("AWAIT_BIRTHYEAR") /\ t \in Years /\ Advance("AWAIT_NATIVE", "year")
GiveNative(t) == In("AWAIT_NATIVE") /\ Advance("AWAIT_TARGET", "native")

GiveTarget(t) ==
    /\ In("AWAIT_TARGET")
    /\ Save([user EXCEPT !.flow = "AWAIT_LEVEL_CHOICE", !.target = LanguageOf[t],
                         !.answered = @ \cup {"target"}])

\* The student at level l: the teacher's name is next.
Placed(l) == [user EXCEPT !.level = l, !.flow = "AWAIT_TEACHER_NAME",
                          !.answered = @ \cup {"level"}]

SkipTest(t) == In("AWAIT_LEVEL_CHOICE") /\ t = "2" /\ Save(Placed("A1"))

\* Rejected: without a test, the manual level is never asked for.
ChooseManualSkipped(t) == /\ In("AWAIT_LEVEL_CHOICE")
                          /\ t = "1"
                          /\ ~HasTest(user.target)
                          /\ Save([user EXCEPT !.flow = "AWAIT_TEACHER_NAME"])

ChooseManual(t) == /\ In("AWAIT_LEVEL_CHOICE")
                   /\ t = "1"
                   /\ ~HasTest(user.target)
                   /\ Save([user EXCEPT !.flow = "AWAIT_LEVEL_MANUAL"])

GiveLevel(t) == In("AWAIT_LEVEL_MANUAL") /\ t \in Levels /\ Save(Placed(t))

\* Rejected: the score of an earlier test is kept.
StartTestKeepScore(t) ==
    /\ In("AWAIT_LEVEL_CHOICE")
    /\ t = "1"
    /\ HasTest(user.target)
    /\ SaveAndAsk([user EXCEPT !.flow = "TEST_Q1"])
    /\ NoTest
    /\ clean' = TRUE

StartTest(t) == /\ In("AWAIT_LEVEL_CHOICE")
                /\ t = "1"
                /\ HasTest(user.target)
                /\ SaveAndAsk([user EXCEPT !.flow = "TEST_Q1", !.score = 0])
                /\ NoTest
                /\ clean' = TRUE

\* handleTestFlow grades the answer with the key of the language the row has
\* now; the student answers the question on the screen.
AnswerTest(t) ==
    /\ worker.pc = "handle" /\ ~user.done /\ InTest(user)
    /\ t \in {"A", "B", "C"}
    /\ LET n == Question(user.flow)
           score == user.score + IF t = AnswerKey(user.target)[n] THEN 1 ELSE 0
       IN IF n = 3
          THEN /\ SaveLast([Placed(Placement(score)) EXCEPT !.score = score])
               /\ asked' = NoQuestion
               /\ missed' = {}
          ELSE /\ SaveAndAsk([user EXCEPT !.flow = <<"TEST_Q2", "TEST_Q3">>[n],
                                          !.score = score])
               /\ UNCHANGED <<asked, missed>>
    /\ right' = right + IF t = AnswerKey(asked.lang)[asked.number] THEN 1 ELSE 0
    /\ UNCHANGED clean

\* sendMessageText: the question reaches the student.
Ask == /\ worker.pc = "reply"
       /\ asked' = [lang |-> user.target, number |-> Question(user.flow)]
       /\ worker' = Idle
       /\ UNCHANGED <<row, panel, right, missed, clean, events>>

\* No client is connected, or the send fails: that is only logged, and the
\* student still sees the question before.
AskLost == /\ worker.pc = "reply"
           /\ missed' = missed \cup {Question(user.flow)}
           /\ worker' = Idle
           /\ UNCHANGED <<row, panel, asked, right, clean, events>>

GiveTeacher(t) == In("AWAIT_TEACHER_NAME") /\ t # "" /\ Advance("AWAIT_INTERESTS", "teacher")

\* Rejected: the flow is completed, the flag is left to a later save.
GiveInterestsFlowOnly(t) ==
    In("AWAIT_INTERESTS") /\ t # "" /\ Advance("COMPLETE", "interests")

GiveInterests(t) ==
    /\ In("AWAIT_INTERESTS")
    /\ t # ""
    /\ Save([user EXCEPT !.flow = "COMPLETE", !.done = TRUE,
                         !.answered = @ \cup {"interests"}])

\* Rejected: an answer that is not accepted starts the interview over.
AskAgainFromStart == /\ worker.pc = "handle"
                     /\ Save([user EXCEPT !.flow = IF user.done THEN @ ELSE "INIT"])

\* Anything else changes nothing: an answer that is not accepted, audio or a
\* document during the interview, conversation and other commands.
AskAgain == /\ worker.pc = "handle"
            /\ worker' = Idle
            /\ UNCHANGED <<row, panel, asked, right, missed, clean, events>>

-----------------------------------------------------------------------------
PanelRead(p) == /\ panel[p].pc = "idle"
                /\ events < MaxEvents
                /\ events' = events + 1
                /\ panel' = [panel EXCEPT ![p] = [pc |-> "save", user |-> row]]
                /\ UNCHANGED <<row, worker, asked, right, missed, clean>>

PanelSave(p) == /\ panel[p].pc = "save"
                /\ row' = panel[p].user
                /\ panel' = [panel EXCEPT ![p] = Idle]
                /\ clean' = FALSE
                /\ UNCHANGED <<worker, asked, right, missed, events>>

\* A question that was about to be sent is lost.
Restart == /\ events < MaxEvents
           /\ events' = events + 1
           /\ missed' = IF worker.pc = "reply"
                        THEN missed \cup {Question(user.flow)} ELSE missed
           /\ worker' = Idle
           /\ panel' = [p \in Panels |-> Idle]
           /\ UNCHANGED <<row, asked, right, clean>>

Answer(t) == \/ Greet(t) \/ GiveName(t) \/ GiveYear(t) \/ GiveNative(t)
             \/ GiveTarget(t) \/ SkipTest(t) \/ ChooseManual(t) \/ GiveLevel(t)
             \/ StartTest(t) \/ AnswerTest(t) \/ GiveTeacher(t) \/ GiveInterests(t)

Next == \/ Fetch \/ RestartInterview \/ Begin \/ AskAgain \/ Ask \/ AskLost
        \/ \E t \in Inputs : ChangeLanguage(t) \/ Answer(t)
        \/ \E p \in Panels : PanelRead(p) \/ PanelSave(p)
        \/ Restart

Spec == Init /\ [][Next]_vars

-----------------------------------------------------------------------------
\* Types; and a test counts at most one point per question answered.
TypeOK == /\ row \in Row
          /\ worker \in [pc : {"idle", "handle", "begin", "reply"}, user : Row]
          /\ panel \in [Panels -> [pc : {"idle", "save"}, user : Row]]
          /\ InTest(row) => row.score < Question(row.flow)
          /\ right \in Nat
          /\ missed \subseteq 1 .. 3
          /\ clean \in BOOLEAN
          /\ events \in 0 .. MaxEvents

\* The two fields that say whether the interview is over agree, whatever
\* saves of stale copies and restarts come in between; so a message is never
\* both let through to the tutor and in the middle of the interview, and the
\* branch of ProcessOnboarding for other states is not reached.
DoneIffComplete == row.done <=> row.flow = "COMPLETE"

\* A student whose interview is over has answered every question of it, by
\* whatever way round: the test, the manual level, /restart and /language in
\* the middle, a stale save, a crash between the two saves of /restart.
CompleteProfile == row.done => row.answered = Fields

\* The score is the number of right answers to the questions as they were sent
\* to the student, and the level follows from it ("manages the questions and
\* correct-answer count for the placement test"), whatever tests were begun and
\* given up before: it is off by at most one for each question that was lost on
\* its way (a failed send, a stop of the process between the save and the send)
\* or overtaken by /language, and such a loss costs no other question.  An
\* answer counts for the question sent last when it is taken from the queue.
\* Not covered is a row that a panel has saved in the middle of the test.
CountsCorrectAnswers ==
    [][LET lost == Cardinality(missed)
           Counted == row'.score <= right' + lost /\ right' <= row'.score + lost
       IN clean' =>
            /\ InTest(row') => Counted
            /\ InTest(row) /\ row'.flow = "AWAIT_TEACHER_NAME"
                  => Counted /\ row'.level = Placement(row'.score)]_vars

\* A message takes the interview forward, or back to its start by /restart, and
\* never asks a question again whose answer it has accepted; only the save of
\* a copy that is out of date, the panel's or the job's own, moves it back.
OnlyForward ==
    [][row'.flow # row.flow /\ worker.user = row /\ (\A p \in Panels : ~PanelSave(p)) =>
         Rank(row'.flow) > Rank(row.flow) \/ (row'.flow = "INIT" /\ worker'.pc = "begin")]_vars

=============================================================================
