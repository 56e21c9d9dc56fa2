-------------------------- MODULE Interview_proofs --------------------------
(***************************************************************************)
(* Proofs about the interview, for any inputs, languages, panels and any   *)
(* number of events.  A copy of the row is saved whole and at any later    *)
(* time, so what is to hold of the row must hold of every copy of it too.  *)
(***************************************************************************)
EXTENDS Interview, FiniteSetTheorems, TLAPS

\* Every field that is asked for before the row's flow state is answered.
AnsweredSoFar(r) ==
    /\ r.flow \notin {"INIT", "AWAIT_NAME"} => "name" \in r.answered
    /\ r.flow \notin {"INIT", "AWAIT_NAME", "AWAIT_BIRTHYEAR"} => "year" \in r.answered
    /\ r.flow \notin {"INIT", "AWAIT_NAME", "AWAIT_BIRTHYEAR", "AWAIT_NATIVE"}
          => "native" \in r.answered
    /\ r.flow \notin {"INIT", "AWAIT_NAME", "AWAIT_BIRTHYEAR", "AWAIT_NATIVE",
                      "AWAIT_TARGET"} => "target" \in r.answered
    /\ r.flow \in {"AWAIT_TEACHER_NAME", "AWAIT_INTERESTS", "COMPLETE"}
          => "level" \in r.answered
    /\ r.flow \in {"AWAIT_INTERESTS", "COMPLETE"} => "teacher" \in r.answered
    /\ r.flow = "COMPLETE" => "interests" \in r.answered

\* A row that the interview can have left behind.
GoodRow(r) == /\ r \in Row
              /\ r.done <=> r.flow = "COMPLETE"
              /\ AnsweredSoFar(r)
              /\ InTest(r) => r.score < Question(r.flow)

\* A job that restarts the interview has saved INIT, one that is about to send
\* a question has saved a row in the test.
GoodWorker(w) == /\ w \in [pc : {"idle", "handle", "begin", "reply"}, user : Row]
                 /\ GoodRow(w.user)
                 /\ w.pc = "begin" => w.user.flow = "INIT"
                 /\ w.pc = "reply" => InTest(w.user)

GoodPanel(q) == q \in [pc : {"idle", "save"}, user : Row] /\ GoodRow(q.user)

CopiesInv == /\ GoodRow(row)
             /\ GoodWorker(worker)
             /\ panel \in [Panels -> [pc : {"idle", "save"}, user : Row]]
             /\ \A p \in Panels : GoodPanel(panel[p])
             /\ right \in Nat
             /\ missed \subseteq 1 .. 3
             /\ clean \in BOOLEAN
             /\ events \in 0 .. MaxEvents

\* Questions up to number n that were lost.
Lost(n) == Cardinality(missed \cap (1 .. n))

\* While no panel has saved the row since the test began, a job's copy is the
\* row; the score is the number of right answers but for the questions lost
\* before the one the row is at; and that one is the question sent last, unless
\* it was lost itself or is about to be sent.
TestInv ==
    clean =>
        /\ worker.pc # "idle" => worker.user = row
        /\ InTest(row) =>
              LET n == Question(row.flow) IN
              /\ row.score <= right + Lost(n - 1)
              /\ right <= row.score + Lost(n - 1)
              /\ \/ worker.pc = "reply"
                 \/ n \in missed
                 \/ (asked.lang = row.target /\ asked.number = n)

-----------------------------------------------------------------------------
LEMMA Flows ==
    {Stages[i] : i \in DOMAIN Stages} =
        {"INIT", "AWAIT_NAME", "AWAIT_BIRTHYEAR", "AWAIT_NATIVE", "AWAIT_TARGET",
         "AWAIT_LEVEL_CHOICE", "AWAIT_LEVEL_MANUAL", "TEST_Q1", "TEST_Q2", "TEST_Q3",
         "AWAIT_TEACHER_NAME", "AWAIT_INTERESTS", "COMPLETE"}
<1>1. DOMAIN Stages = 1 .. 13
  BY DEF Stages
<1>2. \A i \in 1 .. 13 : \/ i = 1 \/ i = 2 \/ i = 3 \/ i = 4 \/ i = 5 \/ i = 6 \/ i = 7
                         \/ i = 8 \/ i = 9 \/ i = 10 \/ i = 11 \/ i = 12 \/ i = 13
  OBVIOUS
<1> QED  BY <1>1, <1>2 DEF Stages

LEMMA NewRowIsGood == GoodRow(NewRow) /\ GoodWorker(Idle) /\ GoodPanel(Idle)
  BY Flows DEF GoodRow, GoodWorker, GoodPanel, NewRow, Idle, Row, AnsweredSoFar, InTest, Levels

\* A step that saves a good row and ends the job, or is to send a question.
LEMMA SaveIsGood ==
    ASSUME CopiesInv, NEW u, GoodRow(u), SaveLast(u) \/ (InTest(u) /\ SaveAndAsk(u)),
           right' \in Nat, missed' \subseteq 1 .. 3, clean' \in BOOLEAN
    PROVE  CopiesInv'
<1>1. CASE SaveLast(u)
  BY <1>1, NewRowIsGood DEF CopiesInv, SaveLast
<1>2. CASE InTest(u) /\ SaveAndAsk(u)
  BY <1>2 DEF CopiesInv, SaveAndAsk, GoodWorker, GoodRow
<1> QED  BY <1>1, <1>2

LEMMA Questions ==
    /\ Question("TEST_Q1") = 1
    /\ Question("TEST_Q2") = 2
    /\ Question("TEST_Q3") = 3
  BY DEF Question

\* The score that an answer of the test leads to.
LEMMA AnswerScore ==
    ASSUME NEW r, GoodRow(r), InTest(r), NEW a \in {0, 1}
    PROVE  /\ r.score + a \in 0 .. 3
           /\ r.score + a < Question(r.flow) + 1
           /\ Question(r.flow) \in 1 .. 3
  BY Questions DEF GoodRow, InTest, Row

LEMMA LanguageType ==
    ASSUME NEW t \in Inputs
    PROVE  LanguageOf[t] \in Languages
  BY DEF Languages

\* A row in the middle of the test, with the score so far.
LEMMA InTestIsGood ==
    ASSUME NEW r, GoodRow(r), ~r.done, "target" \in r.answered, "native" \in r.answered,
           "year" \in r.answered, "name" \in r.answered,
           NEW flow \in {"TEST_Q1", "TEST_Q2", "TEST_Q3"},
           NEW score \in 0 .. 2, score < Question(flow)
    PROVE  GoodRow([r EXCEPT !.flow = flow, !.score = score])
<1> DEFINE new == [r EXCEPT !.flow = flow, !.score = score]
<1>1. r \in Row
  BY DEF GoodRow
<1>2. flow \in {Stages[i] : i \in DOMAIN Stages} /\ score \in 0 .. 3
  BY Flows
<1>3. new \in Row /\ new.flow = flow /\ new.score = score /\ new.done = r.done
      /\ new.answered = r.answered
  BY <1>1, <1>2 DEF Row
<1> HIDE DEF new
<1>4. GoodRow(new)
  BY <1>3 DEF GoodRow, AnsweredSoFar, InTest
<1> QED  BY <1>4 DEF new

\* The jobs that save the row they have at hand, and end or send a question.
Saved == \E u : /\ GoodRow(u)
                /\ SaveLast(u) \/ (InTest(u) /\ SaveAndAsk(u))
                /\ right' \in Nat /\ missed' \subseteq 1 .. 3 /\ clean' \in BOOLEAN

\* The answers outside the test save their row with plain Save.
SavedPlainly == \E u : GoodRow(u) /\ Save(u)

LEMMA PlainlySaved == CopiesInv /\ SavedPlainly => Saved
  BY DEF CopiesInv, SavedPlainly, Saved, Save

LEMMA BegunRowIsGood ==
    ASSUME CopiesInv, Begin
    PROVE  Saved
<1> DEFINE next == [user EXCEPT !.flow = "AWAIT_NAME"]
<1>1. /\ user.flow = "INIT" /\ GoodRow(user)
      /\ SaveLast(next) /\ right' \in Nat /\ missed' \subseteq 1 .. 3 /\ clean' \in BOOLEAN
  BY DEF Begin, Save, CopiesInv, GoodWorker, user
<1>2. GoodRow(next)
  BY <1>1, Flows DEF GoodRow, AnsweredSoFar, InTest, Row
<1> QED  BY <1>1, <1>2 DEF Saved

LEMMA SavedRowIsGood ==
    ASSUME CopiesInv, NEW t \in Inputs, ChangeLanguage(t) \/ Answer(t)
    PROVE  Saved
<1>1. GoodRow(user) /\ user \in Row /\ right \in Nat /\ missed \subseteq 1 .. 3
      /\ clean \in BOOLEAN
  BY DEF CopiesInv, GoodWorker, GoodRow, user
<1>3. CASE ChangeLanguage(t)
  <2> DEFINE next == [user EXCEPT !.target = LanguageOf[t], !.answered = @ \cup {"target"}]
  <2>1. SaveLast(next) /\ right' = right /\ clean' = clean
    BY <1>3 DEF ChangeLanguage
  <2>2. GoodRow(next)
    BY <1>1, Flows, LanguageType DEF GoodRow, AnsweredSoFar, InTest, Row, Fields
  <2>3. missed' \subseteq 1 .. 3
    <3>1. CASE InTest(user)
      <4>1. Question(user.flow) \in 1 .. 3
        BY <3>1, Questions DEF InTest
      <4> QED  BY <1>1, <1>3, <3>1, <4>1 DEF ChangeLanguage
    <3>2. CASE ~InTest(user)
      BY <1>1, <1>3, <3>2 DEF ChangeLanguage
    <3> QED  BY <3>1, <3>2
  <2> QED  BY <1>1, <2>1, <2>2, <2>3 DEF Saved
<1>4. ASSUME Greet(t) \/ GiveName(t) \/ GiveYear(t) \/ GiveNative(t)
      PROVE  SavedPlainly
  BY <1>1, <1>4, Flows, LanguageType
     DEF Greet, GiveName, GiveYear, GiveNative, In, Advance, SavedPlainly, GoodRow, AnsweredSoFar,
         InTest, Row, Fields
<1>5. ASSUME GiveTarget(t) \/ ChooseManual(t)
      PROVE  SavedPlainly
  BY <1>1, <1>5, Flows, LanguageType
     DEF GiveTarget, ChooseManual, In, SavedPlainly, GoodRow, AnsweredSoFar, InTest, Row, Fields
<1>6. ASSUME SkipTest(t) \/ GiveLevel(t)
      PROVE  SavedPlainly
  BY <1>1, <1>6, Flows, LanguageType
     DEF SkipTest, GiveLevel, Placed, In, SavedPlainly, GoodRow, AnsweredSoFar, InTest, Row,
         Fields, Levels
<1>7. CASE StartTest(t)
  <2> DEFINE next == [user EXCEPT !.flow = "TEST_Q1", !.score = 0]
  <2>1. /\ user.flow = "AWAIT_LEVEL_CHOICE" /\ ~user.done
        /\ SaveAndAsk(next) /\ right' = 0 /\ missed' = {} /\ clean' = TRUE
    BY <1>7 DEF StartTest, In, NoTest
  <2>2. {"name", "year", "native", "target"} \subseteq user.answered
    BY <1>1, <2>1 DEF GoodRow, AnsweredSoFar
  <2>3. 0 \in 0 .. 2 /\ 0 < Question("TEST_Q1")
    BY Questions
  <2>4. GoodRow(next)
    BY <1>1, <2>1, <2>2, <2>3, InTestIsGood
  <2>5. InTest(next)
    BY <1>1 DEF InTest, Row
  <2> QED  BY <2>1, <2>4, <2>5 DEF Saved
<1>8. CASE AnswerTest(t)
  <2> DEFINE n == Question(user.flow)
             a == IF t = AnswerKey(user.target)[n] THEN 1 ELSE 0
             score == user.score + a
             next == IF n = 3 THEN [Placed(Placement(score)) EXCEPT !.score = score]
                     ELSE [user EXCEPT !.flow = <<"TEST_Q2", "TEST_Q3">>[n],
                                       !.score = score]
  <2>1. /\ InTest(user) /\ ~user.done /\ UNCHANGED clean
        /\ IF n = 3 THEN SaveLast(next) ELSE SaveAndAsk(next)
        /\ missed' \subseteq 1 .. 3
    BY <1>1, <1>8 DEF AnswerTest
  <2>2. a \in {0, 1}
    OBVIOUS
  <2>3. score \in 0 .. 3 /\ score < n + 1 /\ n \in 1 .. 3
    BY <1>1, <2>1, <2>2, AnswerScore
  <2>4. right' \in Nat
    BY <1>1, <1>8 DEF AnswerTest
  <2>5. GoodRow(next)
    <3>1. CASE n = 3
      <4>1. Placement(score) \in Levels
        BY <2>3 DEF Placement, Levels
      <4> HIDE DEF score, n
      <4> QED  BY <1>1, <2>1, <2>3, <3>1, <4>1, Flows
                  DEF Placed, GoodRow, AnsweredSoFar, InTest, Row, Fields
    <3>2. CASE n # 3
      <4> DEFINE flow == <<"TEST_Q2", "TEST_Q3">>[n]
      <4>1. next = [user EXCEPT !.flow = flow, !.score = score]
        BY <3>2
      <4>2. /\ flow \in {"TEST_Q2", "TEST_Q3"}
            /\ score \in 0 .. 2
            /\ score < Question(flow)
        <5>1. CASE n = 1
          BY <2>3, <5>1, Questions
        <5>2. CASE n = 2
          BY <2>3, <5>2, Questions
        <5> QED  BY <2>3, <3>2, <5>1, <5>2
      <4>3. {"name", "year", "native", "target"} \subseteq user.answered
        BY <1>1, <2>1 DEF GoodRow, AnsweredSoFar, InTest
      <4> HIDE DEF flow, score
      <4> QED  BY <1>1, <2>1, <4>1, <4>2, <4>3, InTestIsGood
    <3> QED  BY <3>1, <3>2
  <2>6. n # 3 => InTest(next)
    <3>1. n # 3 => next.flow \in {"TEST_Q2", "TEST_Q3"}
      BY <1>1, <2>3 DEF Row
    <3> QED  BY <3>1 DEF InTest
  <2> HIDE DEF next
  <2> QED  BY <1>1, <2>1, <2>4, <2>5, <2>6 DEF Saved
<1>9. ASSUME GiveTeacher(t)
      PROVE  SavedPlainly
  BY <1>1, <1>9, Flows, LanguageType
     DEF GiveTeacher, In, Advance, SavedPlainly, GoodRow, AnsweredSoFar, InTest, Row, Fields
<1>10. ASSUME GiveInterests(t)
      PROVE  SavedPlainly
  BY <1>1, <1>10, Flows, LanguageType
     DEF GiveInterests, In, SavedPlainly, GoodRow, AnsweredSoFar, InTest, Row, Fields
<1> QED  BY <1>3, <1>4, <1>5, <1>6, <1>7, <1>8, <1>9, <1>10, PlainlySaved DEF Answer

LEMMA CopiesStep ==
    ASSUME CopiesInv, [Next]_vars
    PROVE  CopiesInv'
<1> USE InterviewAssumption
<1>1. CASE Fetch
  BY <1>1 DEF Fetch, CopiesInv, GoodWorker, GoodRow
<1>2. CASE RestartInterview
  <2>1. GoodRow(row')
    BY <1>2, Flows
       DEF RestartInterview, CopiesInv, GoodWorker, GoodRow, AnsweredSoFar, InTest, Row, user
  <2> QED  BY <1>2, <2>1
              DEF RestartInterview, NoTest, CopiesInv, GoodWorker, GoodRow, user, Row
<1>3. CASE Begin \/ \E t \in Inputs : ChangeLanguage(t) \/ Answer(t)
  <2>1. Saved
    BY <1>3, BegunRowIsGood, SavedRowIsGood
  <2> QED  BY <2>1, SaveIsGood DEF Saved
<1>4. CASE AskAgain
  BY <1>4, NewRowIsGood DEF AskAgain, CopiesInv
<1>5. ASSUME NEW p \in Panels, PanelRead(p)
      PROVE  CopiesInv'
  BY <1>5 DEF PanelRead, CopiesInv, GoodPanel, GoodRow
<1>6. ASSUME NEW p \in Panels, PanelSave(p)
      PROVE  CopiesInv'
  BY <1>6, NewRowIsGood DEF PanelSave, CopiesInv, GoodPanel, GoodRow
<1>7. CASE Restart \/ Ask \/ AskLost
  <2>1. worker.pc = "reply" => Question(user.flow) \in 1 .. 3
    BY Questions DEF CopiesInv, GoodWorker, InTest, user
  <2>2. CASE Ask \/ AskLost
    BY <2>1, <2>2, NewRowIsGood DEF Ask, AskLost, CopiesInv
  <2>3. CASE Restart
    <3>1. missed' \subseteq 1 .. 3
      BY <2>1, <2>3 DEF Restart, CopiesInv
    <3>2. events' \in 0 .. MaxEvents
      BY <2>3 DEF Restart, CopiesInv
    <3>3. Idle \in [pc : {"idle", "save"}, user : Row]
      BY NewRowIsGood DEF GoodPanel
    <3> QED  BY <2>3, <3>1, <3>2, <3>3, NewRowIsGood DEF Restart, CopiesInv
  <2> QED  BY <1>7, <2>2, <2>3
<1>8. CASE UNCHANGED vars
  BY <1>8 DEF vars, CopiesInv
<1> QED  BY <1>1, <1>2, <1>3, <1>4, <1>5, <1>6, <1>7, <1>8 DEF Next

\* Every row and every copy of one is a row the interview can have left.
LEMMA CopiesAlways == Spec => []CopiesInv
<1>1. Init => CopiesInv
  BY NewRowIsGood, InterviewAssumption DEF Init, CopiesInv, GoodPanel
<1>2. CopiesInv /\ [Next]_vars => CopiesInv'
  BY CopiesStep
<1> QED  BY <1>1, <1>2, PTL DEF Spec

\* The types, and no test counts more points than questions answered.
THEOREM TypeCorrect == Spec => []TypeOK
<1>1. CopiesInv => TypeOK
  BY DEF CopiesInv, GoodWorker, GoodRow, TypeOK
<1> QED  BY <1>1, CopiesAlways, PTL

\* FlowState and OnboardingDone agree about the end of the interview, for any
\* number of panels saving stale copies (onboarding.go, whatsapp.go).
THEOREM FlagsAgree == Spec => []DoneIffComplete
<1>1. CopiesInv => DoneIffComplete
  BY DEF CopiesInv, GoodRow, DoneIffComplete
<1> QED  BY <1>1, CopiesAlways, PTL

\* A finished interview has an answer to each of its questions.
THEOREM ProfileComplete == Spec => []CompleteProfile
<1>1. CopiesInv => CompleteProfile
  BY DEF CopiesInv, GoodRow, AnsweredSoFar, CompleteProfile, Row, Fields
<1> QED  BY <1>1, CopiesAlways, PTL

-----------------------------------------------------------------------------
(* The placement test. *)

\* A question that is lost is one more.
LEMMA LostFacts ==
    ASSUME missed \subseteq 1 .. 3
    PROVE  /\ Cardinality(missed) \in Nat
           /\ Lost(0) = 0
           /\ \A n \in 0 .. 3 : Lost(n) \in Nat /\ Lost(n) <= Cardinality(missed)
           /\ \A n \in 1 .. 3 : Lost(n) = Lost(n - 1) + IF n \in missed THEN 1 ELSE 0
<1>1. IsFiniteSet(missed) /\ Cardinality(missed) \in Nat
  <2>1. 1 \in Int /\ 3 \in Int
    OBVIOUS
  <2>2. IsFiniteSet(1 .. 3)
    BY <2>1, FS_Interval
  <2>3. IsFiniteSet(missed)
    BY <2>2, FS_Subset
  <2> QED  BY <2>3, FS_CardinalityType
<1>2. \A n \in 0 .. 3 : /\ IsFiniteSet(missed \cap (1 .. n))
                        /\ Lost(n) \in Nat /\ Lost(n) <= Cardinality(missed)
  BY <1>1, FS_Subset, FS_CardinalityType DEF Lost
<1>3. Lost(0) = 0
  <2>1. missed \cap (1 .. 0) = {}
    OBVIOUS
  <2> QED  BY <2>1, FS_EmptySet DEF Lost
<1>4. ASSUME NEW n \in 1 .. 3
      PROVE  Lost(n) = Lost(n - 1) + IF n \in missed THEN 1 ELSE 0
  <2>1. IsFiniteSet(missed \cap (1 .. (n - 1))) /\ Lost(n - 1) \in Nat
    <3>1. n - 1 \in 0 .. 3
      OBVIOUS
    <3> QED  BY <1>2, <3>1
  <2>2. CASE n \in missed
    <3>1. missed \cap (1 .. n) = (missed \cap (1 .. (n - 1))) \cup {n}
      BY <2>2
    <3>2. n \notin missed \cap (1 .. (n - 1))
      OBVIOUS
    <3> QED  BY <2>1, <2>2, <3>1, <3>2, FS_AddElement DEF Lost
  <2>3. CASE n \notin missed
    <3>1. missed \cap (1 .. n) = missed \cap (1 .. (n - 1))
      BY <2>3
    <3> QED  BY <2>1, <2>3, <3>1 DEF Lost
  <2> QED  BY <2>2, <2>3
<1> QED  BY <1>1, <1>2, <1>3, <1>4

\* Losing question n is no loss of an earlier one.
LEMMA LosesOne ==
    ASSUME NEW n \in 1 .. 3, missed' \in {missed, missed \cup {n}}
    PROVE  Lost(n - 1)' = Lost(n - 1)
<1>1. missed' \cap (1 .. (n - 1)) = missed \cap (1 .. (n - 1))
  OBVIOUS
<1> QED  BY <1>1 DEF Lost

\* A graded answer: score and right answers move apart only at a lost question.
LEMMA GradedAlike ==
    ASSUME CopiesInv, TestInv, clean, NEW t \in Inputs, AnswerTest(t)
    PROVE  LET n == Question(row.flow) IN
           /\ n \in 1 .. 3
           /\ row'.score <= right' + Lost(n)
           /\ right' <= row'.score + Lost(n)
           /\ \/ /\ n = 3
                 /\ row'.flow = "AWAIT_TEACHER_NAME"
                 /\ row'.level = Placement(row'.score)
              \/ /\ row'.flow \in {"TEST_Q2", "TEST_Q3"}
                 /\ Question(row'.flow) = n + 1
                 /\ worker'.pc = "reply" /\ worker'.user = row'
                 /\ missed' = missed
<1> DEFINE n == Question(user.flow)
           a == IF t = AnswerKey(user.target)[n] THEN 1 ELSE 0
           b == IF t = AnswerKey(asked.lang)[asked.number] THEN 1 ELSE 0
           score == user.score + a
<1>1. user = row /\ user \in Row /\ GoodRow(user) /\ InTest(user) /\ worker.pc = "handle"
  BY DEF TestInv, CopiesInv, GoodRow, AnswerTest, user
<1>2. n \in 1 .. 3
  BY <1>1, AnswerScore
<1>3. a \in {0, 1} /\ b \in {0, 1} /\ right' = right + b
      /\ right \in Nat /\ user.score \in 0 .. 3
  BY <1>1 DEF AnswerTest, CopiesInv, Row
<1>4. n \in missed \/ a = b
  BY <1>1 DEF TestInv
<1>5. /\ Lost(n) \in Nat /\ Lost(n - 1) \in Nat
      /\ Lost(n) = Lost(n - 1) + IF n \in missed THEN 1 ELSE 0
  BY <1>2, LostFacts DEF CopiesInv
<1>6. user.score <= right + Lost(n - 1) /\ right <= user.score + Lost(n - 1)
  BY <1>1 DEF TestInv
<1>7. score <= right' + Lost(n) /\ right' <= score + Lost(n)
  <2> HIDE DEF a, b, n
  <2> QED  BY <1>3, <1>4, <1>5, <1>6
<1>8. CASE n = 3
  <2>1. row' = [Placed(Placement(score)) EXCEPT !.score = score]
    BY <1>8 DEF AnswerTest, SaveLast
  <2> HIDE DEF score
  <2>2. row'.score = score /\ row'.flow = "AWAIT_TEACHER_NAME" /\ row'.level = Placement(score)
    BY <1>1, <2>1 DEF Placed, Row
  <2> QED  BY <1>1, <1>7, <1>8, <2>2
<1>9. CASE n # 3
  <2> DEFINE flow == <<"TEST_Q2", "TEST_Q3">>[n]
  <2>1. /\ row' = [user EXCEPT !.flow = flow, !.score = score]
        /\ worker' = [pc |-> "reply", user |-> row']
        /\ missed' = missed
    BY <1>9 DEF AnswerTest, SaveAndAsk
  <2>2. flow \in {"TEST_Q2", "TEST_Q3"} /\ Question(flow) = n + 1
    <3>1. CASE n = 1
      BY <3>1, Questions
    <3>2. CASE n = 2
      BY <3>2, Questions
    <3> QED  BY <1>2, <1>9, <3>1, <3>2
  <2> HIDE DEF flow, score, n
  <2>3. row'.score = score /\ row'.flow = flow
    BY <1>1, <2>1 DEF Row
  <2> QED  BY <1>1, <1>2, <1>7, <2>1, <2>2, <2>3 DEF n
<1> QED  BY <1>8, <1>9

\* The flow states in their order.
LEMMA RankOf ==
    ASSUME NEW i \in 1 .. 13
    PROVE  Rank(Stages[i]) = i
<1>1. DOMAIN Stages = 1 .. 13 /\ i \in DOMAIN Stages
  BY DEF Stages
<1>2. \A k, l \in 1 .. 13 : Stages[k] = Stages[l] => k = l
  BY DEF Stages
<1> QED  BY <1>1, <1>2 DEF Rank

LEMMA Ranks ==
    /\ Rank("INIT") = 1 /\ Rank("AWAIT_NAME") = 2 /\ Rank("AWAIT_BIRTHYEAR") = 3
    /\ Rank("AWAIT_NATIVE") = 4 /\ Rank("AWAIT_TARGET") = 5
    /\ Rank("AWAIT_LEVEL_CHOICE") = 6 /\ Rank("AWAIT_LEVEL_MANUAL") = 7
    /\ Rank("TEST_Q1") = 8 /\ Rank("TEST_Q2") = 9 /\ Rank("TEST_Q3") = 10
    /\ Rank("AWAIT_TEACHER_NAME") = 11 /\ Rank("AWAIT_INTERESTS") = 12
    /\ Rank("COMPLETE") = 13
<1>1. /\ Stages[1] = "INIT" /\ Stages[2] = "AWAIT_NAME" /\ Stages[3] = "AWAIT_BIRTHYEAR"
      /\ Stages[4] = "AWAIT_NATIVE" /\ Stages[5] = "AWAIT_TARGET"
      /\ Stages[6] = "AWAIT_LEVEL_CHOICE" /\ Stages[7] = "AWAIT_LEVEL_MANUAL"
      /\ Stages[8] = "TEST_Q1" /\ Stages[9] = "TEST_Q2" /\ Stages[10] = "TEST_Q3"
      /\ Stages[11] = "AWAIT_TEACHER_NAME" /\ Stages[12] = "AWAIT_INTERESTS"
      /\ Stages[13] = "COMPLETE"
  BY DEF Stages
<1>2. \A i \in 1 .. 13 : Rank(Stages[i]) = i
  BY RankOf
<1> QED  BY <1>1, <1>2

\* An answer outside the test saves the next state, and no test.
LEMMA AnswerSaves ==
    ASSUME CopiesInv, NEW t \in Inputs, Answer(t), ~AnswerTest(t), ~StartTest(t)
    PROVE  \E flow, u : /\ In(flow) /\ Save(u)
                        /\ flow \notin {"TEST_Q1", "TEST_Q2", "TEST_Q3"}
                        /\ u.flow \notin {"TEST_Q1", "TEST_Q2", "TEST_Q3"}
                        /\ Rank(u.flow) > Rank(flow)
<1>0. user \in Row
  BY DEF CopiesInv, GoodWorker, user
<1>1. CASE Greet(t)
  <2> DEFINE u == [user EXCEPT !.flow = "AWAIT_NAME"]
  <2>1. In("INIT") /\ Save(u)
    BY <1>1 DEF Greet
  <2>2. u.flow = "AWAIT_NAME"
    BY <1>0 DEF Row
  <2> HIDE DEF u
  <2> QED  BY <2>1, <2>2, Ranks
<1>2. CASE GiveName(t)
  <2> DEFINE u == [user EXCEPT !.flow = "AWAIT_BIRTHYEAR", !.answered = @ \cup {"name"}]
  <2>1. In("AWAIT_NAME") /\ Save(u)
    BY <1>2 DEF GiveName, Advance
  <2>2. u.flow = "AWAIT_BIRTHYEAR"
    BY <1>0 DEF Row
  <2> HIDE DEF u
  <2> QED  BY <2>1, <2>2, Ranks
<1>3. CASE GiveYear(t)
  <2> DEFINE u == [user EXCEPT !.flow = "AWAIT_NATIVE", !.answered = @ \cup {"year"}]
  <2>1. In("AWAIT_BIRTHYEAR") /\ Save(u)
    BY <1>3 DEF GiveYear, Advance
  <2>2. u.flow = "AWAIT_NATIVE"
    BY <1>0 DEF Row
  <2> HIDE DEF u
  <2> QED  BY <2>1, <2>2, Ranks
<1>4. CASE GiveNative(t)
  <2> DEFINE u == [user EXCEPT !.flow = "AWAIT_TARGET", !.answered = @ \cup {"native"}]
  <2>1. In("AWAIT_NATIVE") /\ Save(u)
    BY <1>4 DEF GiveNative, Advance
  <2>2. u.flow = "AWAIT_TARGET"
    BY <1>0 DEF Row
  <2> HIDE DEF u
  <2> QED  BY <2>1, <2>2, Ranks
<1>5. CASE GiveTarget(t)
  <2> DEFINE u == [user EXCEPT !.flow = "AWAIT_LEVEL_CHOICE", !.target = LanguageOf[t],
                            !.answered = @ \cup {"target"}]
  <2>1. In("AWAIT_TARGET") /\ Save(u)
    BY <1>5 DEF GiveTarget
  <2>2. u.flow = "AWAIT_LEVEL_CHOICE"
    BY <1>0 DEF Row
  <2> HIDE DEF u
  <2> QED  BY <2>1, <2>2, Ranks
<1>6. CASE SkipTest(t)
  <2> DEFINE u == Placed("A1")
  <2>1. In("AWAIT_LEVEL_CHOICE") /\ Save(u)
    BY <1>6 DEF SkipTest
  <2>2. u.flow = "AWAIT_TEACHER_NAME"
    BY <1>0 DEF Row, Placed
  <2> HIDE DEF u
  <2> QED  BY <2>1, <2>2, Ranks
<1>7. CASE ChooseManual(t)
  <2> DEFINE u == [user EXCEPT !.flow = "AWAIT_LEVEL_MANUAL"]
  <2>1. In("AWAIT_LEVEL_CHOICE") /\ Save(u)
    BY <1>7 DEF ChooseManual
  <2>2. u.flow = "AWAIT_LEVEL_MANUAL"
    BY <1>0 DEF Row
  <2> HIDE DEF u
  <2> QED  BY <2>1, <2>2, Ranks
<1>8. CASE GiveLevel(t)
  <2> DEFINE u == Placed(t)
  <2>1. In("AWAIT_LEVEL_MANUAL") /\ Save(u)
    BY <1>8 DEF GiveLevel
  <2>2. u.flow = "AWAIT_TEACHER_NAME"
    BY <1>0 DEF Row, Placed
  <2> HIDE DEF u
  <2> QED  BY <2>1, <2>2, Ranks
<1>9. CASE GiveTeacher(t)
  <2> DEFINE u == [user EXCEPT !.flow = "AWAIT_INTERESTS", !.answered = @ \cup {"teacher"}]
  <2>1. In("AWAIT_TEACHER_NAME") /\ Save(u)
    BY <1>9 DEF GiveTeacher, Advance
  <2>2. u.flow = "AWAIT_INTERESTS"
    BY <1>0 DEF Row
  <2> HIDE DEF u
  <2> QED  BY <2>1, <2>2, Ranks
<1>10. CASE GiveInterests(t)
  <2> DEFINE u == [user EXCEPT !.flow = "COMPLETE", !.done = TRUE,
                            !.answered = @ \cup {"interests"}]
  <2>1. In("AWAIT_INTERESTS") /\ Save(u)
    BY <1>10 DEF GiveInterests
  <2>2. u.flow = "COMPLETE"
    BY <1>0 DEF Row
  <2> HIDE DEF u
  <2> QED  BY <2>1, <2>2, Ranks
<1> QED  BY <1>1, <1>2, <1>3, <1>4, <1>5, <1>6, <1>7, <1>8, <1>9, <1>10 DEF Answer

\* An answer outside the test leaves no test behind, unless it begins one.
LEMMA OutsideTest ==
    ASSUME CopiesInv, NEW t \in Inputs, Answer(t), ~AnswerTest(t)
    PROVE  /\ ~InTest(user)
           /\ worker.pc # "idle"
           /\ \/ /\ ~InTest(row') /\ worker'.pc = "idle"
                 /\ UNCHANGED <<asked, right, missed, clean>>
              \/ StartTest(t)
<1>1. user \in Row
  BY DEF CopiesInv, GoodWorker, user
<1>2. CASE StartTest(t)
  BY <1>1, <1>2 DEF StartTest, In, InTest
<1>7. ASSUME NEW u, NEW flow, In(flow), Save(u),
             flow \notin {"TEST_Q1", "TEST_Q2", "TEST_Q3"},
             u.flow \notin {"TEST_Q1", "TEST_Q2", "TEST_Q3"}
      PROVE  /\ ~InTest(user) /\ worker.pc # "idle" /\ worker'.pc = "idle"
             /\ ~InTest(row') /\ UNCHANGED <<asked, right, missed, clean>>
  <2>1. worker'.pc = "idle" /\ row' = u /\ UNCHANGED <<asked, right, missed, clean>>
    BY <1>7 DEF Save, SaveLast, Idle
  <2>2. worker.pc = "handle" /\ user.flow = flow
    BY <1>7 DEF In
  <2> QED  BY <1>7, <2>1, <2>2 DEF InTest
<1>3. ASSUME NEW flow, NEW u, In(flow), Save(u),
             flow \notin {"TEST_Q1", "TEST_Q2", "TEST_Q3"},
             u.flow \notin {"TEST_Q1", "TEST_Q2", "TEST_Q3"}
      PROVE  /\ ~InTest(user) /\ worker.pc # "idle" /\ worker'.pc = "idle"
             /\ ~InTest(row') /\ UNCHANGED <<asked, right, missed, clean>>
  <2>1. worker'.pc = "idle" /\ row' = u /\ UNCHANGED <<asked, right, missed, clean>>
    BY <1>3 DEF Save, SaveLast, Idle
  <2>2. worker.pc = "handle" /\ user.flow = flow
    BY <1>3 DEF In
  <2> QED  BY <1>3, <2>1, <2>2 DEF InTest
<1>4. CASE ~StartTest(t)
  <2>1. PICK flow, u : /\ In(flow) /\ Save(u)
                       /\ flow \notin {"TEST_Q1", "TEST_Q2", "TEST_Q3"}
                       /\ u.flow \notin {"TEST_Q1", "TEST_Q2", "TEST_Q3"}
    BY <1>4, AnswerSaves
  <2> QED  BY <1>3, <2>1
<1> QED  BY <1>2, <1>4

\* What CountsCorrectAnswers says of a step.
CountedStep ==
    LET lost == Cardinality(missed)
        Counted == row'.score <= right' + lost /\ right' <= row'.score + lost
    IN clean' =>
         /\ InTest(row') => Counted
         /\ InTest(row) /\ row'.flow = "AWAIT_TEACHER_NAME"
               => Counted /\ row'.level = Placement(row'.score)

\* A step that leaves the row in the test where it is, with its score.
LEMMA CountedStays ==
    ASSUME CopiesInv, TestInv, clean, InTest(row),
           row'.score = row.score, row'.flow = row.flow, right' = right
    PROVE  CountedStep
<1> DEFINE n == Question(row.flow)
<1>1. n \in 1 .. 3 /\ row.flow # "AWAIT_TEACHER_NAME"
  BY Questions DEF InTest
<1>2. n - 1 \in 0 .. 3 /\ row.score \in Nat /\ right \in Nat
  BY <1>1 DEF CopiesInv, GoodRow, Row
<1>3. Lost(n - 1) \in Nat /\ Lost(n - 1) <= Cardinality(missed) /\ Cardinality(missed) \in Nat
  BY <1>2, LostFacts DEF CopiesInv
<1>4. row.score <= right + Lost(n - 1) /\ right <= row.score + Lost(n - 1)
  BY DEF TestInv
<1> QED  BY <1>1, <1>2, <1>3, <1>4 DEF CountedStep

LEMMA TestStep ==
    ASSUME CopiesInv, TestInv, [Next]_vars
    PROVE  TestInv' /\ CountedStep
<1>0. InTest(row) => row.flow # "AWAIT_TEACHER_NAME" /\ Question(row.flow) \in 1 .. 3
  BY Questions DEF InTest
<1>1. CASE \/ Fetch \/ (\E p \in Panels : PanelRead(p)) \/ UNCHANGED vars
  <2>1. /\ UNCHANGED <<row, asked, right, missed, clean>>
        /\ \/ worker' = worker
           \/ (worker' = [pc |-> "handle", user |-> row] /\ worker.pc = "idle")
    BY <1>1 DEF Fetch, PanelRead, vars
  <2>2. TestInv'
    BY <2>1 DEF TestInv, InTest, Lost
  <2> QED  BY <1>0, <2>1, <2>2, CountedStays DEF CountedStep, InTest
<1>2. CASE RestartInterview \/ Begin
  <2>1. row'.flow \in {"INIT", "AWAIT_NAME"}
    BY <1>2 DEF RestartInterview, Begin, Save, SaveLast, CopiesInv, GoodWorker, user, Row
  <2>2. worker'.pc # "idle" => worker'.user = row'
    BY <1>2 DEF RestartInterview, Begin, Save, SaveLast, Idle
  <2> QED  BY <2>1, <2>2 DEF TestInv, CountedStep, InTest
<1>3. CASE AskAgain \/ Ask \/ AskLost \/ Restart
  <2>1. row' = row /\ right' = right /\ clean' = clean /\ worker'.pc = "idle"
    BY <1>3 DEF AskAgain, Ask, AskLost, Restart, Idle
  <2>2. ASSUME clean, InTest(row)
        PROVE  LET n == Question(row.flow) IN
               /\ missed' \in {missed, missed \cup {n}}
               /\ n \in missed' \/ (asked'.lang = row.target /\ asked'.number = n)
    <3>1. worker.pc = "reply" => user = row
      BY <2>2 DEF TestInv, user
    <3>2. worker.pc # "reply" =>
             \/ Question(row.flow) \in missed
             \/ (asked.lang = row.target /\ asked.number = Question(row.flow))
      BY <2>2 DEF TestInv
    <3>3. CASE AskAgain
      BY <3>2, <3>3 DEF AskAgain
    <3>4. CASE Ask
      BY <3>1, <3>4 DEF Ask
    <3>5. CASE AskLost
      BY <3>1, <3>5 DEF AskLost
    <3>6. CASE Restart
      BY <3>1, <3>2, <3>6 DEF Restart
    <3> QED  BY <1>3, <3>3, <3>4, <3>5, <3>6
  <2>3. TestInv'
    BY <1>0, <2>1, <2>2, LosesOne DEF TestInv, InTest
  <2> QED  BY <1>0, <2>1, <2>3, CountedStays DEF CountedStep, InTest
<1>4. ASSUME NEW t \in Inputs, ChangeLanguage(t)
      PROVE  TestInv' /\ CountedStep
  <2>1. /\ row'.flow = user.flow /\ row'.score = user.score /\ worker'.pc = "idle"
        /\ right' = right /\ clean' = clean
        /\ missed' = IF InTest(user) THEN missed \cup {Question(user.flow)} ELSE missed
    BY <1>4 DEF ChangeLanguage, SaveLast, Idle, CopiesInv, GoodWorker, user, Row
  <2>2. clean => user = row
    BY <1>4 DEF ChangeLanguage, TestInv, user
  <2>3. TestInv'
    BY <1>0, <2>1, <2>2, LosesOne DEF TestInv, InTest
  <2> QED  BY <1>0, <2>1, <2>2, <2>3, CountedStays DEF CountedStep, InTest
<1>5. ASSUME NEW t \in Inputs, StartTest(t)
      PROVE  TestInv' /\ CountedStep
  <2>1. /\ row'.flow = "TEST_Q1" /\ row'.score = 0
        /\ worker'.pc = "reply" /\ worker'.user = row' /\ right' = 0 /\ missed' = {}
    BY <1>5 DEF StartTest, NoTest, SaveAndAsk, CopiesInv, GoodWorker, user, Row
  <2>2. Lost(0)' = 0
    <3>1. missed' \cap (1 .. 0) = {}
      OBVIOUS
    <3> QED  BY <3>1, FS_EmptySet DEF Lost
  <2>3. TestInv'
    BY <2>1, <2>2, Questions DEF TestInv
  <2>4. Cardinality(missed) \in Nat
    BY LostFacts DEF CopiesInv
  <2> QED  BY <2>1, <2>3, <2>4 DEF CountedStep
<1>6. ASSUME NEW t \in Inputs, Answer(t), ~AnswerTest(t), ~StartTest(t)
      PROVE  TestInv' /\ CountedStep
  <2>1. /\ ~InTest(user) /\ ~InTest(row') /\ worker'.pc = "idle" /\ clean' = clean
        /\ worker.pc # "idle"
    BY <1>6, OutsideTest
  <2>2. clean => ~InTest(row)
    BY <2>1 DEF TestInv, user
  <2> QED  BY <2>1, <2>2 DEF TestInv, CountedStep
<1>7. ASSUME NEW t \in Inputs, AnswerTest(t)
      PROVE  TestInv' /\ CountedStep
  <2>1. CASE ~clean
    BY <1>7, <2>1 DEF AnswerTest, TestInv, CountedStep
  <2>2. CASE clean
    <3> DEFINE n == Question(row.flow)
    <3>1. /\ n \in 1 .. 3
          /\ row'.score <= right' + Lost(n)
          /\ right' <= row'.score + Lost(n)
          /\ \/ /\ n = 3
                /\ row'.flow = "AWAIT_TEACHER_NAME"
                /\ row'.level = Placement(row'.score)
             \/ /\ row'.flow \in {"TEST_Q2", "TEST_Q3"}
                /\ Question(row'.flow) = n + 1
                /\ worker'.pc = "reply" /\ worker'.user = row'
                /\ missed' = missed
      BY <1>7, <2>2, GradedAlike
    <3>2. clean' /\ (n = 3 => worker'.pc = "idle")
      <4>1. worker.pc # "idle" /\ clean' = clean
        BY <1>7 DEF AnswerTest
      <4>2. user = row
        BY <2>2, <4>1 DEF TestInv, user
      <4> QED  BY <1>7, <2>2, <4>1, <4>2 DEF AnswerTest, SaveLast, Idle
    <3>3. Lost(n) \in Nat /\ Lost(n) <= Cardinality(missed) /\ Cardinality(missed) \in Nat
      BY <3>1, LostFacts DEF CopiesInv
    <3>4. row'.score \in Nat /\ right' \in Nat
      BY CopiesStep DEF CopiesInv, GoodRow, Row
    <3> HIDE DEF n
    <3>5. CountedStep
      BY <3>1, <3>3, <3>4 DEF CountedStep
    <3>6. CASE n = 3
      <4>1. ~InTest(row') /\ worker'.pc = "idle"
        BY <3>1, <3>2, <3>6 DEF InTest
      <4> QED  BY <3>5, <4>1 DEF TestInv
    <3>7. CASE n # 3
      <4>1. /\ Question(row'.flow) - 1 = n /\ missed' = missed
            /\ worker'.pc = "reply" /\ worker'.user = row'
        BY <3>1, <3>7
      <4>2. Lost(Question(row.flow) - 1)' = Lost(n)
        BY <4>1 DEF Lost
      <4> QED  BY <3>1, <3>5, <4>1, <4>2 DEF TestInv
    <3> QED  BY <3>6, <3>7
  <2> QED  BY <2>1, <2>2
<1>8. ASSUME NEW p \in Panels, PanelSave(p)
      PROVE  TestInv' /\ CountedStep
  BY <1>8 DEF PanelSave, TestInv, CountedStep
<1> QED  BY <1>1, <1>2, <1>3, <1>4, <1>5, <1>6, <1>7, <1>8 DEF Next

\* The placement test counts the right answers to the questions as they were
\* sent, but for one point per question that was lost on its way or overtaken
\* by /language, whatever tests were given up before (handleTestFlow), for any
\* tests and languages, unless a panel saves the row in the middle of the test.
THEOREM ScoreIsCount == Spec => CountsCorrectAnswers
<1>1. Init => TestInv
  BY DEF Init, TestInv, Idle, InTest, NewRow
<1>2. CopiesInv /\ TestInv /\ [Next]_vars => TestInv' /\ CountedStep
  BY TestStep
<1>3. CopiesInv /\ TestInv /\ [Next]_vars => [CountedStep]_vars
  BY <1>2
<1> QED  BY <1>1, <1>2, CopiesAlways, PTL DEF Spec, CountsCorrectAnswers, CountedStep

\* The test itself goes forward, too.
LEMMA TestForward ==
    ASSUME CopiesInv, NEW t \in Inputs, AnswerTest(t) \/ StartTest(t)
    PROVE  Rank(row'.flow) > Rank(user.flow)
<1>1. user \in Row /\ GoodRow(user)
  BY DEF CopiesInv, GoodWorker, user
<1>2. CASE StartTest(t)
  <2>1. row'.flow = "TEST_Q1" /\ user.flow = "AWAIT_LEVEL_CHOICE"
    BY <1>1, <1>2 DEF StartTest, In, SaveAndAsk, Row
  <2> QED  BY <2>1, Ranks
<1>3. CASE AnswerTest(t)
  <2> DEFINE n == Question(user.flow)
  <2>1. InTest(user) /\ n \in 1 .. 3
    BY <1>1, <1>3, AnswerScore DEF AnswerTest
  <2>2. CASE n = 3
    <3>1. row'.flow = "AWAIT_TEACHER_NAME"
      BY <1>1, <1>3, <2>2 DEF AnswerTest, SaveLast, Placed, Row
    <3> QED  BY <2>1, <3>1, Ranks DEF InTest
  <2>3. CASE n # 3
    <3>1. row'.flow = <<"TEST_Q2", "TEST_Q3">>[n]
      BY <1>1, <1>3, <2>3 DEF AnswerTest, SaveAndAsk, Row
    <3>2. CASE n = 1
      <4>1. user.flow = "TEST_Q1"
        BY <2>1, <3>2, Questions DEF InTest
      <4>2. row'.flow = "TEST_Q2"
        BY <3>1, <3>2
      <4> QED  BY <4>1, <4>2, Ranks
    <3>3. CASE n = 2
      <4>1. user.flow = "TEST_Q2"
        BY <2>1, <3>3, Questions DEF InTest
      <4>2. row'.flow = "TEST_Q3"
        BY <3>1, <3>3
      <4> QED  BY <4>1, <4>2, Ranks
    <3> QED  BY <2>1, <2>3, <3>2, <3>3
  <2> QED  BY <2>2, <2>3
<1> QED  BY <1>2, <1>3

LEMMA ForwardStep ==
    ASSUME CopiesInv, [Next]_vars, row'.flow # row.flow, worker.user = row,
           \A p \in Panels : ~PanelSave(p)
    PROVE  Rank(row'.flow) > Rank(row.flow) \/ (row'.flow = "INIT" /\ worker'.pc = "begin")
<1>1. CASE RestartInterview
  BY <1>1 DEF RestartInterview, CopiesInv, GoodWorker, user, Row
<1>2. CASE Begin
  <2>1. row.flow = "INIT" /\ row'.flow = "AWAIT_NAME"
    BY <1>2 DEF Begin, Save, SaveLast, CopiesInv, GoodWorker, user, Row
  <2> QED  BY <2>1, Ranks
<1>3. ASSUME NEW t \in Inputs, ChangeLanguage(t)
      PROVE  row'.flow = row.flow
  BY <1>3 DEF ChangeLanguage, SaveLast, CopiesInv, GoodWorker, user, Row
<1>4. ASSUME NEW t \in Inputs, Answer(t)
      PROVE  Rank(row'.flow) > Rank(row.flow)
  <2>1. CASE AnswerTest(t) \/ StartTest(t)
    BY <2>1, TestForward DEF user
  <2>2. CASE ~(AnswerTest(t) \/ StartTest(t))
    <3>1. PICK flow, u : In(flow) /\ Save(u) /\ Rank(u.flow) > Rank(flow)
      BY <1>4, <2>2, AnswerSaves
    <3> QED  BY <3>1 DEF In, Save, SaveLast, user
  <2> QED  BY <2>1, <2>2
<1>5. CASE Fetch \/ AskAgain \/ Ask \/ AskLost \/ Restart \/ (\E p \in Panels : PanelRead(p)) \/ UNCHANGED vars
  BY <1>5 DEF Fetch, AskAgain, Ask, AskLost, Restart, PanelRead, vars
<1> QED  BY <1>1, <1>2, <1>3, <1>4, <1>5 DEF Next

\* The interview goes forward or starts over, and asks no accepted answer again
\* (ProcessOnboarding), unless a copy that is out of date is saved.
THEOREM GoesForward == Spec => OnlyForward
<1>1. CopiesInv /\ [Next]_vars =>
        (row'.flow # row.flow /\ worker.user = row /\ (\A p \in Panels : ~PanelSave(p)) =>
            Rank(row'.flow) > Rank(row.flow) \/ (row'.flow = "INIT" /\ worker'.pc = "begin"))
  BY ForwardStep
<1> QED  BY <1>1, CopiesAlways, PTL DEF Spec, OnlyForward
=============================================================================
