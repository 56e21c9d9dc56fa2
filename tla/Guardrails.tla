----------------------------- MODULE Guardrails -----------------------------
(***************************************************************************)
(* The limits that bound what a chat can cost: the rolling limit on direct *)
(* messages (userActivityAllowed), the cooldown on questions asked in a    *)
(* group (groupOnCooldown), the rolling limit on group activities          *)
(* (groupActivityAllowed) and the one quiz a group has waiting.            *)
(*                                                                         *)
(* The single queue worker calls them one message at a time; the clock     *)
(* runs on between messages and between two readings of it.  Everything    *)
(* is in memory: a restart forgets it.                                     *)
(***************************************************************************)
EXTENDS Integers, Sequences

CONSTANTS Users,       \* senders of direct messages
          Groups,      \* WhatsApp groups
          UserLimit, UserWindow,    \* 12 messages, 30 s
          GroupLimit, GroupWindow,  \* 4 activities, 60 s
          CooldownWindow,           \* 3 s
          MaxTime,     \* bound: the clock stops here
          MaxEvents,   \* bound: messages handled
          Restarts     \* whether the process may restart

ASSUME GuardrailsAssumption ==
    /\ UserLimit \in Nat \ {0} /\ UserWindow \in Nat \ {0}
    /\ GroupLimit \in Nat \ {0} /\ GroupWindow \in Nat \ {0}
    /\ CooldownWindow \in Nat \ {0}
    /\ MaxTime \in Nat /\ MaxEvents \in Nat
    /\ Restarts \in BOOLEAN

VARIABLES now,
          events,      \* messages so far, of all processes
          userRateHits, userRateNotify, \* per user: recent times; last notice
          groupRateHits, groupCooldown, \* per group: the same for its limits
          groupQuizState,               \* per group: the quiz to reveal
          \* what happened since the process started, oldest first:
          admitted, noticed, dropped,   \* per user: times; times; how many
          activities, answered,         \* per group: times of activities, questions
          polls, revealed               \* per group: how many; quiz numbers

userVars == <<userRateHits, userRateNotify, admitted, noticed, dropped>>
groupVars == <<groupRateHits, groupCooldown, groupQuizState,
               activities, answered, polls, revealed>>
limitVars == <<now, events, userVars, groupVars>>

Never == -1   \* a key missing from a map of times
NoQuiz == 0   \* a key missing from groupQuizState

\* A new reading of the clock within one call.
Later == {now} \cup {t \in {now + 1} : t <= MaxTime}

\* h loses what is not after the cutoff.  Times are recorded in order, so
\* what is kept is a suffix, the entries from n + 1 on.
Expires(h, n, window) ==
    /\ \A i \in 1..n : h[i] <= now - window
    /\ \A i \in (n + 1)..Len(h) : h[i] > now - window

Kept(h, n) == SubSeq(h, n + 1, Len(h))

Event == events < MaxEvents /\ events' = events + 1

-----------------------------------------------------------------------------
(* Direct messages: userActivityAllowed and its caller. *)

\* The three outcomes for a sender with n expired times.
\* Rejected: one message too many.
AdmitOneMore(u, n) ==
    /\ Len(userRateHits[u]) - n <= UserLimit
    /\ userRateHits' = [userRateHits EXCEPT ![u] = Append(Kept(@, n), now)]
    /\ admitted' = [admitted EXCEPT ![u] = Append(@, now)]
    /\ UNCHANGED <<userRateNotify, noticed, dropped>>

Admit(u, n) ==
    /\ Len(userRateHits[u]) - n < UserLimit
    /\ userRateHits' = [userRateHits EXCEPT ![u] = Append(Kept(@, n), now)]
    /\ admitted' = [admitted EXCEPT ![u] = Append(@, now)]
    /\ UNCHANGED <<userRateNotify, noticed, dropped>>

Notify(u, n) ==
    /\ Len(userRateHits[u]) - n >= UserLimit
    /\ userRateNotify[u] = Never \/ now - userRateNotify[u] >= UserWindow
    /\ userRateHits' = [userRateHits EXCEPT ![u] = Kept(@, n)]
    /\ userRateNotify' = [userRateNotify EXCEPT ![u] = now]
    /\ noticed' = [noticed EXCEPT ![u] = Append(@, now)]
    /\ dropped' = [dropped EXCEPT ![u] = @ + 1]
    /\ UNCHANGED admitted

\* Rejected: a dropped message counts against the limit.
DropCounted(u, n) ==
    /\ Len(userRateHits[u]) - n >= UserLimit
    /\ userRateNotify[u] # Never
    /\ now - userRateNotify[u] < UserWindow
    /\ userRateHits' = [userRateHits EXCEPT ![u] = Append(Kept(@, n), now)]
    /\ dropped' = [dropped EXCEPT ![u] = @ + 1]
    /\ UNCHANGED <<userRateNotify, admitted, noticed>>

DropSilently(u, n) ==
    /\ Len(userRateHits[u]) - n >= UserLimit
    /\ userRateNotify[u] # Never
    /\ now - userRateNotify[u] < UserWindow
    /\ userRateHits' = [userRateHits EXCEPT ![u] = Kept(@, n)]
    /\ dropped' = [dropped EXCEPT ![u] = @ + 1]
    /\ UNCHANGED <<userRateNotify, admitted, noticed>>

DirectMessage(u) ==
    /\ Event
    /\ \E n \in 0..Len(userRateHits[u]) :
          /\ Expires(userRateHits[u], n, UserWindow)
          /\ Admit(u, n) \/ Notify(u, n) \/ DropSilently(u, n)
    /\ UNCHANGED <<now, groupVars>>

-----------------------------------------------------------------------------
(* Group messages: handleGroupMessage and the activities it starts. *)

OnCooldown(g) == groupCooldown[g] # Never /\ now - groupCooldown[g] < CooldownWindow

\* A mention, /ask or /correct: an answer, or an apology if there is none.
Ask(g) == /\ Event
          /\ ~OnCooldown(g)
          /\ groupCooldown' = [groupCooldown EXCEPT ![g] = now]
          /\ answered' = [answered EXCEPT ![g] = Append(@, now)]
          /\ UNCHANGED <<now, userVars, groupRateHits, groupQuizState, activities,
                         polls, revealed>>

\* groupActivityAllowed: the cutoff is one reading of the clock, the time
\* recorded a later one.
ActivityAllowed(g, n) ==
    /\ Len(groupRateHits[g]) - n < GroupLimit
    /\ now' \in Later
    /\ groupRateHits' = [groupRateHits EXCEPT ![g] = Append(Kept(@, n), now')]
    /\ activities' = [activities EXCEPT ![g] = Append(@, now')]

ActivityRefused(g, n) ==
    /\ Len(groupRateHits[g]) - n >= GroupLimit
    /\ groupRateHits' = [groupRateHits EXCEPT ![g] = Kept(@, n)]
    /\ UNCHANGED <<now, activities>>

\* Every activity, /ghelp too.  A /gquiz without a poll to show for it is one:
\* no answer from the model, an invalid one, a poll that cannot be sent.
Activity(g) ==
    /\ Event
    /\ \E n \in 0..Len(groupRateHits[g]) :
          /\ Expires(groupRateHits[g], n, GroupWindow)
          /\ ActivityAllowed(g, n) \/ ActivityRefused(g, n)
    /\ UNCHANGED <<userVars, groupCooldown, groupQuizState, answered, polls, revealed>>

\* /gquiz sent its poll: the answer key replaces the one waiting.
Quiz(g) ==
    /\ Event
    /\ \E n \in 0..Len(groupRateHits[g]) :
          Expires(groupRateHits[g], n, GroupWindow) /\ ActivityAllowed(g, n)
    /\ polls' = [polls EXCEPT ![g] = @ + 1]
    /\ groupQuizState' = [groupQuizState EXCEPT ![g] = polls'[g]]
    /\ UNCHANGED <<userVars, groupCooldown, answered, revealed>>

\* Rejected: the revealed quiz stays.
RevealAgain(g) ==
    /\ Event
    /\ groupQuizState[g] # NoQuiz
    /\ revealed' = [revealed EXCEPT ![g] = Append(@, groupQuizState[g])]
    /\ UNCHANGED <<now, userVars, groupRateHits, groupCooldown, groupQuizState,
                   activities, answered, polls>>

\* /greveal: one reveal per quiz.
Reveal(g) ==
    /\ Event
    /\ groupQuizState[g] # NoQuiz
    /\ revealed' = [revealed EXCEPT ![g] = Append(@, groupQuizState[g])]
    /\ groupQuizState' = [groupQuizState EXCEPT ![g] = NoQuiz]
    /\ UNCHANGED <<now, userVars, groupRateHits, groupCooldown, activities,
                   answered, polls>>

\* Ordinary messages, questions without a text and a /greveal with no quiz
\* waiting change nothing here.
GroupMessage(g) == Ask(g) \/ Activity(g) \/ Quiz(g) \/ Reveal(g)

-----------------------------------------------------------------------------
Forgotten ==
    /\ userRateHits' = [u \in Users |-> <<>>]
    /\ userRateNotify' = [u \in Users |-> Never]
    /\ groupRateHits' = [g \in Groups |-> <<>>]
    /\ groupCooldown' = [g \in Groups |-> Never]
    /\ groupQuizState' = [g \in Groups |-> NoQuiz]
    /\ admitted' = [u \in Users |-> <<>>]
    /\ noticed' = [u \in Users |-> <<>>]
    /\ dropped' = [u \in Users |-> 0]
    /\ activities' = [g \in Groups |-> <<>>]
    /\ answered' = [g \in Groups |-> <<>>]
    /\ polls' = [g \in Groups |-> 0]
    /\ revealed' = [g \in Groups |-> <<>>]

LimitsInit ==
    /\ now = 0
    /\ events = 0
    /\ userRateHits = [u \in Users |-> <<>>]
    /\ userRateNotify = [u \in Users |-> Never]
    /\ groupRateHits = [g \in Groups |-> <<>>]
    /\ groupCooldown = [g \in Groups |-> Never]
    /\ groupQuizState = [g \in Groups |-> NoQuiz]
    /\ admitted = [u \in Users |-> <<>>]
    /\ noticed = [u \in Users |-> <<>>]
    /\ dropped = [u \in Users |-> 0]
    /\ activities = [g \in Groups |-> <<>>]
    /\ answered = [g \in Groups |-> <<>>]
    /\ polls = [g \in Groups |-> 0]
    /\ revealed = [g \in Groups |-> <<>>]

\* A new process counts afresh, and so do the observers: what they hold is what
\* this process let through.
ForgetLimits == Restarts /\ Forgotten /\ UNCHANGED <<now, events>>

Tick == /\ now < MaxTime
        /\ now' = now + 1
        /\ UNCHANGED <<events, userVars, groupVars>>

LimitsNext == \/ \E u \in Users : DirectMessage(u)
              \/ \E g \in Groups : GroupMessage(g)
              \/ Tick
              \/ ForgetLimits

LimitsSpec == LimitsInit /\ [][LimitsNext]_limitVars

-----------------------------------------------------------------------------
LimitsTypeOK ==
    /\ now \in Nat
    /\ events \in 0 .. MaxEvents
    /\ userRateHits \in [Users -> Seq(Nat)]
    /\ userRateNotify \in [Users -> Nat \cup {Never}]
    /\ groupRateHits \in [Groups -> Seq(Nat)]
    /\ groupCooldown \in [Groups -> Nat \cup {Never}]
    /\ groupQuizState \in [Groups -> Nat]
    /\ admitted \in [Users -> Seq(Nat)]
    /\ noticed \in [Users -> Seq(Nat)]
    /\ dropped \in [Users -> Nat]
    /\ activities \in [Groups -> Seq(Nat)]
    /\ answered \in [Groups -> Seq(Nat)]
    /\ polls \in [Groups -> Nat]
    /\ revealed \in [Groups -> Seq(Nat)]

\* In the times s, no window holds more than limit of them: any limit + 1 in a
\* row spread over a whole window.
Spread(s, limit, window) ==
    \A i \in 1..Len(s) : i + limit <= Len(s) => s[i + limit] - s[i] >= window

\* In any window within the life of one process (a restart forgets the limits,
\* and a window that spans one may hold as much again), however messages fall
\* across its edge: no sender gets more than UserLimit messages through ("false once the user exceeds userRateLimit
\* messages within userRateWindow"), a throttled sender is told so at most once
\* ("sent once instead of on every dropped message"), a group's activities,
\* /ghelp included, keep to its limit and its questions to its cooldown.
RatesBounded ==
    /\ \A u \in Users : /\ Spread(admitted[u], UserLimit, UserWindow)
                        /\ Spread(noticed[u], 1, UserWindow)
    /\ \A g \in Groups : /\ Spread(activities[g], GroupLimit, GroupWindow)
                         /\ Spread(answered[g], 1, CooldownWindow)

\* The limiter drops a message only while the window behind it is full: a
\* sender who keeps to the limit is never throttled.
OnlyFloodsDropped ==
    [][\A u \in Users :
          dropped'[u] > dropped[u] =>
              LET n == Len(admitted[u]) IN
              n >= UserLimit /\ admitted[u][n - UserLimit + 1] > now - UserWindow]_limitVars

\* /greveal discloses the last quiz posted, and no quiz twice.
RevealsLast ==
    [][\A g \in Groups :
          Len(revealed'[g]) > Len(revealed[g]) =>
              LET quiz == revealed'[g][Len(revealed[g]) + 1] IN
              /\ quiz = polls[g]
              /\ \A i \in 1..Len(revealed[g]) : revealed[g][i] # quiz]_limitVars

=============================================================================
