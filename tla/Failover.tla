------------------------------ MODULE Failover ------------------------------
(***************************************************************************)
(* internal/service/llm_factory.go: one answer of the tutor, asked of the  *)
(* chat's own AI, then of the primary provider, then of the others, each   *)
(* with a key picked from its pool.  A voice message goes to Gemini alone  *)
(* first and falls back to a text request.                                 *)
(*                                                                         *)
(* The queue worker makes one call at a time; the panel may edit the pools *)
(* and the primary provider in the middle of it.  The providers are the    *)
(* environment: each request may be answered, refused or lost.             *)
(* Ollama has a base URL in place of a pool: to this model a provider      *)
(* whose pool has at most one key.                                         *)
(***************************************************************************)
EXTENDS Integers, Sequences, FiniteSets

CONSTANTS Gemini, Others,   \* the provider that retries, and the rest
          Order,            \* contingency order: the providers, each once
          Unknown,          \* a configured name no provider has
          Primaries,        \* values PrimaryLLMProvider may take
          Pools,            \* values the key pool of a provider may take
          Customs,          \* custom params of users and groups
          NoCustom, NotGiven, NoKey,
          CounterRange,     \* values of the rotation counter, 2^64 in the code
          MaxEdits          \* bound: edits by the panel

Providers == {Gemini} \cup Others
Keys == UNION {{s[i] : i \in 1..Len(s)} :
                  s \in Pools \cup {c.own : c \in {d \in Customs : d.own # NotGiven}}}

\* own: the keys of a custom, comma-separated in the code; NotGiven if it has
\* none.  (A key that is nothing but commas is left out.)
ASSUME FailoverAssumption ==
    /\ Gemini \notin Others /\ Unknown \notin Providers
    /\ Order \in Seq(Providers)
    /\ \A p \in Providers : \E i \in 1..Len(Order) : Order[i] = p
    /\ \A i, j \in 1..Len(Order) : Order[i] = Order[j] => i = j
    /\ Primaries \subseteq Providers \cup {Unknown}
    /\ Pools \subseteq Seq(Keys)
    /\ Customs \subseteq [provider : Providers \cup {Unknown},
                           own : (Seq(Keys) \ {<<>>}) \cup {NotGiven}]
    /\ NoCustom \notin Customs /\ NoKey \notin Keys
    /\ CounterRange \in Nat \ {0, 1} /\ MaxEdits \in Nat

VARIABLES pools,     \* config: the key pool of each provider
          primary,   \* config: PrimaryLLMProvider
          keyIdx,    \* per provider: the rotation counter
          call,      \* the call under way
          requests,  \* requests of this call, in the order they were sent
          outcome,   \* of the last call: "none", "answered" or "failed"
          steady,    \* providers that had a key at every moment of the call
          lastPick,  \* per provider: last key of the pool, until the pool or
                     \* the counter is changed by something else
          edits

configVars == <<pools, primary, edits>>
ghostVars == <<requests, outcome, steady, lastPick>>
failoverVars == <<configVars, keyIdx, call, ghostVars>>

MaxAttempts == 2

IdleCall == [phase |-> "idle", custom |-> NoCustom, list |-> <<>>, attempt |-> 0,
             key |-> <<>>]
Entry(p, own) == [provider |-> p, own |-> own]

\* The contingency order without the primary provider.
Contingency ==
    IF \E i \in 1..Len(Order) : Order[i] = primary
    THEN LET at == CHOOSE i \in 1..Len(Order) : Order[i] = primary
         IN SubSeq(Order, 1, at - 1) \o SubSeq(Order, at + 1, Len(Order))
    ELSE Order

\* One round for each of these providers, with the pool's keys.
Rounds(ps) == [i \in 1..Len(ps) |-> Entry(ps[i], FALSE)]

\* Rejected: the primary provider comes up again among the contingency ones.
SortedListTwice(custom) ==
    LET system == <<Entry(primary, FALSE)>> \o Rounds(Order) IN
    IF custom = NoCustom THEN system ELSE <<Entry(custom.provider, TRUE)>> \o system

\* sortedList: the custom provider, the primary, the contingency providers.
SortedList(custom) ==
    LET system == <<Entry(primary, FALSE)>> \o Rounds(Contingency) IN
    IF custom = NoCustom THEN system ELSE <<Entry(custom.provider, TRUE)>> \o system

\* Rejected: the counter is never moved on.
RotatedStuck(n, keys) ==
    IF keys = <<>> THEN [key |-> NoKey, next |-> n]
    ELSE [key |-> keys[(n % Len(keys)) + 1], next |-> n]

\* rotateKey: the key picked from a pool and the counter after it.
Rotated(n, keys) ==
    CASE Len(keys) = 0 -> [key |-> NoKey, next |-> n]
      [] Len(keys) = 1 -> [key |-> keys[1], next |-> n]
      [] OTHER -> LET m == (n + 1) % CounterRange IN
                  [key |-> keys[(m % Len(keys)) + 1], next |-> m]

\* nextKey: a key of the custom's own, if it has one, rotated with the same
\* counter as the pool's.
OwnKeys(e) == e.own /\ call.custom.own # NotGiven

\* Rejected: the custom's own key is used in every round.
NextKeyAnyRound(e) ==
    Rotated(keyIdx[e.provider],
            IF call.custom # NoCustom /\ call.custom.own # NotGiven
            THEN call.custom.own ELSE pools[e.provider])
NextKey(e) == Rotated(keyIdx[e.provider],
                      IF OwnKeys(e) THEN call.custom.own ELSE pools[e.provider])

\* Somebody knows the provider, and it has a key.
Usable(e) == e.provider \in Providers /\ NextKey(e).key # NoKey

\* config.GeminiAPIKey, which the panel keeps at the head of the pool.
PrimaryKey == IF pools[Gemini] = <<>> THEN NoKey ELSE Head(pools[Gemini])

Configured == {p \in Providers : pools[p] # <<>>}

-----------------------------------------------------------------------------
(* The caller's side: a message to answer. *)

StartText(c) ==
    /\ call.phase = "idle"
    /\ call' = [IdleCall EXCEPT !.phase = "turn", !.custom = c,
                                !.list = SortedList(c)]
    /\ requests' = <<>> /\ outcome' = "none" /\ steady' = Configured
    /\ UNCHANGED <<configVars, keyIdx, lastPick>>

\* GenerateResponseFromAudio: the primary key or the custom's own, as it is.
AudioKey(c) ==
    IF c # NoCustom /\ c.provider = Gemini /\ c.own # NotGiven
    THEN c.own
    ELSE IF PrimaryKey = NoKey THEN <<>> ELSE <<PrimaryKey>>

StartAudio(c) ==
    /\ call.phase = "idle"
    /\ LET key == AudioKey(c) IN
       /\ call' = [IdleCall EXCEPT !.phase = IF key = <<>> THEN "fallback" ELSE "audio",
                                   !.custom = c, !.attempt = 1, !.key = key]
       /\ requests' = IF key = <<>> THEN <<>>
                      ELSE <<[entry |-> Entry(Gemini, c # NoCustom), key |-> key]>>
    /\ outcome' = "none" /\ steady' = Configured
    /\ UNCHANGED <<configVars, keyIdx, lastPick>>

\* The text request a voice message falls back to.
Fallback ==
    /\ call.phase = "fallback"
    /\ call' = [IdleCall EXCEPT !.phase = "turn", !.custom = call.custom,
                                !.list = SortedList(call.custom)]
    /\ requests' = <<>>
    /\ UNCHANGED <<configVars, keyIdx, outcome, steady, lastPick>>

-----------------------------------------------------------------------------
(* GenerateResponseWithFailover *)

\* Rejected: a provider without a key is looked at for ever.
SkipStays == /\ call.phase = "turn"
             /\ call.list # <<>>
             /\ ~Usable(Head(call.list))
             /\ UNCHANGED failoverVars

\* The next provider of the list is skipped if it cannot be used.
Skip == /\ call.phase = "turn"
        /\ call.list # <<>>
        /\ ~Usable(Head(call.list))
        /\ call' = [call EXCEPT !.list = Tail(@)]
        /\ UNCHANGED <<configVars, keyIdx, ghostVars>>

Ask == /\ call.phase = "turn"
       /\ call.list # <<>>
       /\ LET e == Head(call.list)
              pick == NextKey(e)
          IN /\ Usable(e)
             /\ keyIdx' = [keyIdx EXCEPT ![e.provider] = pick.next]
             /\ call' = [call EXCEPT !.phase = "wait", !.attempt = 1,
                                     !.key = <<pick.key>>]
             /\ requests' = Append(requests, [entry |-> e, key |-> <<pick.key>>])
             /\ lastPick' = IF ~OwnKeys(e)
                            THEN [lastPick EXCEPT ![e.provider] = pick.key]
                            ELSE IF pick.next = keyIdx[e.provider] THEN lastPick
                                 ELSE [lastPick EXCEPT ![e.provider] = NoKey]
       /\ UNCHANGED <<configVars, outcome, steady>>

Exhausted == /\ call.phase = "turn"
             /\ call.list = <<>>
             /\ call' = IdleCall
             /\ outcome' = "failed"
             /\ UNCHANGED <<configVars, keyIdx, requests, steady, lastPick>>

\* The request under way ends with a usable answer ...
RequestAnswered == /\ call.phase \in {"wait", "audio"}
                   /\ call' = IdleCall
                   /\ outcome' = "answered"
                   /\ UNCHANGED <<configVars, keyIdx, requests, steady, lastPick>>

Asked == IF call.phase = "audio" THEN Gemini ELSE Head(call.list).provider

\* ... or is sent again by doWithRetry, after a transient status or a network
\* error, if it is Gemini's and the deadline is not over ...
Retry == /\ call.phase \in {"wait", "audio"}
         /\ Asked = Gemini
         /\ call.attempt < MaxAttempts
         /\ call' = [call EXCEPT !.attempt = @ + 1]
         /\ requests' = Append(requests, requests[Len(requests)])
         /\ UNCHANGED <<configVars, keyIdx, outcome, steady, lastPick>>

\* Rejected: the first failure ends the round.
FailOverGivesUp ==
    /\ call.phase \in {"wait", "audio"}
    /\ call' = IF call.phase = "audio" THEN [call EXCEPT !.phase = "fallback"]
               ELSE [call EXCEPT !.phase = "turn", !.list = <<>>]
    /\ UNCHANGED <<configVars, keyIdx, ghostVars>>

\* ... or fails: a refusal, the deadline, an answer without content.
FailOver == /\ call.phase \in {"wait", "audio"}
            /\ call' = IF call.phase = "audio" THEN [call EXCEPT !.phase = "fallback"]
                       ELSE [call EXCEPT !.phase = "turn", !.list = Tail(@)]
            /\ UNCHANGED <<configVars, keyIdx, ghostVars>>

-----------------------------------------------------------------------------
(* The panel's key and configuration handlers. *)

EditPool(p, keys) ==
    /\ edits < MaxEdits
    /\ keys # pools[p]
    /\ pools' = [pools EXCEPT ![p] = keys]
    /\ steady' = IF keys = <<>> THEN steady \ {p} ELSE steady
    /\ lastPick' = [lastPick EXCEPT ![p] = NoKey]
    /\ edits' = edits + 1
    /\ UNCHANGED <<primary, keyIdx, call, requests, outcome>>

ChangePrimary(p) ==
    /\ edits < MaxEdits
    /\ primary' = p
    /\ edits' = edits + 1
    /\ UNCHANGED <<pools, keyIdx, call, ghostVars>>

-----------------------------------------------------------------------------
FailoverInit == /\ pools \in [Providers -> Pools]
                /\ primary \in Primaries
                /\ keyIdx = [p \in Providers |-> 0]
                /\ call = IdleCall
                /\ requests = <<>>
                /\ outcome = "none"
                /\ steady = Configured
                /\ lastPick = [p \in Providers |-> NoKey]
                /\ edits = 0

Factory == Fallback \/ Skip \/ Ask \/ Exhausted \/ RequestAnswered \/ Retry \/ FailOver

FailoverNext == \/ \E c \in Customs \cup {NoCustom} : StartText(c) \/ StartAudio(c)
                \/ Factory
                \/ \E p \in Providers, keys \in Pools : EditPool(p, keys)
                \/ \E p \in Primaries : ChangePrimary(p)

FailoverSpec == FailoverInit /\ [][FailoverNext]_failoverVars

\* Each request ends, by its deadline at the latest, and the worker goes on.
FairFailoverSpec == FailoverSpec /\ WF_failoverVars(Factory)

-----------------------------------------------------------------------------
FailoverTypeOK ==
    /\ pools \in [Providers -> Pools]
    /\ primary \in Primaries
    /\ keyIdx \in [Providers -> 0..(CounterRange - 1)]
    /\ call.phase \in {"idle", "turn", "wait", "audio", "fallback"}
    /\ call.custom \in Customs \cup {NoCustom}
    /\ call.attempt \in 0..MaxAttempts
    /\ outcome \in {"none", "answered", "failed"}
    /\ steady \subseteq Providers
    /\ lastPick \in [Providers -> Keys \cup {NoKey}]
    /\ edits \in 0..MaxEdits

\* "All AI providers failed" is said only when each one that had a key all
\* along was asked, whatever the panel changed meanwhile.
FailsLast ==
    outcome = "failed" =>
        \A p \in steady : \E i \in 1..Len(requests) : requests[i].entry = Entry(p, FALSE)

\* One call costs at most one request to each provider, two to Gemini, and
\* as many again to the chat's own.
CostBounded ==
    \A e \in {Entry(p, own) : p \in Providers, own \in BOOLEAN} :
       Cardinality({i \in 1..Len(requests) : requests[i].entry = e})
           <= IF e.provider = Gemini THEN MaxAttempts ELSE 1

\* The keys of a user or group pay for its own round only, and its own round
\* is never charged to the pool while it has a key.
OwnKeysOwnRound ==
    \A i \in 1..Len(requests) :
       LET r == requests[i]
           own == IF call.custom = NoCustom \/ call.custom.own = NotGiven THEN <<>>
                  ELSE call.custom.own
           isOwn == \E j \in 1..Len(own) : own[j] = r.key[1]
       IN call.phase \in {"turn", "wait"} =>
             (isOwn <=> r.entry.own /\ own # <<>>)

\* A pool of several keys is used in turn: no key is picked twice running
\* ("rotates the pool keys round-robin"), unless a chat's own list of keys,
\* which is rotated with the same counter, comes in between.
RoundRobin ==
    [][Ask /\ ~OwnKeys(Head(call.list)) =>
          LET p == Head(call.list).provider IN
          Len(pools[p]) > 1 => lastPick'[p] # lastPick[p]]_failoverVars

\* Every message gets its answer or its apology.
CallEnds == call.phase # "idle" ~> call.phase = "idle"

=============================================================================
