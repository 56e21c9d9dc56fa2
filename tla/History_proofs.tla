--------------------------- MODULE History_proofs ---------------------------
(***************************************************************************)
(* Proofs about the conversation history, for any trigger, any number of   *)
(* recent messages kept, any panels, failures and restarts.  Two facts     *)
(* about the block that a fold takes carry the argument: it is closed      *)
(* downwards, and it leaves at most the Keep newest messages, all of them. *)
(***************************************************************************)
EXTENDS History, FiniteSetTheorems, WellFoundedInduction, TLAPS

Types == /\ row \in Row
         /\ last \in 0 .. MaxMessages
         /\ messages \subseteq 1 .. last
         /\ worker \in [pc : Steps, user : Row, fresh : Row,
                        old : SUBSET (1 .. MaxMessages), digest : SUBSET (1 .. MaxMessages)]
         /\ panel \in [Panels -> [pc : {"idle", "save"}, user : Row]]
         /\ missed \in 0 .. MaxMissed
         /\ requests \in 0 .. MaxRequests
         /\ reverted \in BOOLEAN
         /\ worker.pc = "stored" => last < MaxMessages

Folding == {"summarise", "reread", "saveSummary", "prune"}

\* A block about to be folded is the oldest part of the history, and the
\* messages after it are those to keep.
BlockInv == worker.pc \in Folding =>
                /\ worker.old \subseteq messages
                /\ \A k \in worker.old : k <= last - Keep
                /\ \A k \in worker.old : \A m \in messages : m < k => m \in worker.old
                /\ Cardinality(messages \ worker.old) <= Keep

RecentInv == \A m \in 1 .. last : m > last - Keep => m \in messages

\* Unless an older summary was put back, the summary the job has in mind is
\* the row's, and the new one has the block in it.
SummaryInv ==
    \/ reverted
    \/ /\ 1 .. last \subseteq messages \cup row.summary
       /\ worker.pc \notin {"idle", "prune"} => worker.user.summary = row.summary
       /\ worker.pc \in {"reread", "saveSummary"}
             => worker.digest = row.summary \cup worker.old
       /\ worker.pc = "prune" => worker.old \subseteq row.summary

\* How far the history may be above the trigger, step by step.
Surplus == CASE worker.pc \in {"idle", "reply"} -> 0
             [] worker.pc = "stored" -> 1
             [] OTHER -> 2

SizeInv == Cardinality(messages) <= Trigger + 2 * missed + Surplus

-----------------------------------------------------------------------------
LEMMA MessagesFinite ==
    ASSUME Types, NEW S \in SUBSET messages
    PROVE  IsFiniteSet(S) /\ Cardinality(S) \in Nat
<1>1. IsFiniteSet(1 .. last)
  BY FS_Interval DEF Types
<1>2. IsFiniteSet(S)
  BY <1>1, FS_Subset DEF Types
<1> QED  BY <1>2, FS_CardinalityType

LEMMA SmallestOf ==
    ASSUME NEW S, S \subseteq Nat, S # {}
    PROVE  \E m \in S : \A k \in S : m <= k
<1> DEFINE R == {ss \in Nat \X Nat : ss[1] < ss[2]}
<1>1. IsWellFoundedOn(R, Nat)
  BY NatLessThanWellFounded DEF OpToRel
<1> HIDE DEF R
<1>2. PICK m \in S : \A k \in S : <<k, m>> \notin R
  BY <1>1, WFMin
<1>3. \A k \in S : ~ (k < m)
  BY <1>2 DEF R
<1> QED  BY <1>3

\* The messages before one, and it with those after it.
Below(m) == {k \in messages : k < m}
From(m) == {k \in messages : k >= m}

LEMMA BelowAndFrom ==
    ASSUME Types, NEW m \in messages
    PROVE  /\ IsFiniteSet(Below(m)) /\ Cardinality(Below(m)) \in Nat
           /\ IsFiniteSet(From(m)) /\ Cardinality(From(m)) \in Nat
           /\ Cardinality(messages) = Cardinality(Below(m)) + Cardinality(From(m))
<1>1. Below(m) \in SUBSET messages /\ From(m) \in SUBSET messages
  BY DEF Below, From
<1>2. IsFiniteSet(Below(m)) /\ Cardinality(Below(m)) \in Nat
  BY <1>1, MessagesFinite, Zenon
<1>6. IsFiniteSet(From(m)) /\ Cardinality(From(m)) \in Nat
  BY <1>1, MessagesFinite, Zenon
<1>3. \A k \in messages : k \in Nat
  BY DEF Types
<1>4. Below(m) \cap From(m) = {}
  BY <1>3 DEF Below, From
<1>5. Below(m) \cup From(m) = messages
  BY <1>3 DEF Below, From
<1>7. Cardinality(messages) =
        Cardinality(Below(m)) + Cardinality(From(m)) - Cardinality(Below(m) \cap From(m))
  BY <1>2, <1>5, <1>6, FS_Union, Zenon
<1>8. Cardinality(Below(m) \cap From(m)) = 0
  BY <1>4, FS_EmptySet, Zenon
<1> QED  BY <1>2, <1>6, <1>7, <1>8

\* What the block of the oldest messages is like, all but Keep.
LEMMA OldestFacts ==
    ASSUME Types, NEW old, old = Oldest(Cardinality(messages) - Keep)
    PROVE  /\ old \subseteq messages
           /\ \A k \in old : k <= last - Keep
           /\ \A k \in old : \A m \in messages : m < k => m \in old
           /\ Cardinality(messages \ old) <= Keep
<1> DEFINE n == Cardinality(messages) - Keep
<1> USE HistoryAssumption
<1>1. old = {m \in messages : Cardinality(Below(m)) < n}
  BY DEF Oldest, Below
<1>2. last \in Nat /\ \A k \in messages : k \in 1 .. last /\ k \in Nat
  BY DEF Types
<1>3. Cardinality(messages) \in Nat /\ n \in Int
  BY MessagesFinite
<1> HIDE DEF n
<1>4. ASSUME NEW k \in old, k > last - Keep
      PROVE  FALSE
  <2>1. k \in messages /\ k \in 1 .. last /\ Cardinality(Below(k)) < n
    BY <1>1, <1>2
  <2>2. IsFiniteSet(k .. last) /\ Cardinality(k .. last) = last - k + 1
    BY <1>2, <2>1, FS_Interval
  <2>3. From(k) \in SUBSET (k .. last)
    <3>1. \A m \in From(k) : m \in k .. last
      BY <1>2, <2>1 DEF From
    <3> QED  BY <3>1
  <2>4. Cardinality(From(k)) <= Cardinality(k .. last)
    BY <2>2, <2>3, FS_Subset, Zenon
  <2> QED  BY <1>2, <1>3, <1>4, <2>1, <2>2, <2>4, BelowAndFrom DEF n
<1>5. ASSUME NEW k \in old, NEW m \in messages, m < k
      PROVE  m \in old
  <2>1. k \in messages /\ IsFiniteSet(Below(k)) /\ Cardinality(Below(k)) < n
    BY <1>1, BelowAndFrom
  <2>2. Below(m) \in SUBSET Below(k)
    <3>1. \A j \in messages : j < m => j < k
      BY <1>2, <1>5, <2>1
    <3> QED  BY <3>1 DEF Below
  <2>3. Cardinality(Below(m)) <= Cardinality(Below(k))
    BY <2>1, <2>2, FS_Subset, Zenon
  <2>4. Cardinality(Below(m)) \in Nat /\ Cardinality(Below(k)) \in Nat
    BY <2>1, BelowAndFrom
  <2> QED  BY <1>1, <1>3, <2>1, <2>3, <2>4
<1>6. Cardinality(messages \ old) <= Keep
  <2>1. CASE messages \ old = {}
    BY <2>1, FS_EmptySet
  <2>2. CASE messages \ old # {}
    <3>1. (messages \ old) \subseteq Nat
      BY <1>2
    <3>2. PICK m \in messages \ old : \A k \in messages \ old : m <= k
      BY <2>2, <3>1, SmallestOf
    <3>3. (messages \ old) \in SUBSET From(m)
      BY <1>2, <3>2 DEF From
    <3>7. m \in messages /\ IsFiniteSet(From(m))
      BY <3>2, BelowAndFrom
    <3>4. Cardinality(messages \ old) <= Cardinality(From(m))
      BY <3>3, <3>7, FS_Subset, Zenon
    <3>5. ~ (Cardinality(Below(m)) < n)
      BY <1>1, <3>2
    <3>6. Cardinality(messages \ old) \in Nat
      BY MessagesFinite
    <3> QED  BY <1>3, <3>4, <3>5, <3>6, <3>7, BelowAndFrom DEF n
  <2> QED  BY <2>1, <2>2
<1>7. \A k \in old : k \in 1 .. last
  BY <1>1, <1>2
<1> QED  BY <1>1, <1>2, <1>4, <1>5, <1>6, <1>7

-----------------------------------------------------------------------------
(* Types. *)

LEMMA TypesStep ==
    ASSUME Types, [Next]_vars
    PROVE  Types'
<1> USE HistoryAssumption DEF Types
<1>1. CASE Fetch
  BY <1>1 DEF Fetch, At, Steps
<1>2. CASE SaveSettings
  BY <1>2 DEF SaveSettings, SaveRow, At, Idle, Row, Steps
<1>3. CASE StoreQuestion \/ StoreAnswer
  <2>1. last + 1 \in 0 .. MaxMessages /\ (StoreQuestion => last + 1 < MaxMessages)
    BY <1>3 DEF StoreQuestion, StoreAnswer, At
  <2>3. messages' = messages \cup {last + 1} /\ last' = last + 1
    BY <1>3 DEF StoreQuestion, StoreAnswer, Store
  <2>4. \A k \in messages' : k \in 1 .. last'
    <3>1. \A k \in messages : k \in 1 .. last
      OBVIOUS
    <3> QED  BY <2>1, <2>3, <3>1
  <2>2. messages' \subseteq 1 .. last' /\ last' = last + 1
    BY <2>3, <2>4
  <2> QED  BY <1>3, <2>1, <2>2 DEF StoreQuestion, StoreAnswer, Store, Go, At, Steps
<1>4. CASE ReplyFailed
  BY <1>4 DEF ReplyFailed, Go, At, Steps
<1>5. CASE AddXP
  BY <1>5 DEF AddXP, Go, At, Row, Steps
<1>6. CASE Count
  <2>4. \A k \in messages : k \in 1 .. MaxMessages
    <3>1. \A k \in messages : k \in 1 .. last
      OBVIOUS
    <3> QED  BY <3>1
  <2>1. Oldest(Cardinality(messages) - Keep) \in SUBSET (1 .. MaxMessages)
    BY <2>4, Zenon DEF Oldest
  <2> HIDE DEF Types
  <2>2. CASE Done /\ UNCHANGED <<row, messages, last, panel, requests, reverted>>
    BY <2>2 DEF Types, Done, Idle, Row, Steps
  <2>3. CASE /\ UNCHANGED <<row, messages, last, panel, requests, reverted, missed>>
             /\ worker' = [worker EXCEPT !.pc = "summarise",
                                         !.old = Oldest(Cardinality(messages) - Keep)]
    BY <2>1, <2>3 DEF Types, Steps
  <2> QED  BY <1>6, <2>2, <2>3 DEF Count
<1>7. CASE Summarise
  <2>1. worker.user.summary \cup worker.old \in SUBSET (1 .. MaxMessages)
    BY DEF Row
  <2> HIDE DEF Types
  <2>2. CASE /\ worker' = [worker EXCEPT !.pc = "reread",
                                         !.digest = worker.user.summary \cup worker.old]
             /\ UNCHANGED missed
    BY <1>7, <2>1, <2>2 DEF Types, Summarise, Row, Steps
  <2>3. CASE Abort
    BY <1>7, <2>3 DEF Types, Summarise, Abort, Idle, Row, Steps
  <2> QED  BY <1>7, <2>2, <2>3 DEF Summarise
<1>8. CASE Reread
  BY <1>8 DEF Reread, At, Steps
<1>9. CASE SaveSummary
  BY <1>9 DEF SaveSummary, Go, At, Row, Steps
<1>10. CASE Prune
  <2>1. \A k \in messages' : k \in 1 .. last'
    <3>1. \A k \in messages : k \in 1 .. last
      OBVIOUS
    <3> QED  BY <1>10, <3>1 DEF Prune
  <2>2. messages' \subseteq 1 .. last'
    BY <2>1
  <2> HIDE DEF Types
  <2> QED  BY <1>10, <2>2 DEF Types, Prune, Done, Idle, At, Row, Steps
<1>11. ASSUME NEW p \in Panels, PanelRead(p)
       PROVE  Types'
  <2>1. \A x \in Scores \cup {row.xp} : [row EXCEPT !.xp = x] \in Row
    BY DEF Row
  <2> QED  BY <1>11, <2>1 DEF PanelRead
<1>12. ASSUME NEW p \in Panels, PanelSave(p)
       PROVE  Types'
  BY <1>12 DEF PanelSave, SaveRow, IdlePanel, Row
<1>13. CASE Restart
  BY <1>13 DEF Restart, Abort, Idle, IdlePanel, At, Row, Steps
<1>14. CASE UNCHANGED vars
  BY <1>14 DEF vars
<1> QED  BY <1>1, <1>2, <1>3, <1>4, <1>5, <1>6, <1>7, <1>8, <1>9, <1>10, <1>11, <1>12,
            <1>13, <1>14 DEF Next

-----------------------------------------------------------------------------
(* The block that is folded, and the recent messages. *)

LEMMA BlockStep ==
    ASSUME Types, BlockInv, RecentInv, [Next]_vars
    PROVE  BlockInv' /\ RecentInv'
<1> USE HistoryAssumption
<1>1. CASE Count
  <2>1. CASE worker' = Idle
    BY <1>1, <2>1 DEF Count, Done, Idle, BlockInv, RecentInv, Folding
  <2>2. CASE worker' = [worker EXCEPT !.pc = "summarise",
                                      !.old = Oldest(Cardinality(messages) - Keep)]
    <3>1. /\ worker'.old = Oldest(Cardinality(messages) - Keep)
          /\ UNCHANGED <<messages, last>>
      BY <1>1, <2>2 DEF Count, Types
    <3>2. /\ worker'.old \subseteq messages
          /\ \A k \in worker'.old : k <= last - Keep
          /\ \A k \in worker'.old : \A m \in messages : m < k => m \in worker'.old
          /\ Cardinality(messages \ worker'.old) <= Keep
      BY <3>1, OldestFacts
    <3> QED  BY <3>1, <3>2 DEF BlockInv, RecentInv
  <2> QED  BY <1>1, <2>1, <2>2 DEF Count, Done
<1>2. CASE Prune
  <2>1. worker'.pc = "idle" /\ last' = last /\ worker.pc \in Folding
        /\ messages' = {m \in messages : \A k \in worker.old : m > k}
    BY <1>2 DEF Prune, Done, Idle, At, Folding
  <2>2. RecentInv'
    BY <2>1 DEF RecentInv, BlockInv, Types
  <2> QED  BY <2>1, <2>2 DEF BlockInv, Folding
<1>3. CASE StoreQuestion \/ StoreAnswer
  <2>1. /\ messages' = messages \cup {last + 1} /\ last' = last + 1
        /\ worker'.pc \in {"stored", "credit"}
    BY <1>3 DEF StoreQuestion, StoreAnswer, Store, Go, Types
  <2>2. RecentInv'
    BY <2>1 DEF RecentInv, Types
  <2> QED  BY <2>1, <2>2 DEF BlockInv, Folding
<1>4. CASE /\ UNCHANGED <<messages, last>>
           /\ worker'.pc \in Folding => worker.pc \in Folding /\ worker'.old = worker.old
  BY <1>4 DEF BlockInv, RecentInv
<1>5. CASE Summarise \/ Reread \/ SaveSummary
  <2>1. UNCHANGED <<messages, last>> /\ worker.pc \in Folding
    BY <1>5 DEF Summarise, Reread, SaveSummary, At, Folding
  <2>2. CASE Summarise
    <3>1. Abort => worker'.pc \notin Folding
      BY DEF Abort, Idle, Folding
    <3>2. worker' = [worker EXCEPT !.pc = "reread",
                                   !.digest = worker.user.summary \cup worker.old]
             => worker'.old = worker.old
      BY DEF Types
    <3>3. worker'.pc \in Folding => worker'.old = worker.old
      BY <2>2, <3>1, <3>2 DEF Summarise
    <3> QED  BY <1>4, <2>1, <3>3
  <2>3. CASE Reread \/ SaveSummary
    <3>1. worker'.old = worker.old
      BY <2>3 DEF Reread, SaveSummary, Go, Types
    <3> QED  BY <1>4, <2>1, <3>1
  <2> QED  BY <1>5, <2>2, <2>3
<1>6. CASE Fetch \/ SaveSettings \/ ReplyFailed \/ AddXP
  <2>1. UNCHANGED <<messages, last>>
    BY <1>6 DEF Fetch, SaveSettings, ReplyFailed, AddXP
  <2>2. worker'.pc = "reply" \/ worker'.pc = "idle" \/ worker'.pc = "count"
    <3>1. /\ [worker EXCEPT !.pc = "reply", !.user = row].pc = "reply"
          /\ [worker EXCEPT !.pc = "count"].pc = "count"
          /\ Idle.pc = "idle"
      BY DEF Idle, Types
    <3>2. \/ worker' = [worker EXCEPT !.pc = "reply", !.user = row]
          \/ worker' = [worker EXCEPT !.pc = "count"]
          \/ worker' = Idle
      BY <1>6 DEF Fetch, SaveSettings, ReplyFailed, AddXP, Go
    <3> QED  BY <3>1, <3>2
  <2>3. worker'.pc \notin Folding
    BY <2>2 DEF Folding
  <2> QED  BY <1>4, <2>1, <2>3
<1>7. CASE Restart
  BY <1>4, <1>7 DEF Restart, Abort, At, Idle, Folding, Types
<1>8. ASSUME NEW p \in Panels, PanelRead(p) \/ PanelSave(p)
      PROVE  UNCHANGED <<messages, last, worker>>
  BY <1>8 DEF PanelRead, PanelSave
<1>9. CASE UNCHANGED vars
  BY <1>4, <1>9 DEF vars
<1> QED  BY <1>1, <1>2, <1>3, <1>4, <1>5, <1>6, <1>7, <1>8, <1>9 DEF Next

LEMMA HistoryInvariants == Spec => [](Types /\ BlockInv /\ RecentInv)
<1>1. Init => Types /\ BlockInv /\ RecentInv
  <2> SUFFICES ASSUME Init
               PROVE  Types /\ BlockInv /\ RecentInv
    OBVIOUS
  <2>1. [summary |-> {}, xp |-> 0] \in Row
    BY DEF Row
  <2>2. Idle \in [pc : Steps, user : Row, fresh : Row,
                  old : SUBSET (1 .. MaxMessages), digest : SUBSET (1 .. MaxMessages)]
    BY <2>1 DEF Idle, Steps
  <2>3. IdlePanel \in [pc : {"idle", "save"}, user : Row]
    BY <2>1 DEF IdlePanel
  <2>4. Idle.pc = "idle"
    BY DEF Idle
  <2>5. Types
    <3>1. {} \subseteq 1 .. 0
      OBVIOUS
    <3>2. panel \in [Panels -> [pc : {"idle", "save"}, user : Row]]
      BY <2>3 DEF Init
    <3>3. /\ last \in 0 .. MaxMessages
          /\ missed \in 0 .. MaxMissed
          /\ requests \in 0 .. MaxRequests
      BY HistoryAssumption DEF Init
    <3>5. reverted \in BOOLEAN
      BY Zenon DEF Init
    <3>4. worker.pc # "stored"
      BY <2>4 DEF Init
    <3> QED  BY <2>1, <2>2, <3>1, <3>2, <3>3, <3>4, <3>5, Zenon DEF Init, Types
  <2>6. BlockInv
    BY <2>4 DEF Init, BlockInv, Folding
  <2>7. RecentInv
    BY DEF Init, RecentInv
  <2> QED  BY <2>5, <2>6, <2>7
<1>2. Types /\ BlockInv /\ RecentInv /\ [Next]_vars => (Types /\ BlockInv /\ RecentInv)'
  BY TypesStep, BlockStep
<1> QED  BY <1>1, <1>2, PTL DEF Spec

\* The Keep most recent messages are there word for word, whatever folds,
\* failures and restarts happen (maybeSummarizeHistory, PruneMessagesUpTo).
THEOREM RecentStay == Spec => []RecentKept
<1>1. Types /\ RecentInv => RecentKept
  BY DEF RecentInv, RecentKept
<1> QED  BY <1>1, HistoryInvariants, PTL

-----------------------------------------------------------------------------
(* The summary. *)

LEMMA SummaryStep ==
    ASSUME Types, BlockInv, SummaryInv, [Next]_vars
    PROVE  SummaryInv'
<1> USE HistoryAssumption
<1> DEFINE Kept == 1 .. last \subseteq messages \cup row.summary
           Copy == worker.pc \notin {"idle", "prune"} => worker.user.summary = row.summary
           Digest == worker.pc \in {"reread", "saveSummary"}
                        => worker.digest = row.summary \cup worker.old
           Saved == worker.pc = "prune" => worker.old \subseteq row.summary
<1>m. reverted => reverted'
  BY Zenon DEF Next, Fetch, SaveSettings, SaveRow, StoreQuestion, StoreAnswer, Store,
               ReplyFailed, AddXP, Count, Summarise, Reread, SaveSummary, Prune,
               PanelRead, PanelSave, Restart, vars
<1>0. SUFFICES ASSUME ~ reverted, ~ reverted'
               PROVE  Kept' /\ Copy' /\ Digest' /\ Saved'
  BY <1>m, Zenon DEF SummaryInv
<1>k. Kept /\ Copy /\ Digest /\ Saved
  BY <1>0, Zenon DEF SummaryInv
<1>1. CASE Fetch
  BY <1>1, <1>k DEF Fetch, At, Types
<1>2. CASE SaveSettings \/ \E p \in Panels : PanelSave(p)
  <2>1. row'.summary = row.summary /\ UNCHANGED <<messages, last>>
    BY <1>0, <1>2 DEF SaveSettings, PanelSave, SaveRow
  <2>2. worker'.pc = "idle" \/ worker' = worker
    BY <1>2 DEF SaveSettings, PanelSave, Idle
  <2> QED  BY <1>k, <2>1, <2>2
<1>3. CASE StoreQuestion \/ StoreAnswer
  <2>1. /\ messages' = messages \cup {last + 1} /\ last' = last + 1
        /\ row' = row /\ worker.pc \in {"reply", "stored"}
        /\ worker'.pc \in {"stored", "credit"} /\ worker'.user = worker.user
    BY <1>3 DEF StoreQuestion, StoreAnswer, Store, Go, At, Types
  <2>2. \A k \in 1 .. last' : k \in 1 .. last \/ k = last + 1
    BY <2>1 DEF Types
  <2>3. Kept'
    BY <1>k, <2>1, <2>2
  <2> QED  BY <1>k, <2>1, <2>3
<1>4. CASE ReplyFailed
  BY <1>4, <1>k DEF ReplyFailed, Go, At, Types
<1>5. CASE AddXP
  BY <1>5, <1>k DEF AddXP, Go, At, Types, Row
<1>6. CASE Count
  <2>1. UNCHANGED <<row, messages, last>> /\ worker.pc = "count"
    BY <1>6 DEF Count, At
  <2>2. CASE worker' = Idle
    BY <1>k, <2>1, <2>2 DEF Idle
  <2>3. CASE worker' = [worker EXCEPT !.pc = "summarise",
                                      !.old = Oldest(Cardinality(messages) - Keep)]
    <3>1. worker'.pc = "summarise" /\ worker'.user = worker.user
      BY <2>3 DEF Types
    <3> QED  BY <1>k, <2>1, <3>1
  <2> QED  BY <1>6, <2>2, <2>3 DEF Count, Done
<1>7. CASE Summarise
  <2>1. UNCHANGED <<row, messages, last>> /\ worker.pc = "summarise"
    BY <1>7 DEF Summarise, At
  <2>2. CASE Abort
    BY <1>k, <2>1, <2>2 DEF Abort, Idle
  <2>3. CASE worker' = [worker EXCEPT !.pc = "reread",
                                      !.digest = worker.user.summary \cup worker.old]
    BY <1>k, <2>1, <2>3 DEF Types
  <2> QED  BY <1>7, <2>2, <2>3 DEF Summarise
<1>8. CASE Reread
  BY <1>8, <1>k DEF Reread, At, Types
<1>9. CASE SaveSummary
  <2>1. /\ row'.summary = worker.digest /\ worker'.pc = "prune"
        /\ UNCHANGED <<messages, last>> /\ worker'.old = worker.old
        /\ worker.digest = row.summary \cup worker.old
    BY <1>9, <1>k DEF SaveSummary, Go, At, Types, Row
  <2> QED  BY <1>k, <2>1
<1>10. CASE Prune
  <2>1. /\ UNCHANGED <<row, last>> /\ worker'.pc = "idle"
        /\ messages' = {m \in messages : \A k \in worker.old : m > k}
        /\ worker.pc = "prune"
    BY <1>10 DEF Prune, Done, Idle, At
  <2>2. ASSUME NEW m \in messages, m \notin messages'
        PROVE  m \in row.summary
    <3>1. PICK k \in worker.old : ~ (m > k)
      BY <2>1, <2>2
    <3>2. k \in messages
      BY <2>1 DEF BlockInv, Folding
    <3>3. m \in worker.old
      BY <2>1, <3>1, <3>2 DEF BlockInv, Folding, Types
    <3> QED  BY <1>k, <2>1, <3>3
  <2>3. Kept'
    BY <1>k, <2>1, <2>2
  <2> QED  BY <2>1, <2>3
<1>11. CASE \E p \in Panels : PanelRead(p)
  BY <1>11, <1>k DEF PanelRead
<1>12. CASE Restart
  <2>1. UNCHANGED <<row, messages, last>>
    BY <1>12 DEF Restart
  <2>2. worker'.pc = "idle" \/ worker' = worker
    BY <1>12 DEF Restart, Abort, Idle
  <2> QED  BY <1>k, <2>1, <2>2
<1>13. CASE UNCHANGED vars
  BY <1>13, <1>k DEF vars
<1> QED  BY <1>1, <1>2, <1>3, <1>4, <1>5, <1>6, <1>7, <1>8, <1>9, <1>10, <1>11, <1>12,
            <1>13 DEF Next

\* Nothing said is lost while no handler has put an older summary back: it is
\* stored, or folded into the summary that is saved before the prune
\* (maybeSummarizeHistory; PruneMessagesUpTo's comment).
THEOREM NothingIsForgotten == Spec => []NothingForgotten
<1>1. Init => SummaryInv
  BY DEF Init, SummaryInv, Idle
<1>2. Types /\ BlockInv /\ SummaryInv /\ [Next]_vars => SummaryInv'
  BY SummaryStep
<1>3. SummaryInv => NothingForgotten
  BY DEF SummaryInv, NothingForgotten
<1> QED  BY <1>1, <1>2, <1>3, HistoryInvariants, PTL DEF Spec

-----------------------------------------------------------------------------
(* The size of the history. *)

LEMMA SizeStep ==
    ASSUME Types, BlockInv, SizeInv, [Next]_vars, Types'
    PROVE  SizeInv'
<1> USE HistoryAssumption
<1> DEFINE Size == Cardinality(messages)
<1>s. Size \in Nat /\ IsFiniteSet(messages) /\ missed \in Nat /\ missed' \in Nat
  <2>1. messages \in SUBSET messages
    OBVIOUS
  <2> QED  BY <2>1, MessagesFinite DEF Types
<1>t. Surplus \in {0, 1, 2} /\ Surplus' \in {0, 1, 2}
  BY DEF Surplus
<1>i. Size <= Trigger + 2 * missed + Surplus
  BY DEF SizeInv
<1>1. CASE StoreQuestion \/ StoreAnswer
  <2>1. /\ messages' = messages \cup {last + 1} /\ missed' = missed
        /\ Surplus' = Surplus + 1
    BY <1>1 DEF StoreQuestion, StoreAnswer, Store, Go, At, Surplus, Types
  <2>2. last + 1 \notin messages
    BY DEF Types
  <2>3. Cardinality(messages \cup {last + 1}) = Size + 1
    BY <1>s, <2>2, FS_AddElement, Zenon
  <2>4. Size' = Size + 1
    BY <2>1, <2>3, Zenon
  <2> HIDE DEF Size
  <2>5. Size' <= Trigger + 2 * missed' + Surplus'
    BY <1>i, <1>s, <1>t, <2>1, <2>4
  <2> QED  BY <2>5 DEF SizeInv, Size
<1>2. CASE Prune
  <2>1. /\ messages' = {m \in messages : \A k \in worker.old : m > k}
        /\ worker.pc = "prune"
    BY <1>2 DEF Prune, At
  <2>2. messages' \in SUBSET (messages \ worker.old)
    <3>1. \A k \in worker.old : k \in Nat
      BY DEF Types
    <3>2. \A m \in messages' : m \in messages /\ m \notin worker.old
      BY <2>1, <3>1
    <3> QED  BY <3>2
  <2>3. messages \ worker.old \in SUBSET messages
    OBVIOUS
  <2>4. /\ IsFiniteSet(messages \ worker.old)
        /\ Cardinality(messages \ worker.old) \in Nat
    BY <2>3, MessagesFinite, Zenon
  <2>5. Size' <= Cardinality(messages \ worker.old) /\ Size' \in Nat
    BY <2>2, <2>4, FS_Subset, FS_CardinalityType, Zenon
  <2>6. Cardinality(messages \ worker.old) <= Keep
    BY <2>1 DEF BlockInv, Folding
  <2>8. \A a, b \in Nat : a <= b /\ b <= Keep => a <= Trigger + 2 * missed' + Surplus'
    <3>1. missed' \in Nat /\ Surplus' \in Nat /\ Trigger \in Nat /\ Keep \in Nat /\ Keep < Trigger
      BY <1>s, <1>t
    <3>2. \A t, m, u \in Nat : t + 2 * m + u \in Nat /\ t <= t + 2 * m + u
      OBVIOUS
    <3>3. Trigger + 2 * missed' + Surplus' \in Nat /\ Trigger <= Trigger + 2 * missed' + Surplus'
      BY <3>1, <3>2, Zenon
    <3>4. ASSUME NEW a \in Nat, NEW b \in Nat, NEW c \in Nat, a <= b, b <= Keep, Trigger <= c
          PROVE  a <= c
      BY <3>1, <3>4
    <3> QED  BY <3>3, <3>4
  <2>7. Size' <= Trigger + 2 * missed' + Surplus'
    BY <2>4, <2>5, <2>6, <2>8, Zenon
  <2> QED  BY <2>7 DEF SizeInv, Size
<1>3. CASE Count
  <2>1. CASE Size <= Trigger
    <3>1. messages' = messages
      BY <1>3 DEF Count
    <3>2. Cardinality(messages') <= Trigger + 2 * missed' + Surplus'
      BY <1>s, <1>t, <2>1, <3>1
    <3> QED  BY <3>2 DEF SizeInv
  <2>2. CASE ~ (Size <= Trigger)
    BY <1>3, <2>2 DEF Count, At, SizeInv, Surplus, Types
  <2> QED  BY <2>1, <2>2
<1>4. CASE /\ messages' = messages
           /\ \/ missed' = missed /\ Surplus <= Surplus'
              \/ missed' = missed + 1
  <2>1. Cardinality(messages') <= Trigger + 2 * missed' + Surplus'
    BY <1>4, <1>i, <1>s, <1>t
  <2> QED  BY <2>1 DEF SizeInv
<1>5. CASE Fetch \/ SaveSettings \/ ReplyFailed \/ AddXP
  BY <1>4, <1>5 DEF Fetch, SaveSettings, ReplyFailed, AddXP, Go, At, Idle, Surplus, Types
<1>6. CASE Summarise
  <2>1. messages' = messages /\ worker.pc = "summarise"
    BY <1>6 DEF Summarise, At
  <2>2. CASE Abort
    BY <1>4, <2>1, <2>2 DEF Abort
  <2>3. CASE /\ worker' = [worker EXCEPT !.pc = "reread",
                                         !.digest = worker.user.summary \cup worker.old]
             /\ UNCHANGED missed
    BY <1>4, <2>1, <2>3 DEF Surplus, Types
  <2> QED  BY <1>6, <2>2, <2>3 DEF Summarise
<1>7. CASE Reread \/ SaveSummary
  <2>1. messages' = messages /\ missed' = missed /\ worker.pc \in {"reread", "saveSummary"}
    BY <1>7 DEF Reread, SaveSummary, At
  <2>2. worker'.pc \in {"saveSummary", "prune"}
    BY <1>7 DEF Reread, SaveSummary, Go, Types
  <2>3. Surplus = 2 /\ Surplus' = 2
    BY <2>1, <2>2 DEF Surplus
  <2> QED  BY <1>4, <2>1, <2>3
<1>8. CASE Restart
  BY <1>4, <1>8, <1>t DEF Restart, Abort, Surplus
<1>9. CASE \E p \in Panels : PanelRead(p) \/ PanelSave(p)
  BY <1>4, <1>9, <1>t DEF PanelRead, PanelSave, Surplus
<1>10. CASE UNCHANGED vars
  BY <1>4, <1>10, <1>t DEF vars, Surplus
<1> QED  BY <1>1, <1>2, <1>3, <1>5, <1>6, <1>7, <1>8, <1>9, <1>10 DEF Next

\* Between two jobs the history is above the trigger only by the exchanges
\* whose folds failed or were cut short (maybeSummarizeHistory).
THEOREM HistoryStaysBounded == Spec => []HistoryBounded
<1>1. Init => SizeInv
  BY FS_EmptySet, HistoryAssumption DEF Init, SizeInv, Surplus, Idle
<1>2. Types /\ BlockInv /\ SizeInv /\ [Next]_vars => SizeInv'
  BY TypesStep, SizeStep
<1>3. Types /\ SizeInv => HistoryBounded
  BY HistoryAssumption DEF Types, SizeInv, HistoryBounded, Surplus, At
<1> QED  BY <1>1, <1>2, <1>3, HistoryInvariants, PTL DEF Spec
=============================================================================
