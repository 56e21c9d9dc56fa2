------------------------------ MODULE History ------------------------------
(***************************************************************************)
(* What the tutor remembers of one student: the raw messages of table      *)
(* mensagems, the rolling summary and the XP on the student's row, the     *)
(* worker that answers, credits and folds old messages into the summary    *)
(* (ProcessWhatsAppMessage, maybeSummarizeHistory), and panel handlers     *)
(* that read the row, change one field and save the whole row.             *)
(*                                                                         *)
(* A message is its AUTOINCREMENT id, a summary the set of the messages    *)
(* whose content it carries.  The row keeps only those two fields; a save  *)
(* of another field is a save that leaves them as they were read.  Only    *)
(* the worker touches the messages, so counting them and reading the       *)
(* oldest is one step.  Erasure is in Lifecycle.                           *)
(***************************************************************************)
EXTENDS Integers, FiniteSets

CONSTANTS Panels,       \* panel request goroutines
          Trigger,      \* summaryTriggerCount
          Keep,         \* summaryKeepRecent
          Gain,         \* what CalculateXP grants for a message
          Scores,       \* XP values typed into the panel
          MaxMessages,  \* bound: messages stored
          MaxRequests,  \* bound: panel requests, and restarts
          MaxMissed     \* bound: folds in a row that fail or are cut short

ASSUME HistoryAssumption == /\ Trigger \in Nat
                            /\ Keep \in Nat
                            /\ Keep < Trigger
                            /\ Gain \in Nat
                            /\ Scores \subseteq Nat
                            /\ MaxMessages \in Nat
                            /\ MaxRequests \in Nat
                            /\ MaxMissed \in Nat

VARIABLES row,       \* the student's row: summary and xp
          messages,  \* ids in table mensagems
          last,      \* the id given last
          worker,    \* the job: step, row copies, block to fold, new summary
          panel,     \* per panel goroutine: step, and the row it will save
          missed,    \* folds in a row that failed or were cut short
          requests,  \* panel requests and restarts so far
          reverted   \* whether a save has put an older summary back

vars == <<row, messages, last, worker, panel, missed, requests, reverted>>

Row == [summary : SUBSET (1 .. MaxMessages), xp : Nat]
Steps == {"idle", "reply", "stored", "credit", "count", "summarise", "reread",
          "saveSummary", "prune"}

\* The row as the job first read it and as it is read again, the messages
\* about to be folded and the summary they went into.
Idle == [pc |-> "idle", user |-> [summary |-> {}, xp |-> 0],
         fresh |-> [summary |-> {}, xp |-> 0], old |-> {}, digest |-> {}]
IdlePanel == [pc |-> "idle", user |-> [summary |-> {}, xp |-> 0]]

Init == /\ row = [summary |-> {}, xp |-> 0]
        /\ messages = {}
        /\ last = 0
        /\ worker = Idle
        /\ panel = [p \in Panels |-> IdlePanel]
        /\ missed = 0
        /\ requests = 0
        /\ reverted = FALSE

\* A handler saves the whole row as it read it, with a field changed.
SaveRow(user) == /\ row' = user
                 /\ reverted' = (reverted \/ user.summary # row.summary)

At(step) == worker.pc = step
Go(step) == worker' = [worker EXCEPT !.pc = step]

-----------------------------------------------------------------------------
(* The worker. *)

\* The job reads the row it works with.
Fetch == /\ At("idle")
         /\ worker' = [worker EXCEPT !.pc = "reply", !.user = row]
         /\ UNCHANGED <<row, messages, last, panel, missed, requests, reverted>>

\* /language, /restart, /myai, the interview, a group message: the copy is
\* saved whole, with another field changed.
SaveSettings == /\ At("reply")
                /\ SaveRow(worker.user)
                /\ worker' = Idle
                /\ UNCHANGED <<messages, last, panel, missed, requests>>

\* SaveMessage: a new id.
Store(next) == /\ last' = last + 1
               /\ messages' = messages \cup {last + 1}
               /\ Go(next)
               /\ UNCHANGED <<row, panel, missed, requests, reverted>>

\* The reply is there; the student's message is stored first.
StoreQuestion == At("reply") /\ last + 2 <= MaxMessages /\ Store("stored")
StoreAnswer == At("stored") /\ Store("credit")

\* No provider answered.  The deferred fold runs all the same.
ReplyFailed == /\ At("reply")
               /\ Go("count")
               /\ UNCHANGED <<row, messages, last, panel, missed, requests, reverted>>

\* AddXP updates its column alone.
AddXP == /\ At("credit")
         /\ row' = [row EXCEPT !.xp = @ + Gain]
         /\ Go("count")
         /\ UNCHANGED <<messages, last, panel, missed, requests, reverted>>

Done == worker' = Idle /\ missed' = 0
Abort == worker' = Idle /\ missed < MaxMissed /\ missed' = missed + 1

\* The n messages with the lowest ids, or with the highest (rejected).
Oldest(n) == {m \in messages : Cardinality({k \in messages : k < m}) < n}
Newest(n) == {m \in messages : Cardinality({k \in messages : k > m}) < n}

\* Rejected: the wrong end of the history, a block of fixed size.
CountNewest ==
    /\ At("count")
    /\ IF Cardinality(messages) <= Trigger
       THEN Done
       ELSE /\ worker' = [worker EXCEPT !.pc = "summarise",
                                        !.old = Newest(Cardinality(messages) - Keep)]
            /\ UNCHANGED missed
    /\ UNCHANGED <<row, messages, last, panel, requests, reverted>>

CountFixed ==
    /\ At("count")
    /\ IF Cardinality(messages) <= Trigger
       THEN Done
       ELSE /\ worker' = [worker EXCEPT !.pc = "summarise",
                                        !.old = Oldest(Trigger - Keep)]
            /\ UNCHANGED missed
    /\ UNCHANGED <<row, messages, last, panel, requests, reverted>>

\* maybeSummarizeHistory: nothing to do up to the trigger; beyond it all but
\* the most recent messages are to be folded.
Count ==
    /\ At("count")
    /\ IF Cardinality(messages) <= Trigger
       THEN Done
       ELSE /\ worker' = [worker EXCEPT !.pc = "summarise",
                                        !.old = Oldest(Cardinality(messages) - Keep)]
            /\ UNCHANGED missed
    /\ UNCHANGED <<row, messages, last, panel, requests, reverted>>

\* Rejected: the earlier summary is left out of the prompt.
SummariseAfresh ==
    /\ At("summarise")
    /\ worker' = [worker EXCEPT !.pc = "reread", !.digest = worker.old]
    /\ UNCHANGED <<row, messages, last, panel, missed, requests, reverted>>

\* One LLM call over the summary the job read at its start and the block.  A
\* failed call or an empty answer ends the fold.
Summarise ==
    /\ At("summarise")
    /\ \/ /\ worker' = [worker EXCEPT !.pc = "reread",
                                      !.digest = worker.user.summary \cup worker.old]
          /\ UNCHANGED missed
       \/ Abort
    /\ UNCHANGED <<row, messages, last, panel, requests, reverted>>

Reread == /\ At("reread")
          /\ worker' = [worker EXCEPT !.pc = "saveSummary", !.fresh = row]
          /\ UNCHANGED <<row, messages, last, panel, missed, requests, reverted>>

SaveSummary == /\ At("saveSummary")
               /\ row' = [worker.fresh EXCEPT !.summary = worker.digest]
               /\ Go("prune")
               /\ UNCHANGED <<messages, last, panel, missed, requests, reverted>>

\* PruneMessagesUpTo the last folded id.
Prune == /\ At("prune")
         /\ messages' = {m \in messages : \A k \in worker.old : m > k}
         /\ Done
         /\ UNCHANGED <<row, last, panel, requests, reverted>>

-----------------------------------------------------------------------------
(* The panel: toggle-admin, XP, privacy and personal AI read the row by id,
   set their field and save all of it. *)

PanelRead(p) ==
    /\ panel[p].pc = "idle"
    /\ requests < MaxRequests
    /\ requests' = requests + 1
    /\ \E x \in Scores \cup {row.xp} :
          panel' = [panel EXCEPT ![p] = [pc |-> "save", user |-> [row EXCEPT !.xp = x]]]
    /\ UNCHANGED <<row, messages, last, worker, missed, reverted>>

PanelSave(p) == /\ panel[p].pc = "save"
                /\ SaveRow(panel[p].user)
                /\ panel' = [panel EXCEPT ![p] = IdlePanel]
                /\ UNCHANGED <<messages, last, worker, missed, requests>>

\* The process ends between two statements; the database is all that is left.
Restart == /\ requests < MaxRequests
           /\ requests' = requests + 1
           /\ IF At("idle") THEN UNCHANGED <<worker, missed>> ELSE Abort
           /\ panel' = [p \in Panels |-> IdlePanel]
           /\ UNCHANGED <<row, messages, last, reverted>>

Next == \/ Fetch \/ SaveSettings \/ StoreQuestion \/ StoreAnswer \/ ReplyFailed
        \/ AddXP \/ Count \/ Summarise \/ Reread \/ SaveSummary \/ Prune
        \/ \E p \in Panels : PanelRead(p) \/ PanelSave(p)
        \/ Restart

Spec == Init /\ [][Next]_vars

-----------------------------------------------------------------------------
\* Types; and a fold that has begun has something to fold.
TypeOK ==
    /\ row \in Row
    /\ messages \subseteq 1 .. last
    /\ last \in 0 .. MaxMessages
    /\ worker \in [pc : Steps, user : Row, fresh : Row,
                   old : SUBSET (1 .. MaxMessages), digest : SUBSET (1 .. MaxMessages)]
    /\ At("summarise") => worker.old # {}
    /\ panel \in [Panels -> [pc : {"idle", "save"}, user : Row]]
    /\ missed \in 0 .. MaxMissed
    /\ requests \in 0 .. MaxRequests
    /\ reverted \in BOOLEAN

\* Everything said is either there word for word or part of the summary on
\* the student's row, also after a crash or a failure at any step of a fold
\* (PruneMessagesUpTo: "the content survives, summarized/encrypted on the
\* user record"), unless a handler has saved a row it read before the fold.
NothingForgotten == reverted \/ 1 .. last \subseteq messages \cup row.summary

\* The most recent messages are there word for word at every moment, whatever
\* a fold, a failure or a restart did (summaryKeepRecent: "recent messages
\* kept raw after a prune").
RecentKept == {m \in 1 .. last : m > last - Keep} \subseteq messages

\* The stored history is bounded: between two jobs it is above the trigger
\* only by the exchanges whose folds failed or were cut short, and the first
\* fold that succeeds brings it back.
HistoryBounded == At("idle") => Cardinality(messages) <= Trigger + 2 * missed

=============================================================================
