-------------------------------- MODULE Stalls --------------------------------
(***************************************************************************)
(* Lifecycle with calls that may never return.  Requests to the providers  *)
(* of text and speech have timeouts and the database a busy timeout, but   *)
(* three calls have none: the download of a voice message or document and  *)
(* its conversion by FFmpeg, in a client's event handler, and FFmpeg and   *)
(* the upload of a spoken answer, in the worker (sendMessageAudio).        *)
(*                                                                         *)
(* A goroutine in such a call is hung: it does nothing any more until the  *)
(* process is started again, and everything waiting for it waits, too.     *)
(* The panel, which no message waits for, is left out.                     *)
(***************************************************************************)
EXTENDS Lifecycle

VARIABLE hung   \* clients whose handler is hung, and the worker if it is

ASSUME StallsAssumption == Worker \notin Clients /\ Panels = {}

stallVars == <<vars, hung>>

StallInit == Init /\ hung = {}

\* The handler of c waits for a download or a conversion that never ends.
HandlerHangs(c) == /\ handling[c] # NoMessage
                   /\ hung' = hung \cup {c}
                   /\ UNCHANGED vars

\* The worker has stored an exchange and waits for FFmpeg or for the upload of
\* the voice; the deferred fold is still to come.
WorkerHangs == /\ At(Worker, "fold")
               /\ hung' = hung \cup {Worker}
               /\ UNCHANGED vars

HandlerGoes(c) == /\ c \notin hung
                  /\ \/ \E p \in Payload : Receive(c, p)
                     \/ GiveUp(c)
                  /\ UNCHANGED hung

SendGoes(c) == /\ c \notin hung
               /\ Deliver(c)
               /\ UNCHANGED hung

WorkerGoes == /\ Worker \notin hung
              /\ WorkerStep \/ ThreadStep(Worker)
              /\ UNCHANGED hung

\* The next process has no one hung.
StartAgain == Restart /\ hung' = {}

StallNext == \/ \E c \in Clients : HandlerGoes(c) \/ SendGoes(c) \/ HandlerHangs(c)
             \/ WorkerGoes \/ WorkerHangs
             \/ StartAgain

StallSpec == StallInit /\ [][StallNext]_stallVars

\* The worker goes on while it has work and is not hung, since whatever else it
\* waits for has a timeout.  A blocked sender is served, as Go wakes the senders
\* of a channel in the order they blocked: a send that is possible again and
\* again happens.  Nothing is assumed of handlers that download or convert, of
\* the panel, of hung calls, or that anybody restarts the process.
FairStallSpec == /\ StallSpec
                 /\ WF_stallVars(WorkerGoes)
                 /\ \A c \in Clients : SF_stallVars(SendGoes(c))

-----------------------------------------------------------------------------
\* Every message a handler accepted is settled in the end, if only because the
\* process stopped, unless the worker or the message's own handler hangs for
\* ever: neither a full channel, nor another client's traffic, nor another
\* client's handler that hangs, nor anything a command does holds one back.
\* ("Without it, a hung TTS provider would tie up the single FIFO queue worker
\* indefinitely" is the one thing that can, through the calls without timeout.)
EverySettled ==
    \A c \in Clients : \A s \in 1 .. MaxMessages :
        (accepted[c] >= s) ~> \/ <<c, s>> \in done \cup refused \cup lost
                              \/ [](hung \cap {c, Worker} # {})

=============================================================================
