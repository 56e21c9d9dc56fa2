------------------------------ MODULE JobQueue ------------------------------
(***************************************************************************)
(* The message path of the bot: one event handler goroutine per WhatsApp   *)
(* client, the bounded channel of internal/queue, and the single worker    *)
(* that main() starts with InitQueue(100, 1).                              *)
(*                                                                         *)
(* A client delivers its events one after the other, so a handler that is  *)
(* blocked on a full channel holds back its own client and no other.  The  *)
(* messages of a client are numbered in the order the handler accepted     *)
(* them; the number is the observer's, the code carries none.              *)
(***************************************************************************)
EXTENDS Integers, Sequences

CONSTANTS Clients,      \* the WhatsApp clients whose events reach handleEvent
          Payload,      \* what a message asks for
          NoMessage,    \* a value that is no message
          Capacity,     \* bufferSize of InitQueue
          MaxMessages   \* bound: messages accepted per client

Message == [client : Clients, seq : 1 .. MaxMessages, body : Payload]

ASSUME QueueAssumption == /\ Capacity \in Nat \ {0}
                          /\ MaxMessages \in Nat
                          /\ NoMessage \notin Message

VARIABLES accepted,   \* accepted[c]: how many messages c's handler let through
          handling,   \* handling[c]: the message c's handler is busy with
          queue,      \* jobQueue, the channel's buffer
          current,    \* the job inside ProcessFunc
          taken,      \* taken[c]: number of the last message of c the worker took
          done,       \* messages whose ProcessFunc returned
          refused,    \* messages the handler answered or dropped itself
          lost        \* messages in flight when the process stopped

queueVars == <<accepted, handling, queue, current, taken, done, refused, lost>>

MessageId == Clients \X (1 .. MaxMessages)
Id(m) == <<m.client, m.seq>>

\* The messages that are somewhere between the handler and the worker's return.
InFlight == {Id(handling[c]) : c \in {d \in Clients : handling[d] # NoMessage}}
            \cup {Id(queue[i]) : i \in DOMAIN queue}
            \cup (IF current = NoMessage THEN {} ELSE {Id(current)})

-----------------------------------------------------------------------------
QueueInit == /\ accepted = [c \in Clients |-> 0]
             /\ handling = [c \in Clients |-> NoMessage]
             /\ queue = <<>>
             /\ current = NoMessage
             /\ taken = [c \in Clients |-> 0]
             /\ done = {}
             /\ refused = {}
             /\ lost = {}

\* handleEvent lets a message of c through its age and sender checks.
Accept(c, p) ==
    /\ handling[c] = NoMessage
    /\ accepted[c] < MaxMessages
    /\ accepted' = [accepted EXCEPT ![c] = @ + 1]
    /\ handling' = [handling EXCEPT
                      ![c] = [client |-> c, seq |-> accepted[c] + 1, body |-> p]]
    /\ UNCHANGED <<queue, current, taken, done, refused, lost>>

\* handleEvent returns early: no FFmpeg, a failed download or conversion, an
\* unsupported type, a text that is too long.
Refuse(c) ==
    /\ handling[c] # NoMessage
    /\ refused' = refused \cup {Id(handling[c])}
    /\ handling' = [handling EXCEPT ![c] = NoMessage]
    /\ UNCHANGED <<accepted, queue, current, taken, done, lost>>

\* Rejected: a send that gives up on a full channel, and a stack.
EnqueueOrDrop(c) ==
    /\ handling[c] # NoMessage
    /\ queue' = IF Len(queue) < Capacity THEN Append(queue, handling[c]) ELSE queue
    /\ handling' = [handling EXCEPT ![c] = NoMessage]
    /\ UNCHANGED <<accepted, current, taken, done, refused, lost>>

EnqueueFirst(c) ==
    /\ handling[c] # NoMessage
    /\ Len(queue) < Capacity
    /\ queue' = <<handling[c]>> \o queue
    /\ handling' = [handling EXCEPT ![c] = NoMessage]
    /\ UNCHANGED <<accepted, current, taken, done, refused, lost>>

\* Enqueue: the send completes once the channel has room.
Enqueue(c) ==
    /\ handling[c] # NoMessage
    /\ Len(queue) < Capacity
    /\ queue' = Append(queue, handling[c])
    /\ handling' = [handling EXCEPT ![c] = NoMessage]
    /\ UNCHANGED <<accepted, current, taken, done, refused, lost>>

\* Rejected: the worker reads the next job and leaves it in the channel.
TakeAndKeep ==
    /\ current = NoMessage
    /\ queue # <<>>
    /\ current' = Head(queue)
    /\ taken' = [taken EXCEPT ![Head(queue).client] = Head(queue).seq]
    /\ UNCHANGED <<accepted, handling, queue, done, refused, lost>>

\* The worker's range loop receives the next job.
Take ==
    /\ current = NoMessage
    /\ queue # <<>>
    /\ current' = Head(queue)
    /\ queue' = Tail(queue)
    /\ taken' = [taken EXCEPT ![Head(queue).client] = Head(queue).seq]
    /\ UNCHANGED <<accepted, handling, done, refused, lost>>

\* ProcessFunc returns; an error is only logged.
Finish ==
    /\ current # NoMessage
    /\ done' = done \cup {Id(current)}
    /\ current' = NoMessage
    /\ UNCHANGED <<accepted, handling, queue, taken, refused, lost>>

\* main returns on the signal without draining; the next process starts empty.
Stop ==
    /\ lost' = lost \cup InFlight
    /\ handling' = [c \in Clients |-> NoMessage]
    /\ queue' = <<>>
    /\ current' = NoMessage
    /\ UNCHANGED <<accepted, taken, done, refused>>

QueueNext == \/ \E c \in Clients : \/ \E p \in Payload : Accept(c, p)
                                   \/ Refuse(c)
                                   \/ Enqueue(c)
             \/ Take
             \/ Finish
             \/ Stop

QueueSpec == QueueInit /\ [][QueueNext]_queueVars

-----------------------------------------------------------------------------
QueueTypeOK ==
    /\ accepted \in [Clients -> 0 .. MaxMessages]
    /\ handling \in [Clients -> Message \cup {NoMessage}]
    /\ queue \in Seq(Message)
    /\ Len(queue) <= Capacity
    /\ current \in Message \cup {NoMessage}
    /\ taken \in [Clients -> 0 .. MaxMessages]
    /\ done \subseteq MessageId
    /\ refused \subseteq MessageId
    /\ lost \subseteq MessageId

\* Every message a handler let through is in flight, processed or refused, or
\* was in flight when the process stopped: back-pressure from a full channel
\* blocks the sender and drops nothing (queue.Enqueue).
NothingLost ==
    \A c \in Clients : \A s \in 1 .. accepted[c] :
        <<c, s>> \in InFlight \cup done \cup refused \cup lost

\* The worker takes the messages of one client in the order its handler
\* accepted them, and none of them twice, however the handlers of several
\* clients interleave at a full channel ("processes a user message
\* sequentially from the FIFO queue").
FifoPerClient ==
    [][\A c \in Clients : taken'[c] # taken[c] => taken'[c] > taken[c]]_queueVars

\* No message is settled in two ways: what the worker finished is not also
\* refused, still queued or counted as lost.
SettledOnce == /\ done \cap refused = {}
               /\ done \cap lost = {}
               /\ refused \cap lost = {}
               /\ InFlight \cap (done \cup refused \cup lost) = {}

\* A message is settled exactly once: back-pressure drops nothing, and neither
\* the worker nor the end of the process deals twice with one.
NeitherLostNorTwice == NothingLost /\ SettledOnce

=============================================================================
