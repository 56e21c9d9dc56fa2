-------------------------- MODULE JobQueue_proofs --------------------------
(***************************************************************************)
(* Proofs about the message path, for any number of clients, any capacity  *)
(* and any number of messages.  The argument is about numbers: whatever is *)
(* still on its way has a higher number than what the worker took, a       *)
(* handler holds the newest message of its client, and nothing that is     *)
(* settled is on its way.                                                  *)
(***************************************************************************)
EXTENDS JobQueue, TLAPS

\* A handler holds the message its client was numbered last for.
HandlerHoldsNewest ==
    \A c \in Clients : handling[c] # NoMessage =>
        /\ handling[c].client = c
        /\ handling[c].seq = accepted[c]
        /\ taken[c] < accepted[c]

\* A queued message is newer than what was taken of its client, and older than
\* what its client's handler holds.
QueueBetween ==
    \A i \in DOMAIN queue :
        LET c == queue[i].client IN
        /\ taken[c] < queue[i].seq
        /\ queue[i].seq <= accepted[c]
        /\ handling[c] # NoMessage => queue[i].seq < accepted[c]

\* The messages of one client stand in the queue in their order.
QueueOrdered ==
    \A i, j \in DOMAIN queue :
        (i < j /\ queue[i].client = queue[j].client) => queue[i].seq < queue[j].seq

\* The job at hand is the one taken last of its client.
CurrentTaken ==
    /\ \A c \in Clients : taken[c] <= accepted[c]
    /\ current # NoMessage => taken[current.client] = current.seq

OrderInv == /\ HandlerHoldsNewest
            /\ QueueBetween
            /\ QueueOrdered
            /\ CurrentTaken

\* What is settled was accepted.
SettledWasAccepted ==
    \A c \in Clients, s \in 1 .. MaxMessages :
        <<c, s>> \in done \cup refused \cup lost => s <= accepted[c]

-----------------------------------------------------------------------------
(* The facts about sequences the steps use. *)

LEMMA AppendFacts ==
    ASSUME NEW S, NEW q \in Seq(S), NEW e \in S
    PROVE  /\ Append(q, e) \in Seq(S)
           /\ DOMAIN Append(q, e) = 1 .. Len(q) + 1
           /\ Len(Append(q, e)) = Len(q) + 1
           /\ \A i \in 1 .. Len(q) : Append(q, e)[i] = q[i]
           /\ Append(q, e)[Len(q) + 1] = e
  OBVIOUS

LEMMA TailFacts ==
    ASSUME NEW S, NEW q \in Seq(S), q # <<>>
    PROVE  /\ Head(q) \in S
           /\ Head(q) = q[1]
           /\ 1 \in DOMAIN q
           /\ Tail(q) \in Seq(S)
           /\ Len(Tail(q)) = Len(q) - 1
           /\ DOMAIN Tail(q) = 1 .. Len(q) - 1
           /\ \A i \in 1 .. Len(q) - 1 : Tail(q)[i] = q[i + 1]
  OBVIOUS

-----------------------------------------------------------------------------
\* A message of the right shape has an id of the right shape.
LEMMA IdType ==
    ASSUME NEW m \in Message
    PROVE  Id(m) \in MessageId
  BY DEF Message, Id, MessageId

LEMMA QueueElement ==
    ASSUME QueueTypeOK, NEW i \in DOMAIN queue
    PROVE  /\ queue[i] \in Message
           /\ queue[i].client \in Clients
           /\ queue[i].seq \in 1 .. MaxMessages
<1>1. queue[i] \in Message
  BY DEF QueueTypeOK
<1> QED  BY <1>1 DEF Message

LEMMA InFlightIds ==
    ASSUME QueueTypeOK
    PROVE  InFlight \subseteq MessageId
<1> SUFFICES ASSUME NEW x \in InFlight PROVE x \in MessageId
  OBVIOUS
<1>1. CASE x \in {Id(handling[c]) : c \in {d \in Clients : handling[d] # NoMessage}}
  <2>1. PICK c \in Clients : handling[c] # NoMessage /\ x = Id(handling[c])
    BY <1>1
  <2>2. handling[c] \in Message
    BY <2>1 DEF QueueTypeOK
  <2> QED  BY <2>1, <2>2, IdType
<1>2. CASE x \in {Id(queue[i]) : i \in DOMAIN queue}
  <2>1. PICK i \in DOMAIN queue : x = Id(queue[i])
    BY <1>2
  <2>2. queue[i] \in Message
    BY <2>1 DEF QueueTypeOK
  <2> QED  BY <2>1, <2>2, IdType
<1>3. CASE current # NoMessage /\ x = Id(current)
  <2>1. current \in Message
    BY <1>3 DEF QueueTypeOK
  <2> QED  BY <1>3, <2>1, IdType
<1> QED  BY <1>1, <1>2, <1>3 DEF InFlight

LEMMA QueueTypeStep ==
    ASSUME QueueTypeOK, [QueueNext]_queueVars
    PROVE  QueueTypeOK'
<1> USE QueueAssumption
<1>1. ASSUME NEW c \in Clients, NEW p \in Payload, Accept(c, p) PROVE QueueTypeOK'
  <2>1. [client |-> c, seq |-> accepted[c] + 1, body |-> p] \in Message
    BY <1>1 DEF Accept, QueueTypeOK, Message
  <2> QED  BY <1>1, <2>1 DEF Accept, QueueTypeOK, MessageId
<1>2. ASSUME NEW c \in Clients, Refuse(c) PROVE QueueTypeOK'
  <2>1. handling[c] \in Message
    BY <1>2 DEF Refuse, QueueTypeOK
  <2> QED  BY <1>2, <2>1, IdType DEF Refuse, QueueTypeOK
<1>3. ASSUME NEW c \in Clients, Enqueue(c) PROVE QueueTypeOK'
  BY <1>3, AppendFacts DEF Enqueue, QueueTypeOK
<1>4. CASE Take
  <2>1. Head(queue) \in Message /\ Tail(queue) \in Seq(Message)
        /\ Len(Tail(queue)) <= Capacity
    BY <1>4, TailFacts DEF Take, QueueTypeOK
  <2>2. Head(queue).client \in Clients /\ Head(queue).seq \in 0 .. MaxMessages
    BY <2>1 DEF Message
  <2>3. taken' \in [Clients -> 0 .. MaxMessages]
    BY <1>4, <2>2 DEF Take, QueueTypeOK
  <2> QED  BY <1>4, <2>1, <2>3 DEF Take, QueueTypeOK
<1>5. CASE Finish
  <2>1. current \in Message
    BY <1>5 DEF Finish, QueueTypeOK
  <2> QED  BY <1>5, <2>1, IdType DEF Finish, QueueTypeOK
<1>6. CASE Stop
  BY <1>6, InFlightIds DEF Stop, QueueTypeOK
<1>7. CASE UNCHANGED queueVars
  BY <1>7 DEF queueVars, QueueTypeOK
<1> QED  BY <1>1, <1>2, <1>3, <1>4, <1>5, <1>6, <1>7 DEF QueueNext

\* The type invariant of the message path; the queue never exceeds its buffer.
THEOREM QueueTypeCorrect == QueueSpec => []QueueTypeOK
<1>1. QueueInit => QueueTypeOK
  BY QueueAssumption DEF QueueInit, QueueTypeOK
<1> QED  BY <1>1, QueueTypeStep, PTL DEF QueueSpec

-----------------------------------------------------------------------------
(* The order of the messages. *)

LEMMA OrderStep ==
    ASSUME QueueTypeOK, OrderInv, [QueueNext]_queueVars
    PROVE  OrderInv'
<1> USE QueueAssumption
<1>0. QueueTypeOK'
  BY QueueTypeStep
<1>1. ASSUME NEW c \in Clients, NEW p \in Payload, Accept(c, p)
      PROVE  OrderInv'
  <2>1. /\ UNCHANGED <<queue, current, taken>>
        /\ handling[c] = NoMessage
        /\ handling' = [handling EXCEPT ![c] =
                          [client |-> c, seq |-> accepted[c] + 1, body |-> p]]
        /\ accepted' = [accepted EXCEPT ![c] = @ + 1]
    BY <1>1 DEF Accept
  <2>2. HandlerHoldsNewest'
    BY <2>1 DEF OrderInv, HandlerHoldsNewest, CurrentTaken, QueueTypeOK
  <2>3. ASSUME NEW i \in DOMAIN queue'
        PROVE  LET d == queue'[i].client IN
               /\ taken'[d] < queue'[i].seq
               /\ queue'[i].seq <= accepted'[d]
               /\ handling'[d] # NoMessage => queue'[i].seq < accepted'[d]
    <3>1. queue[i] \in Message /\ queue[i].client \in Clients
          /\ queue[i].seq \in 1 .. MaxMessages
      BY <2>1, <2>3, QueueElement
    <3> QED  BY <2>1, <2>3, <3>1 DEF OrderInv, QueueBetween, QueueTypeOK
  <2>4. QueueOrdered'
    BY <2>1 DEF OrderInv, QueueOrdered
  <2>5. CurrentTaken'
    BY <2>1 DEF OrderInv, CurrentTaken, QueueTypeOK
  <2> QED  BY <2>2, <2>3, <2>4, <2>5 DEF OrderInv, QueueBetween
<1>2. ASSUME NEW c \in Clients, Refuse(c)
      PROVE  OrderInv'
  BY <1>2 DEF Refuse, OrderInv, HandlerHoldsNewest, QueueBetween, QueueOrdered,
              CurrentTaken, QueueTypeOK, Message
<1>3. ASSUME NEW c \in Clients, Enqueue(c)
      PROVE  OrderInv'
  <2> DEFINE m == handling[c]
             n == Len(queue) + 1
  <2>1. /\ UNCHANGED <<accepted, current, taken>>
        /\ m \in Message /\ m # NoMessage
        /\ m.client = c /\ m.seq = accepted[c] /\ taken[c] < accepted[c]
        /\ queue' = Append(queue, m)
        /\ handling' = [handling EXCEPT ![c] = NoMessage]
    BY <1>3 DEF Enqueue, OrderInv, HandlerHoldsNewest, QueueTypeOK
  <2>2. /\ DOMAIN queue' = 1 .. n
        /\ \A i \in 1 .. Len(queue) : queue'[i] = queue[i]
        /\ queue'[n] = m
        /\ DOMAIN queue = 1 .. Len(queue) /\ Len(queue) \in Nat
        /\ queue \in Seq(Message)
    BY <2>1, AppendFacts DEF QueueTypeOK
  <2>3. HandlerHoldsNewest'
    BY <2>1 DEF OrderInv, HandlerHoldsNewest, QueueTypeOK
  <2>4. ASSUME NEW i \in DOMAIN queue'
        PROVE  LET d == queue'[i].client IN
               /\ taken'[d] < queue'[i].seq
               /\ queue'[i].seq <= accepted'[d]
               /\ handling'[d] # NoMessage => queue'[i].seq < accepted'[d]
    <3>1. CASE i = n
      BY <2>1, <2>2, <3>1 DEF QueueTypeOK
    <3>2. CASE i \in 1 .. Len(queue)
      <4>1. queue'[i] = queue[i] /\ queue[i] \in Message
            /\ queue[i].client \in Clients
        BY <2>2, <3>2, QueueElement
      <4> QED  BY <2>1, <2>2, <3>2, <4>1 DEF OrderInv, QueueBetween, QueueTypeOK
    <3> QED  BY <2>2, <2>4, <3>1, <3>2
  <2>5. ASSUME NEW i \in DOMAIN queue', NEW j \in DOMAIN queue',
               i < j, queue'[i].client = queue'[j].client
        PROVE  queue'[i].seq < queue'[j].seq
    <3>1. i \in 1 .. Len(queue) /\ queue'[i] = queue[i]
      BY <2>2, <2>5
    <3>2. CASE j = n
      BY <2>1, <2>2, <2>5, <3>1, <3>2 DEF OrderInv, QueueBetween
    <3>3. CASE j \in 1 .. Len(queue)
      BY <2>2, <2>5, <3>1, <3>3 DEF OrderInv, QueueOrdered
    <3> QED  BY <2>2, <2>5, <3>2, <3>3
  <2>6. CurrentTaken'
    BY <2>1 DEF OrderInv, CurrentTaken, QueueTypeOK
  <2> QED  BY <2>3, <2>4, <2>5, <2>6 DEF OrderInv, QueueBetween, QueueOrdered
<1>4. CASE Take
  <2> DEFINE m == Head(queue)
  <2>1. /\ UNCHANGED <<accepted, handling>>
        /\ queue # <<>>
        /\ current' = m
        /\ queue' = Tail(queue)
        /\ taken' = [taken EXCEPT ![m.client] = m.seq]
    BY <1>4 DEF Take
  <2>2. /\ m \in Message /\ m = queue[1] /\ 1 \in DOMAIN queue
        /\ DOMAIN queue' = 1 .. Len(queue) - 1
        /\ \A i \in 1 .. Len(queue) - 1 : queue'[i] = queue[i + 1]
        /\ DOMAIN queue = 1 .. Len(queue) /\ Len(queue) \in Nat
    BY <2>1, TailFacts DEF QueueTypeOK
  <2>3. /\ m.client \in Clients /\ m.seq \in 1 .. MaxMessages
        /\ taken[m.client] < m.seq
        /\ m.seq <= accepted[m.client]
        /\ handling[m.client] # NoMessage => m.seq < accepted[m.client]
        /\ taken'[m.client] = m.seq
        /\ \A d \in Clients : d # m.client => taken'[d] = taken[d]
    BY <2>1, <2>2 DEF OrderInv, QueueBetween, QueueTypeOK, Message
  <2>4. HandlerHoldsNewest'
    BY <2>1, <2>3 DEF OrderInv, HandlerHoldsNewest
  <2>5. ASSUME NEW i \in DOMAIN queue'
        PROVE  LET d == queue'[i].client IN
               /\ taken'[d] < queue'[i].seq
               /\ queue'[i].seq <= accepted'[d]
               /\ handling'[d] # NoMessage => queue'[i].seq < accepted'[d]
    <3>1. /\ queue'[i] = queue[i + 1] /\ i + 1 \in DOMAIN queue /\ 1 < i + 1
          /\ queue[i + 1].client \in Clients
      BY <2>2, <2>5, QueueElement
    <3>2. queue[i + 1].client = m.client => m.seq < queue[i + 1].seq
      BY <2>2, <3>1 DEF OrderInv, QueueOrdered
    <3> QED  BY <2>1, <2>3, <3>1, <3>2 DEF OrderInv, QueueBetween
  <2>6. ASSUME NEW i \in DOMAIN queue', NEW j \in DOMAIN queue',
               i < j, queue'[i].client = queue'[j].client
        PROVE  queue'[i].seq < queue'[j].seq
    BY <2>2, <2>6 DEF OrderInv, QueueOrdered
  <2>7. CurrentTaken'
    BY <2>1, <2>3 DEF OrderInv, CurrentTaken
  <2> QED  BY <2>4, <2>5, <2>6, <2>7 DEF OrderInv, QueueBetween, QueueOrdered
<1>5. CASE Finish
  BY <1>5 DEF Finish, OrderInv, HandlerHoldsNewest, QueueBetween, QueueOrdered, CurrentTaken
<1>6. CASE Stop
  BY <1>6 DEF Stop, OrderInv, HandlerHoldsNewest, QueueBetween, QueueOrdered, CurrentTaken
<1>7. CASE UNCHANGED queueVars
  BY <1>7 DEF queueVars, OrderInv, HandlerHoldsNewest, QueueBetween, QueueOrdered, CurrentTaken
<1> QED  BY <1>1, <1>2, <1>3, <1>4, <1>5, <1>6, <1>7 DEF QueueNext

LEMMA QueueInvariants == QueueSpec => [](QueueTypeOK /\ OrderInv)
<1>1. QueueInit => QueueTypeOK /\ OrderInv
  BY QueueAssumption DEF QueueInit, QueueTypeOK, OrderInv, HandlerHoldsNewest,
                         QueueBetween, QueueOrdered, CurrentTaken
<1> QED  BY <1>1, QueueTypeStep, OrderStep, PTL DEF QueueSpec

\* One step never takes an older message of a client than the last one.
LEMMA FifoStep ==
    ASSUME QueueTypeOK, OrderInv, [QueueNext]_queueVars,
           NEW c \in Clients, taken'[c] # taken[c]
    PROVE  taken'[c] > taken[c]
<1>1. ASSUME Take
      PROVE  taken'[c] > taken[c]
  <2>1. /\ Head(queue) = queue[1] /\ 1 \in DOMAIN queue
        /\ taken' = [taken EXCEPT ![Head(queue).client] = Head(queue).seq]
    BY <1>1, TailFacts DEF Take, QueueTypeOK
  <2>2. /\ queue[1].client \in Clients
        /\ taken[queue[1].client] < queue[1].seq
    BY <2>1, QueueElement DEF OrderInv, QueueBetween
  <2> QED  BY <2>1, <2>2 DEF QueueTypeOK
<1> QED
  BY <1>1 DEF QueueNext, Accept, Refuse, Enqueue, Finish, Stop, queueVars

\* The worker takes the messages of a client in the order they were accepted,
\* each at most once, for any number of clients and any capacity.
THEOREM FifoCorrect == QueueSpec => FifoPerClient
<1>1. QueueTypeOK /\ OrderInv /\ [QueueNext]_queueVars
        => [\A c \in Clients : taken'[c] # taken[c] => taken'[c] > taken[c]]_queueVars
  BY FifoStep
<1> QED  BY <1>1, QueueInvariants, PTL DEF QueueSpec, FifoPerClient

-----------------------------------------------------------------------------
(* What happens to every message. *)

\* The messages on their way, place by place.
LEMMA InFlightPlaces ==
    ASSUME NEW x
    PROVE  x \in InFlight <=>
             \/ \E c \in Clients : handling[c] # NoMessage /\ x = Id(handling[c])
             \/ \E i \in DOMAIN queue : x = Id(queue[i])
             \/ current # NoMessage /\ x = Id(current)
  BY DEF InFlight

LEMMA InFlightPlacesNext ==
    ASSUME NEW x
    PROVE  x \in InFlight' <=>
             \/ \E c \in Clients : handling'[c] # NoMessage /\ x = Id(handling'[c])
             \/ \E i \in DOMAIN queue' : x = Id(queue'[i])
             \/ current' # NoMessage /\ x = Id(current')
  BY DEF InFlight, Id

Settled == done \cup refused \cup lost

\* What the steps do to the messages on their way and to the settled ones.
LEMMA AcceptMoves ==
    ASSUME QueueTypeOK, NEW c \in Clients, NEW p \in Payload, Accept(c, p)
    PROVE  InFlight' = InFlight \cup {<<c, accepted[c] + 1>>}
<1>1. /\ handling[c] = NoMessage
      /\ handling'[c] = [client |-> c, seq |-> accepted[c] + 1, body |-> p]
      /\ \A d \in Clients : d # c => handling'[d] = handling[d]
      /\ UNCHANGED <<queue, current>>
  BY DEF Accept, QueueTypeOK
<1>2. handling'[c] # NoMessage /\ Id(handling'[c]) = <<c, accepted[c] + 1>>
  <2>1. handling'[c] \in Message
    BY <1>1, QueueAssumption DEF QueueTypeOK, Accept, Message
  <2> QED  BY <1>1, <2>1, QueueAssumption DEF Id
<1>3. ASSUME NEW x
      PROVE  x \in InFlight' <=> x \in InFlight \/ x = <<c, accepted[c] + 1>>
  BY <1>1, <1>2, InFlightPlaces, InFlightPlacesNext
<1> QED  BY <1>3

LEMMA RefuseMoves ==
    ASSUME QueueTypeOK, OrderInv, NEW c \in Clients, Refuse(c)
    PROVE  InFlight' = InFlight \ {Id(handling[c])}
<1>1. /\ handling[c] # NoMessage
      /\ handling'[c] = NoMessage
      /\ \A d \in Clients : d # c => handling'[d] = handling[d]
      /\ UNCHANGED <<queue, current>>
  BY DEF Refuse, QueueTypeOK
<1>2. Id(handling[c]) = <<c, accepted[c]>>
  BY <1>1 DEF Id, OrderInv, HandlerHoldsNewest
<1>3. ASSUME NEW d \in Clients, d # c, handling[d] # NoMessage
      PROVE  Id(handling[d]) # Id(handling[c])
  BY <1>2, <1>3 DEF Id, OrderInv, HandlerHoldsNewest
<1>4. ASSUME NEW i \in DOMAIN queue
      PROVE  Id(queue[i]) # Id(handling[c])
  BY <1>1, <1>2, <1>4, QueueElement DEF Id, OrderInv, QueueBetween, QueueTypeOK
<1>5. ASSUME current # NoMessage
      PROVE  Id(current) # Id(handling[c])
  <2>1. current \in Message
    BY <1>5 DEF QueueTypeOK
  <2> QED  BY <1>1, <1>2, <1>5, <2>1
              DEF Id, OrderInv, CurrentTaken, HandlerHoldsNewest, QueueTypeOK, Message
<1>6. ASSUME NEW x
      PROVE  x \in InFlight' <=> x \in InFlight /\ x # Id(handling[c])
  BY <1>1, <1>3, <1>4, <1>5, InFlightPlaces, InFlightPlacesNext
<1> QED  BY <1>6

LEMMA EnqueueMoves ==
    ASSUME QueueTypeOK, NEW c \in Clients, Enqueue(c)
    PROVE  InFlight' = InFlight
<1> DEFINE n == Len(queue) + 1
<1>1. /\ handling[c] # NoMessage
      /\ handling[c] \in Message
      /\ handling'[c] = NoMessage
      /\ \A d \in Clients : d # c => handling'[d] = handling[d]
      /\ queue' = Append(queue, handling[c])
      /\ current' = current
  BY DEF Enqueue, QueueTypeOK
<1>2. /\ DOMAIN queue' = 1 .. n
      /\ \A i \in 1 .. Len(queue) : queue'[i] = queue[i]
      /\ queue'[n] = handling[c]
      /\ DOMAIN queue = 1 .. Len(queue) /\ Len(queue) \in Nat
  BY <1>1, AppendFacts DEF QueueTypeOK
<1>3. ASSUME NEW x
      PROVE  (\E i \in DOMAIN queue' : x = Id(queue'[i]))
               <=> (\E i \in DOMAIN queue : x = Id(queue[i])) \/ x = Id(handling[c])
  <2>1. \A i \in DOMAIN queue' : i \in DOMAIN queue \/ i = n
    BY <1>2
  <2>2. DOMAIN queue \subseteq DOMAIN queue' /\ n \in DOMAIN queue'
    BY <1>2
  <2> QED  BY <1>2, <2>1, <2>2
<1>4. ASSUME NEW x
      PROVE  x \in InFlight' <=> x \in InFlight
  BY <1>1, <1>3, InFlightPlaces, InFlightPlacesNext
<1> QED  BY <1>4

LEMMA TakeMoves ==
    ASSUME QueueTypeOK, Take
    PROVE  InFlight' = InFlight
<1> USE QueueAssumption
<1>1. /\ current = NoMessage /\ handling' = handling
      /\ current' = queue[1] /\ 1 \in DOMAIN queue
      /\ DOMAIN queue' = 1 .. Len(queue) - 1
      /\ \A i \in 1 .. Len(queue) - 1 : queue'[i] = queue[i + 1]
      /\ DOMAIN queue = 1 .. Len(queue) /\ Len(queue) \in Nat
  BY TailFacts DEF Take, QueueTypeOK
<1>2. current' # NoMessage
  BY <1>1, QueueElement
<1>3. ASSUME NEW x
      PROVE  (\E i \in DOMAIN queue : x = Id(queue[i]))
               <=> (\E i \in DOMAIN queue' : x = Id(queue'[i])) \/ x = Id(queue[1])
  <2>1. ASSUME NEW i \in DOMAIN queue, i # 1
        PROVE  i - 1 \in DOMAIN queue' /\ queue'[i - 1] = queue[i]
    BY <1>1, <2>1
  <2>2. ASSUME NEW i \in DOMAIN queue'
        PROVE  i + 1 \in DOMAIN queue /\ queue'[i] = queue[i + 1]
    BY <1>1, <2>2
  <2> QED  BY <1>1, <2>1, <2>2
<1>4. ASSUME NEW x
      PROVE  x \in InFlight' <=> x \in InFlight
  BY <1>1, <1>2, <1>3, InFlightPlaces, InFlightPlacesNext
<1> QED  BY <1>4

LEMMA FinishMoves ==
    ASSUME QueueTypeOK, OrderInv, Finish
    PROVE  InFlight' = InFlight \ {Id(current)}
<1>1. /\ current # NoMessage /\ current \in Message /\ current' = NoMessage
      /\ UNCHANGED <<handling, queue>>
      /\ taken[current.client] = current.seq
      /\ current.client \in Clients
  BY DEF Finish, QueueTypeOK, OrderInv, CurrentTaken, Message
<1>2. ASSUME NEW c \in Clients, handling[c] # NoMessage
      PROVE  Id(handling[c]) # Id(current)
  BY <1>1, <1>2 DEF Id, OrderInv, HandlerHoldsNewest, QueueTypeOK
<1>3. ASSUME NEW i \in DOMAIN queue
      PROVE  Id(queue[i]) # Id(current)
  BY <1>1, <1>3, QueueElement DEF Id, OrderInv, QueueBetween, QueueTypeOK
<1>4. ASSUME NEW x
      PROVE  x \in InFlight' <=> x \in InFlight /\ x # Id(current)
  BY <1>1, <1>2, <1>3, InFlightPlaces, InFlightPlacesNext
<1> QED  BY <1>4

\* Every message that was accepted is on its way or settled, none is both, and
\* none is settled twice.
SettledInv == NothingLost /\ SettledOnce /\ SettledWasAccepted

LEMMA SettledStep ==
    ASSUME QueueTypeOK, OrderInv, SettledInv, [QueueNext]_queueVars
    PROVE  SettledInv'
<1> USE QueueAssumption
<1>1. ASSUME NEW c \in Clients, NEW p \in Payload, Accept(c, p)
      PROVE  SettledInv'
  <2>1. /\ InFlight' = InFlight \cup {<<c, accepted[c] + 1>>}
        /\ UNCHANGED <<done, refused, lost>>
        /\ accepted[c] \in 0 .. MaxMessages /\ accepted[c] < MaxMessages
        /\ accepted'[c] = accepted[c] + 1
        /\ \A d \in Clients : d # c => accepted'[d] = accepted[d]
    BY <1>1, AcceptMoves DEF Accept, QueueTypeOK
  <2>2. <<c, accepted[c] + 1>> \notin Settled
    BY <2>1 DEF SettledInv, SettledWasAccepted, Settled
  <2>3. SettledOnce'
    BY <2>1, <2>2 DEF SettledInv, SettledOnce, Settled
  <2>4. SettledWasAccepted'
    BY <2>1 DEF SettledInv, SettledWasAccepted, QueueTypeOK
  <2>5. ASSUME NEW d \in Clients, NEW s \in 1 .. accepted'[d]
        PROVE  <<d, s>> \in InFlight' \cup done' \cup refused' \cup lost'
    <3>1. CASE d = c /\ s = accepted[c] + 1
      BY <2>1, <3>1
    <3>2. CASE s \in 1 .. accepted[d]
      BY <2>1, <3>2 DEF SettledInv, NothingLost
    <3> QED  BY <2>1, <2>5, <3>1, <3>2 DEF QueueTypeOK
  <2> QED  BY <2>3, <2>4, <2>5 DEF SettledInv, NothingLost
<1>2. ASSUME NEW c \in Clients, Refuse(c)
      PROVE  SettledInv'
  <2>1. /\ InFlight' = InFlight \ {Id(handling[c])}
        /\ Id(handling[c]) \in InFlight
        /\ Id(handling[c]) = <<c, accepted[c]>>
        /\ refused' = refused \cup {Id(handling[c])}
        /\ UNCHANGED <<accepted, done, lost>>
    BY <1>2, RefuseMoves, InFlightPlaces
       DEF Refuse, OrderInv, HandlerHoldsNewest, Id
  <2>2. NothingLost'
    BY <2>1 DEF SettledInv, NothingLost
  <2>3. SettledOnce'
    BY <2>1 DEF SettledInv, SettledOnce
  <2>4. SettledWasAccepted'
    BY <2>1 DEF SettledInv, SettledWasAccepted, QueueTypeOK
  <2> QED  BY <2>2, <2>3, <2>4 DEF SettledInv
<1>3. ASSUME NEW c \in Clients, Enqueue(c)
      PROVE  SettledInv'
  <2>1. InFlight' = InFlight /\ UNCHANGED <<accepted, done, refused, lost>>
    BY <1>3, EnqueueMoves DEF Enqueue
  <2> QED  BY <2>1 DEF SettledInv, NothingLost, SettledOnce, SettledWasAccepted
<1>4. CASE Take
  <2>1. InFlight' = InFlight /\ UNCHANGED <<accepted, done, refused, lost>>
    BY <1>4, TakeMoves DEF Take
  <2> QED  BY <2>1 DEF SettledInv, NothingLost, SettledOnce, SettledWasAccepted
<1>5. CASE Finish
  <2>1. /\ InFlight' = InFlight \ {Id(current)}
        /\ Id(current) \in InFlight
        /\ Id(current) = <<current.client, current.seq>>
        /\ done' = done \cup {Id(current)}
        /\ UNCHANGED <<accepted, refused, lost>>
    BY <1>5, FinishMoves, InFlightPlaces DEF Finish, Id
  <2>2. NothingLost'
    BY <2>1 DEF SettledInv, NothingLost
  <2>3. SettledOnce'
    BY <2>1 DEF SettledInv, SettledOnce
  <2>4. current.client \in Clients /\ current.seq <= accepted[current.client]
    <3>1. current \in Message
      BY <1>5 DEF Finish, QueueTypeOK
    <3>2. current.client \in Clients /\ current.seq = taken[current.client]
      BY <1>5, <3>1 DEF Finish, OrderInv, CurrentTaken, Message
    <3> QED  BY <3>2 DEF OrderInv, CurrentTaken
  <2>5. SettledWasAccepted'
    BY <2>1, <2>4 DEF SettledInv, SettledWasAccepted
  <2> QED  BY <2>2, <2>3, <2>5 DEF SettledInv
<1>6. CASE Stop
  <2>1. /\ lost' = lost \cup InFlight
        /\ UNCHANGED <<accepted, done, refused>>
    BY <1>6 DEF Stop
  <2>2. ASSUME NEW x
        PROVE  x \notin InFlight'
    BY <1>6, InFlightPlacesNext DEF Stop
  <2>3. NothingLost'
    BY <2>1 DEF SettledInv, NothingLost
  <2>4. SettledOnce'
    BY <2>1, <2>2 DEF SettledInv, SettledOnce
  <2>5. ASSUME NEW c \in Clients, NEW s \in 1 .. MaxMessages, <<c, s>> \in InFlight
        PROVE  s <= accepted[c]
    <3>1. ASSUME NEW d \in Clients, handling[d] # NoMessage, <<c, s>> = Id(handling[d])
          PROVE  s <= accepted[c]
      BY <3>1 DEF Id, OrderInv, HandlerHoldsNewest, QueueTypeOK
    <3>2. ASSUME NEW i \in DOMAIN queue, <<c, s>> = Id(queue[i])
          PROVE  s <= accepted[c]
      BY <3>2 DEF Id, OrderInv, QueueBetween
    <3>3. ASSUME current # NoMessage, <<c, s>> = Id(current)
          PROVE  s <= accepted[c]
      BY <3>3 DEF Id, OrderInv, CurrentTaken
    <3> QED  BY <2>5, <3>1, <3>2, <3>3, InFlightPlaces
  <2>6. SettledWasAccepted'
    BY <2>1, <2>5 DEF SettledInv, SettledWasAccepted
  <2> QED  BY <2>3, <2>4, <2>6 DEF SettledInv
<1>7. CASE UNCHANGED queueVars
  <2>1. InFlight' = InFlight /\ UNCHANGED <<accepted, done, refused, lost>>
    BY <1>7 DEF queueVars, InFlight, Id
  <2> QED  BY <2>1 DEF SettledInv, NothingLost, SettledOnce, SettledWasAccepted
<1> QED  BY <1>1, <1>2, <1>3, <1>4, <1>5, <1>6, <1>7 DEF QueueNext

\* No accepted message is dropped, whatever the number of handlers blocked at a
\* full channel, and none is settled twice, across restarts.
THEOREM SettledCorrect == QueueSpec => []NeitherLostNorTwice
<1>1. QueueInit => SettledInv
  <2> SUFFICES ASSUME QueueInit PROVE SettledInv
    OBVIOUS
  <2>1. ASSUME NEW x PROVE x \notin InFlight
    BY InFlightPlaces DEF QueueInit
  <2> QED  BY <2>1 DEF QueueInit, SettledInv, NothingLost, SettledOnce,
                       SettledWasAccepted
<1> QED  BY <1>1, QueueInvariants, SettledStep, PTL
     DEF QueueSpec, SettledInv, NeitherLostNorTwice

=============================================================================
