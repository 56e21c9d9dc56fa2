--------------------------- MODULE Lesson_proofs ---------------------------
(***************************************************************************)
(* Proofs about lessons, for any number of clients and messages, any       *)
(* capacity and any kinds of messages.  What the queue's own proofs say of *)
(* the ids on their way is used throughout: two places never hold one id,  *)
(* and what is settled is not on its way.                                  *)
(*                                                                         *)
(* The second half is about Failover, the call in which a lesson's answer  *)
(* is asked for, for any providers, pools, customs and contingency order.  *)
(***************************************************************************)
EXTENDS Lesson, Failover, JobQueue_proofs, FiniteSetTheorems, SequenceTheorems

QueueFacts == QueueTypeOK /\ OrderInv /\ SettledOnce

\* The worker has a step exactly while it has a job.
WorkerInv == step = "idle" <=> current = NoMessage

LessonTypes ==
    /\ step \in Steps
    /\ files \subseteq Uses \X MessageId
    /\ leftovers \subseteq Uses \X MessageId
    /\ stored \subseteq {"user", "bot"} \X MessageId
    /\ credited \subseteq MessageId
    /\ told \in [MessageId -> SUBSET Answers]
    /\ mute \subseteq MessageId

-----------------------------------------------------------------------------
(* The queue. *)

LEMMA TurnQueueStep ==
    ASSUME Turn
    PROVE  [QueueNext]_queueVars
<1>1. CASE Begin
  BY <1>1 DEF Begin, QueueNext
<1>2. CASE Clean
  BY <1>2 DEF Clean, QueueNext
<1>3. CASE EndEarly \/ Consider \/ Unreadable \/ Answered \/ Apologise
  BY <1>3 DEF EndEarly, Consider, Unreadable, Answered, Apologise
<1>4. CASE StoreQuestion \/ StoreAnswer \/ Credit \/ SendText
  BY <1>4 DEF StoreQuestion, StoreAnswer, Store, Credit, SendText
<1>5. CASE Synthesise \/ SpeechFails \/ SpeechCut
  BY <1>5 DEF Synthesise, SpeechFails, SpeechCut
<1>6. CASE PrepareVoice \/ SendVoice \/ VoiceNotSent
  BY <1>6 DEF PrepareVoice, SendVoice, VoiceNotSent
<1> QED  BY <1>1, <1>2, <1>3, <1>4, <1>5, <1>6 DEF Turn

LEMMA LessonQueueStep ==
    ASSUME [Next]_vars
    PROVE  [QueueNext]_queueVars
<1>1. ASSUME NEW c \in Clients, NEW p \in Payload, Arrive(c, p)
      PROVE  [QueueNext]_queueVars
  BY <1>1 DEF Arrive, QueueNext
<1>2. ASSUME NEW c \in Clients, Handler(c)
      PROVE  [QueueNext]_queueVars
  BY <1>2 DEF Handler, Reject, Download, Convert, ConvertFails, Deliver, QueueNext
<1>3. CASE Turn
  BY <1>3, TurnQueueStep
<1>4. CASE Restart
  BY <1>4 DEF Restart, QueueNext
<1>5. CASE UNCHANGED vars
  BY <1>5 DEF vars
<1> QED  BY <1>1, <1>2, <1>3, <1>4, <1>5 DEF Next

LEMMA LessonQueue == Spec => [](QueueFacts /\ NothingLost)
<1>1. [Next]_vars => [QueueNext]_queueVars
  BY LessonQueueStep
<1>2. Init => QueueInit
  BY DEF Init
<1>3. Spec => QueueSpec
  BY <1>1, <1>2, PTL DEF Spec, QueueSpec
<1> QED  BY <1>3, QueueInvariants, SettledCorrect, PTL
     DEF QueueFacts, NeitherLostNorTwice

-----------------------------------------------------------------------------
(* Types. *)

LEMMA CurrentId ==
    ASSUME QueueTypeOK, current # NoMessage
    PROVE  current \in Message /\ Id(current) \in MessageId
  BY IdType DEF QueueTypeOK

LEMMA FileType ==
    ASSUME NEW u \in Uses, NEW m \in Message
    PROVE  File(u, m) \in Uses \X MessageId
  BY IdType DEF File

LEMMA HandledFiles ==
    ASSUME QueueTypeOK, NEW c \in Clients, handling[c] # NoMessage
    PROVE  /\ handling[c] \in Message
           /\ \A u \in Uses : File(u, handling[c]) \in Uses \X MessageId
<1>1. handling[c] \in Message
  BY DEF QueueTypeOK
<1> QED  BY <1>1, FileType

LEMMA TypeStep ==
    ASSUME QueueTypeOK, LessonTypes, [Next]_vars
    PROVE  LessonTypes'
<1>a. ASSUME NEW what \in Answers, Tell(what), current # NoMessage
      PROVE  told' \in [MessageId -> SUBSET Answers]
  BY <1>a, CurrentId DEF Tell, LessonTypes
<1>b. current # NoMessage => \A u \in Uses : File(u, current) \in Uses \X MessageId
  BY CurrentId, FileType
<1>1. ASSUME NEW c \in Clients, Handler(c) PROVE LessonTypes'
  <2>1. handling[c] # NoMessage
    BY <1>1 DEF Handler, Reject, Download, Convert, ConvertFails, Deliver, Refuse
  <2>2. \A u \in Uses : File(u, handling[c]) \in Uses \X MessageId
    BY <2>1, HandledFiles
  <2>3. CASE Reject(c) \/ Deliver(c)
    BY <2>3 DEF Reject, Deliver, lessonVars, LessonTypes
  <2>4. CASE Download(c)
    BY <2>2, <2>4 DEF Download, exchangeVars, LessonTypes, Uses
  <2>5. CASE Convert(c)
    BY <2>2, <2>5 DEF Convert, exchangeVars, LessonTypes, Uses
  <2>6. CASE ConvertFails(c)
    BY <2>2, <2>6 DEF ConvertFails, exchangeVars, LessonTypes, Uses
  <2> QED  BY <1>1, <2>3, <2>4, <2>5, <2>6 DEF Handler
<1>2. CASE Begin \/ Consider \/ Answered \/ SpeechFails
  BY <1>2 DEF Begin, Consider, Answered, SpeechFails, fileVars, exchangeVars,
              LessonTypes, Steps, SpeechSteps
<1>3. CASE EndEarly \/ Unreadable \/ Apologise \/ SendText
  <2>1. told' \in [MessageId -> SUBSET Answers]
    BY <1>3, <1>a DEF EndEarly, Unreadable, Apologise, SendText, At, Answers, LessonTypes
  <2> QED  BY <1>3, <2>1 DEF EndEarly, Unreadable, Apologise, SendText, fileVars,
                             LessonTypes, Steps
<1>4. CASE StoreQuestion \/ StoreAnswer
  BY <1>4, CurrentId DEF StoreQuestion, StoreAnswer, Store, At, fileVars, LessonTypes, Steps
<1>5. CASE Credit
  BY <1>5, CurrentId DEF Credit, At, fileVars, LessonTypes, Steps, SpeechSteps
<1>6. CASE Synthesise \/ SpeechCut \/ PrepareVoice
  BY <1>6, <1>b DEF Synthesise, SpeechCut, PrepareVoice, At, exchangeVars, LessonTypes,
                    Steps, Uses
<1>7. CASE SendVoice
  BY <1>7, <1>a DEF SendVoice, At, LessonTypes, Steps, Answers
<1>8. CASE VoiceNotSent
  BY <1>8, CurrentId DEF VoiceNotSent, At, LessonTypes, Steps
<1>9. CASE Clean
  BY <1>9 DEF Clean, exchangeVars, LessonTypes, Steps
<1>10. CASE Restart
  BY <1>10 DEF Restart, exchangeVars, LessonTypes, Steps
<1>11. ASSUME NEW c \in Clients, NEW p \in Payload, Arrive(c, p) PROVE LessonTypes'
  BY <1>11 DEF Arrive, lessonVars, LessonTypes
<1>12. CASE UNCHANGED vars
  BY <1>12 DEF vars, lessonVars, LessonTypes
<1> QED  BY <1>1, <1>2, <1>3, <1>4, <1>5, <1>6, <1>7, <1>8, <1>9, <1>10, <1>11, <1>12
         DEF Next, Turn

LEMMA LessonTypesHold == Spec => []LessonTypes
<1>1. Init => LessonTypes
  BY DEF Init, LessonTypes, Steps
<1>2. QueueTypeOK /\ LessonTypes /\ [Next]_vars => LessonTypes'
  BY TypeStep
<1>3. Spec => []QueueTypeOK
  BY LessonQueue, PTL DEF QueueFacts
<1> QED  BY <1>1, <1>2, <1>3, PTL DEF Spec

\* The variables keep their types, the queue's included.
THEOREM LessonTypeCorrect == Spec => []TypeOK
<1>1. QueueTypeOK /\ LessonTypes => TypeOK
  BY DEF TypeOK, LessonTypes
<1> QED  BY <1>1, LessonQueue, LessonTypesHold, PTL DEF QueueFacts

-----------------------------------------------------------------------------
(* Ids on their way. *)

\* Two places between handler and worker never hold the same id.
LEMMA DistinctIds ==
    ASSUME QueueTypeOK, OrderInv
    PROVE  /\ \A c, d \in Clients : (/\ handling[c] # NoMessage
                                     /\ handling[d] # NoMessage
                                     /\ Id(handling[c]) = Id(handling[d])) => c = d
           /\ \A c \in Clients : handling[c] # NoMessage =>
                 \A i \in DOMAIN queue : Id(queue[i]) # Id(handling[c])
           /\ \A c \in Clients : handling[c] # NoMessage /\ current # NoMessage =>
                 Id(current) # Id(handling[c])
           /\ \A i \in DOMAIN queue : current # NoMessage =>
                 Id(queue[i]) # Id(current)
<1> USE DEF Id, OrderInv
<1>1. \A c, d \in Clients : (/\ handling[c] # NoMessage
                             /\ handling[d] # NoMessage
                             /\ Id(handling[c]) = Id(handling[d])) => c = d
  BY DEF HandlerHoldsNewest
<1>2. ASSUME NEW c \in Clients, handling[c] # NoMessage, NEW i \in DOMAIN queue,
             Id(queue[i]) = Id(handling[c])
      PROVE  FALSE
  <2>1. queue[i].client = c /\ queue[i].seq = accepted[c]
    BY <1>2 DEF HandlerHoldsNewest
  <2>2. queue[i].seq \in 1 .. MaxMessages /\ accepted[c] \in 0 .. MaxMessages
    BY <1>2, QueueElement DEF QueueTypeOK
  <2> QED  BY <1>2, <2>1, <2>2 DEF QueueBetween
<1>3. ASSUME NEW c \in Clients, handling[c] # NoMessage, current # NoMessage,
             Id(current) = Id(handling[c])
      PROVE  FALSE
  <2>1. current.client = c /\ current.seq = accepted[c] /\ taken[c] < accepted[c]
    BY <1>3 DEF HandlerHoldsNewest
  <2>2. taken[c] = accepted[c]
    BY <1>3, <2>1 DEF CurrentTaken
  <2>3. accepted[c] \in 0 .. MaxMessages
    BY DEF QueueTypeOK
  <2> QED  BY <2>1, <2>2, <2>3
<1>4. ASSUME NEW i \in DOMAIN queue, current # NoMessage, Id(queue[i]) = Id(current)
      PROVE  FALSE
  <2>1. queue[i].client = current.client /\ queue[i].seq = current.seq
    BY <1>4
  <2>2. taken[current.client] = current.seq /\ taken[queue[i].client] < queue[i].seq
    BY <1>4 DEF CurrentTaken, QueueBetween
  <2>3. queue[i].seq \in 1 .. MaxMessages
    BY <1>4, QueueElement
  <2> QED  BY <2>1, <2>2, <2>3
<1> QED  BY <1>1, <1>2, <1>3, <1>4

\* Whose message is in which place is on its way.
LEMMA PlacesInFlight ==
    /\ \A c \in Clients : handling[c] # NoMessage => Id(handling[c]) \in InFlight
    /\ \A i \in DOMAIN queue : Id(queue[i]) \in InFlight
    /\ current # NoMessage => Id(current) \in InFlight
  BY DEF InFlight

LEMMA PlacesInFlightNext ==
    /\ \A c \in Clients : handling'[c] # NoMessage => Id(handling'[c]) \in InFlight'
    /\ \A i \in DOMAIN queue' : Id(queue'[i]) \in InFlight'
    /\ current' # NoMessage => Id(current') \in InFlight'
  BY DEF InFlight

-----------------------------------------------------------------------------
(* Where the files are. *)

\* A file that somebody will remove belongs to the message in one place, and
\* its use to that place.
HandledFile(d, f) ==
    /\ handling[d] # NoMessage
    /\ f[2] = Id(handling[d])
    /\ \/ f[1] = "ogg" /\ handling[d].body = "voice"
       \/ f[1] \in {"mp3", "bin"} /\ File("ogg", handling[d]) \notin files

HandlersFile(f) == \E d \in Clients : HandledFile(d, f)

QueuedFile(f) == \E i \in DOMAIN queue : f[2] = Id(queue[i]) /\ f[1] \in {"mp3", "bin"}

WorkersFile(f) ==
    /\ current # NoMessage
    /\ f[2] = Id(current)
    /\ \/ f[1] \in {"mp3", "bin", "speech"}
       \/ f[1] = "opus" /\ step = "upload"

FilesPlaced == \A f \in files \ leftovers : HandlersFile(f) \/ QueuedFile(f) \/ WorkersFile(f)

FilesReady == /\ \A i \in DOMAIN queue : Ready(queue[i])
              /\ current # NoMessage => Ready(current)

\* Nothing is left over of a message that has still to be taken.
Explained(f) == \/ f[2] \in lost
                \/ f[1] = "mp3" /\ f[2] \in refused
                \/ f[1] = "speech" /\ f[2] \in done
                \/ f[1] = "speech" /\ current # NoMessage /\ f[2] = Id(current)

LeftoversExplained == \A f \in leftovers : Explained(f)

FilesInv == WorkerInv /\ FilesPlaced /\ FilesReady /\ LeftoversExplained

\* The files and the places they belong to stay as they are.
LEMMA FilesUntouched ==
    ASSUME FilesInv, UNCHANGED <<queueVars, files, leftovers>>,
           step = "upload" => step' = "upload", step \in Steps,
           step' = "idle" <=> step = "idle"
    PROVE  FilesInv'
<1> USE DEF queueVars
<1>1. WorkerInv'
  BY DEF FilesInv, WorkerInv
<1>2. FilesPlaced'
  BY DEF FilesInv, FilesPlaced, HandlersFile, HandledFile, QueuedFile, WorkersFile, File, Id
<1>3. FilesReady' /\ LeftoversExplained'
  BY DEF FilesInv, FilesReady, Ready, LeftoversExplained, Explained, Attachment, File, Id
<1> QED  BY <1>1, <1>2, <1>3 DEF FilesInv

LEMMA HandledStays ==
    ASSUME NEW f, NEW d \in Clients, HandledFile(d, f), handling'[d] = handling[d],
           File("ogg", handling[d]) \in files' => File("ogg", handling[d]) \in files
    PROVE  HandlersFile(f)'
<1>1. HandledFile(d, f)'
  BY DEF HandledFile, File, Id
<1> QED  BY <1>1 DEF HandlersFile

LEMMA OthersStay ==
    ASSUME NEW f, UNCHANGED <<queue, current>>, step = "upload" => step' = "upload",
           QueuedFile(f) \/ WorkersFile(f)
    PROVE  (QueuedFile(f) \/ WorkersFile(f))'
  BY DEF QueuedFile, WorkersFile, Id

LEMMA FileParts ==
    ASSUME LessonTypes, NEW f \in files
    PROVE  f[1] \in Uses /\ f[2] \in MessageId /\ f = <<f[1], f[2]>>
  BY DEF LessonTypes

LEMMA ArriveFiles ==
    ASSUME QueueFacts, FilesInv, NEW c \in Clients, NEW p \in Payload, Arrive(c, p)
    PROVE  FilesInv'
<1> USE DEF Arrive, Accept, lessonVars
<1>1. WorkerInv'
  BY DEF FilesInv, WorkerInv
<1>2. FilesPlaced'
  <2> SUFFICES ASSUME NEW f \in files \ leftovers
               PROVE  (HandlersFile(f) \/ QueuedFile(f) \/ WorkersFile(f))'
    BY DEF FilesPlaced
  <2>1. ASSUME NEW d \in Clients, HandledFile(d, f) PROVE HandlersFile(f)'
    <3>1. handling'[d] = handling[d]
      BY <2>1 DEF QueueFacts, QueueTypeOK, HandledFile
    <3> QED  BY <2>1, <3>1, HandledStays
  <2> QED  BY <2>1, OthersStay DEF FilesInv, FilesPlaced, HandlersFile
<1>3. FilesReady' /\ LeftoversExplained'
  BY DEF FilesInv, FilesReady, Ready, LeftoversExplained, Explained, Attachment, File, Id
<1> QED  BY <1>1, <1>2, <1>3 DEF FilesInv

LEMMA RejectFiles ==
    ASSUME QueueFacts, LessonTypes, FilesInv, NEW c \in Clients, Reject(c)
    PROVE  FilesInv'
<1> USE DEF Reject, Refuse, lessonVars
<1>1. WorkerInv'
  BY DEF FilesInv, WorkerInv
<1>2. FilesPlaced'
  <2> SUFFICES ASSUME NEW f \in files \ leftovers
               PROVE  (HandlersFile(f) \/ QueuedFile(f) \/ WorkersFile(f))'
    BY DEF FilesPlaced
  <2>1. ASSUME NEW d \in Clients, HandledFile(d, f) PROVE HandlersFile(f)'
    <3>1. d # c
      BY <2>1, FileParts DEF HandledFile, File
    <3>2. handling'[d] = handling[d]
      BY <3>1 DEF QueueFacts, QueueTypeOK
    <3> QED  BY <2>1, <3>2, HandledStays
  <2> QED  BY <2>1, OthersStay DEF FilesInv, FilesPlaced, HandlersFile
<1>3. FilesReady' /\ LeftoversExplained'
  BY DEF FilesInv, FilesReady, Ready, LeftoversExplained, Explained, Attachment, File, Id
<1> QED  BY <1>1, <1>2, <1>3 DEF FilesInv

\* What the handler writes or removes is its own message's.
LEMMA HandlerFiles ==
    ASSUME QueueFacts, LessonTypes, FilesInv, NEW c \in Clients,
           Download(c) \/ Convert(c)
    PROVE  FilesInv'
<1> DEFINE m == handling[c]
<1>0. /\ m # NoMessage
      /\ UNCHANGED <<queueVars, step, leftovers>>
      /\ \A f \in files' \ files : f[2] = Id(m)
      /\ \A f \in files \ files' : f = File("ogg", m)
  BY DEF Download, Convert, File
<1>1. WorkerInv'
  BY <1>0 DEF FilesInv, WorkerInv, queueVars
<1>2. ASSUME NEW f \in files' \ leftovers'
      PROVE  (HandlersFile(f) \/ QueuedFile(f) \/ WorkersFile(f))'
  <2>1. CASE f \in files
    <3>1. ASSUME NEW d \in Clients, HandledFile(d, f) PROVE HandlersFile(f)'
      <4>1. CASE d = c
        <5>1. f = <<f[1], f[2]>> /\ f[1] \in Uses
          BY <2>1, FileParts
        <5>2. CASE Download(c)
          <6>1. f = File(f[1], m)
            BY <3>1, <4>1, <5>1 DEF HandledFile, File
          <6> QED  BY <2>1, <5>1, <5>2, <6>1 DEF Download
        <5>3. CASE Convert(c)
          <6>1. File("ogg", m) \in files /\ File("ogg", m) \notin files'
            BY <5>3 DEF Convert, File
          <6>2. f = File("ogg", m)
            BY <3>1, <4>1, <5>1, <6>1 DEF HandledFile, File
          <6> QED  BY <1>2, <6>1, <6>2
        <5> QED  BY <5>2, <5>3
      <4>2. CASE d # c
        <5>1. File("ogg", handling[d]) \in files' => File("ogg", handling[d]) \in files
          BY <1>0, <3>1, <4>2, DistinctIds DEF HandledFile, File, QueueFacts
        <5> QED  BY <1>0, <3>1, <5>1, HandledStays DEF queueVars
      <4> QED  BY <4>1, <4>2
    <3> QED  BY <1>0, <2>1, <3>1, OthersStay DEF FilesInv, FilesPlaced, HandlersFile, queueVars
  <2>2. CASE f \notin files
    <3>1. HandledFile(c, f)'
      <4>1. CASE Download(c)
        <5>1. \/ m.body = "voice" /\ f = File("ogg", m)
              \/ f = File("bin", m) /\ File("ogg", m) \notin files'
          BY <2>2, <4>1 DEF Download, File, Uses
        <5> QED  BY <1>0, <5>1 DEF HandledFile, File, Id, queueVars
      <4>2. CASE Convert(c)
        <5>1. f = File("mp3", m) /\ File("ogg", m) \notin files'
          BY <2>2, <4>2 DEF Convert, File
        <5> QED  BY <1>0, <5>1 DEF HandledFile, File, Id, queueVars
      <4> QED  BY <4>1, <4>2
    <3> QED  BY <3>1 DEF HandlersFile
  <2> QED  BY <2>1, <2>2
<1>3. FilesReady' /\ LeftoversExplained'
  BY <1>0 DEF FilesInv, FilesReady, Ready, LeftoversExplained, Explained, Attachment, File, Id, queueVars
<1> QED  BY <1>1, <1>2, <1>3 DEF FilesInv, FilesPlaced

LEMMA ConvertFailsFiles ==
    ASSUME QueueFacts, LessonTypes, FilesInv, NEW c \in Clients, ConvertFails(c)
    PROVE  FilesInv'
<1> USE DEF ConvertFails, Refuse
<1> DEFINE m == handling[c]
<1>0. /\ m # NoMessage /\ File("ogg", m) \in files
      /\ \A f \in leftovers' \ leftovers : f = File("mp3", m)
      /\ \A f \in files' \ leftovers' : f \in files \ leftovers /\ f # File("ogg", m)
      /\ \A f \in files \ files' : f = File("ogg", m)
  BY DEF File
<1>1. WorkerInv'
  BY DEF FilesInv, WorkerInv
<1>2. ASSUME NEW f \in files' \ leftovers'
      PROVE  (HandlersFile(f) \/ QueuedFile(f) \/ WorkersFile(f))'
  <2>1. ASSUME NEW d \in Clients, HandledFile(d, f) PROVE HandlersFile(f)'
    <3>1. f = <<f[1], f[2]>>
      BY <1>0, <1>2, FileParts
    <3>2. d # c
      BY <1>0, <1>2, <2>1, <3>1 DEF HandledFile, File
    <3>3. handling'[d] = handling[d]
      BY <3>2 DEF QueueFacts, QueueTypeOK
    <3>4. File("ogg", handling[d]) \in files' => File("ogg", handling[d]) \in files
      BY DEF File
    <3> QED  BY <2>1, <3>3, <3>4, HandledStays
  <2> QED  BY <1>0, <1>2, <2>1, OthersStay DEF FilesInv, FilesPlaced, HandlersFile
<1>3. FilesReady'
  BY <1>0 DEF FilesInv, FilesReady, Ready, Attachment, File, Id
<1>4. LeftoversExplained'
  <2> SUFFICES ASSUME NEW f \in leftovers'
               PROVE  Explained(f)'
    BY DEF LeftoversExplained
  <2>1. CASE f \in leftovers
    BY <2>1 DEF FilesInv, LeftoversExplained, Explained, Id
  <2>2. CASE f \notin leftovers
    BY <1>0, <2>2 DEF Explained, File
  <2> QED  BY <2>1, <2>2
<1>5. FilesPlaced'
  BY <1>2 DEF FilesPlaced
<1> QED  BY <1>1, <1>3, <1>4, <1>5 DEF FilesInv

\* A message that waits to be delivered has nothing left over.
LEMMA NoEarlyLeftovers ==
    ASSUME QueueFacts, FilesInv, NEW f \in leftovers
    PROVE  /\ \A c \in Clients : handling[c] # NoMessage => f[2] # Id(handling[c])
           /\ \A i \in DOMAIN queue : f[2] # Id(queue[i])
<1>1. CASE f[2] \in lost \cup refused \cup done
  BY <1>1, PlacesInFlight DEF QueueFacts, SettledOnce
<1>2. CASE current # NoMessage /\ f[2] = Id(current)
  BY <1>2, DistinctIds DEF QueueFacts
<1> QED  BY <1>1, <1>2 DEF FilesInv, LeftoversExplained, Explained, Id

LEMMA DeliverFiles ==
    ASSUME QueueFacts, LessonTypes, FilesInv, NEW c \in Clients, Deliver(c)
    PROVE  FilesInv'
<1> USE DEF Deliver, Enqueue, lessonVars
<1> DEFINE m == handling[c]
<1>0. /\ m # NoMessage /\ m \in Message /\ queue \in Seq(Message)
      /\ queue' = Append(queue, m)
      /\ Len(queue) + 1 \in DOMAIN queue' /\ queue'[Len(queue) + 1] = m
      /\ \A i \in DOMAIN queue : i \in DOMAIN queue' /\ queue'[i] = queue[i]
      /\ \A i \in DOMAIN queue' : i \in DOMAIN queue \/ queue'[i] = m
  <2>1. m \in Message /\ queue \in Seq(Message)
    BY DEF QueueFacts, QueueTypeOK
  <2> QED  BY <2>1, AppendFacts
<1>1. WorkerInv'
  BY DEF FilesInv, WorkerInv
<1>2. ASSUME NEW f \in files' \ leftovers'
      PROVE  (HandlersFile(f) \/ QueuedFile(f) \/ WorkersFile(f))'
  <2>1. ASSUME NEW d \in Clients, HandledFile(d, f) PROVE HandlersFile(f)' \/ QueuedFile(f)'
    <3>1. CASE d # c
      <4>1. handling'[d] = handling[d]
        BY <3>1 DEF QueueFacts, QueueTypeOK
      <4> QED  BY <2>1, <4>1, HandledStays
    <3>2. CASE d = c
      <4>1. f[1] # "ogg"
        <5>1. SUFFICES ASSUME f[1] = "ogg" PROVE FALSE
          OBVIOUS
        <5>2. m.body = "voice" /\ f = File("ogg", m)
          BY <1>2, <2>1, <3>2, <5>1, FileParts DEF HandledFile, File
        <5>3. File("mp3", m) \in files \ leftovers
          BY <5>2, NoEarlyLeftovers, <1>0 DEF Ready, Attachment, File
        <5>4. /\ ~QueuedFile(File("mp3", m)) /\ ~WorkersFile(File("mp3", m))
              /\ \A e \in Clients : HandledFile(e, File("mp3", m)) => e = c
          BY <1>0, DistinctIds DEF QueueFacts, QueuedFile, WorkersFile, HandledFile, File
        <5>5. HandledFile(c, File("mp3", m))
          BY <5>3, <5>4 DEF FilesInv, FilesPlaced, HandlersFile
        <5> QED  BY <1>2, <5>2, <5>5 DEF HandledFile, File
      <4>2. f[2] = Id(m) /\ f[1] \in {"mp3", "bin"}
        BY <2>1, <3>2, <4>1 DEF HandledFile
      <4> QED  BY <1>0, <4>2 DEF QueuedFile, Id
    <3> QED  BY <3>1, <3>2
  <2>2. QueuedFile(f) => QueuedFile(f)'
    BY <1>0 DEF QueuedFile, Id
  <2>3. WorkersFile(f) => WorkersFile(f)'
    BY DEF WorkersFile, Id
  <2> QED  BY <1>2, <2>1, <2>2, <2>3 DEF FilesInv, FilesPlaced, HandlersFile
<1>3. FilesReady'
  BY <1>0 DEF FilesInv, FilesReady, Ready, Attachment, File, Id
<1>4. LeftoversExplained'
  BY DEF FilesInv, LeftoversExplained, Explained, Id
<1>5. FilesPlaced'
  BY <1>2 DEF FilesPlaced
<1> QED  BY <1>1, <1>3, <1>4, <1>5 DEF FilesInv

-----------------------------------------------------------------------------
(* The worker. *)

LEMMA BeginFiles ==
    ASSUME QueueFacts, LessonTypes, FilesInv, Begin
    PROVE  FilesInv'
<1> USE DEF Begin, Take, fileVars
<1>0. /\ queue \in Seq(Message) /\ queue # <<>>
      /\ current = NoMessage /\ current' = queue[1] /\ 1 \in DOMAIN queue
      /\ current' # NoMessage /\ step' = "read"
      /\ \A i \in DOMAIN queue' : queue'[i] = queue[i + 1] /\ i + 1 \in DOMAIN queue
      /\ \A i \in DOMAIN queue : i = 1 \/ (i - 1 \in DOMAIN queue' /\ queue'[i - 1] = queue[i])
  <2>1. queue \in Seq(Message) /\ queue # <<>>
    BY DEF QueueFacts, QueueTypeOK
  <2>2. /\ Head(queue) \in Message /\ Head(queue) = queue[1] /\ 1 \in DOMAIN queue
        /\ Len(Tail(queue)) = Len(queue) - 1
        /\ DOMAIN Tail(queue) = 1 .. Len(queue) - 1
        /\ \A i \in 1 .. Len(queue) - 1 : Tail(queue)[i] = queue[i + 1]
    BY <2>1, TailFacts
  <2>3. Head(queue) # NoMessage
    BY <2>2, QueueAssumption
  <2>4. DOMAIN queue = 1 .. Len(queue) /\ Len(queue) \in Nat
    BY <2>1
  <2>5. \A i \in DOMAIN queue : i = 1 \/ (i - 1 \in DOMAIN queue' /\ queue'[i - 1] = queue[i])
    BY <2>2, <2>4
  <2>6. \A i \in DOMAIN queue' : queue'[i] = queue[i + 1] /\ i + 1 \in DOMAIN queue
    BY <2>2, <2>4
  <2> QED  BY <2>1, <2>2, <2>3, <2>5, <2>6
<1>1. WorkerInv'
  BY <1>0 DEF WorkerInv
<1>2. ASSUME NEW f \in files' \ leftovers'
      PROVE  (HandlersFile(f) \/ QueuedFile(f) \/ WorkersFile(f))'
  <2>1. ASSUME NEW d \in Clients, HandledFile(d, f) PROVE HandlersFile(f)'
    BY <2>1, HandledStays
  <2>2. ASSUME NEW i \in DOMAIN queue, f[2] = Id(queue[i]), f[1] \in {"mp3", "bin"}
        PROVE  (QueuedFile(f) \/ WorkersFile(f))'
    <3>1. CASE i = 1
      <4>1. f[2] = Id(current)'
        BY <1>0, <2>2, <3>1 DEF Id
      <4> QED  BY <1>0, <2>2, <4>1 DEF WorkersFile
    <3>2. CASE i - 1 \in DOMAIN queue' /\ queue'[i - 1] = queue[i]
      BY <2>2, <3>2 DEF QueuedFile, Id
    <3> QED  BY <1>0, <3>1, <3>2
  <2>3. ~WorkersFile(f)
    BY <1>0 DEF WorkersFile
  <2> QED  BY <1>2, <2>1, <2>2, <2>3 DEF FilesInv, FilesPlaced, HandlersFile, QueuedFile
<1>3. FilesReady'
  BY <1>0 DEF FilesInv, FilesReady, Ready, Attachment, File, Id
<1>4. LeftoversExplained'
  BY <1>0 DEF FilesInv, LeftoversExplained, Explained, Id
<1>5. FilesPlaced'
  BY <1>2 DEF FilesPlaced
<1> QED  BY <1>1, <1>3, <1>4, <1>5 DEF FilesInv

\* The worker goes on and leaves the files alone.
LEMMA ThinkFiles ==
    ASSUME QueueFacts, LessonTypes, FilesInv,
           \/ EndEarly \/ Consider \/ Unreadable \/ Answered \/ Apologise
           \/ StoreQuestion \/ StoreAnswer \/ Credit \/ SendText \/ SpeechFails
    PROVE  FilesInv'
<1>1. UNCHANGED <<queueVars, files, leftovers>>
  BY DEF EndEarly, Consider, Unreadable, Answered, Apologise, StoreQuestion, StoreAnswer,
         Store, Credit, SendText, SpeechFails, fileVars
<1>2. step # "idle" /\ step # "upload" /\ step' # "idle"
  BY DEF EndEarly, Consider, Unreadable, Answered, Apologise, StoreQuestion, StoreAnswer,
         Store, Credit, SendText, SpeechFails, At, SpeechSteps
<1> QED  BY <1>1, <1>2, FilesUntouched DEF LessonTypes

\* The worker writes a file of the message at hand, or removes its voice.
LEMMA SpeechFiles ==
    ASSUME QueueFacts, LessonTypes, FilesInv,
           Synthesise \/ SpeechCut \/ PrepareVoice \/ SendVoice \/ VoiceNotSent
    PROVE  FilesInv'
<1>0. /\ current # NoMessage
      /\ UNCHANGED queueVars
      /\ \A f \in files' \ files : f \in {File("speech", current), File("opus", current)}
      /\ \A f \in files \ files' : f = File("opus", current)
      /\ leftovers \subseteq leftovers'
      /\ leftovers' \subseteq leftovers \cup {File("speech", current)}
      /\ step # "idle" /\ step' # "idle"
      /\ step = "upload" => File("opus", current) \notin files'
      /\ File("opus", current) \in files' \ files => step' = "upload"
  BY DEF Synthesise, SpeechCut, PrepareVoice, SendVoice, VoiceNotSent, At, SpeechSteps,
         File, Uses
<1>1. WorkerInv'
  BY <1>0 DEF WorkerInv, queueVars
<1>2. ASSUME NEW f \in files' \ leftovers'
      PROVE  (HandlersFile(f) \/ QueuedFile(f) \/ WorkersFile(f))'
  <2>1. CASE f \notin files
    <3>1. f[2] = Id(current) /\ f[1] \in {"speech", "opus"} /\ (f[1] = "opus" => step' = "upload")
      BY <1>0, <1>2, <2>1 DEF File
    <3>2. current' # NoMessage /\ f[2] = Id(current)'
      BY <1>0, <3>1 DEF Id, queueVars
    <3> QED  BY <3>1, <3>2 DEF WorkersFile
  <2>2. CASE f \in files
    <3>1. f \in files \ leftovers
      BY <1>0, <1>2, <2>2
    <3>2. ASSUME NEW d \in Clients, HandledFile(d, f) PROVE HandlersFile(f)'
      <4>1. File("ogg", handling[d]) \in files' => File("ogg", handling[d]) \in files
        BY <1>0 DEF File
      <4> QED  BY <1>0, <3>2, <4>1, HandledStays DEF queueVars
    <3>3. QueuedFile(f) => QueuedFile(f)'
      BY <1>0 DEF QueuedFile, Id, queueVars
    <3>4. ASSUME WorkersFile(f) PROVE WorkersFile(f)'
      <4>1. f[1] # "opus"
        <5>1. f = <<f[1], f[2]>>
          BY <2>2, FileParts
        <5> QED  BY <1>0, <1>2, <3>4, <5>1 DEF WorkersFile, File
      <4>2. current' # NoMessage /\ f[2] = Id(current)'
        BY <1>0, <3>4 DEF WorkersFile, Id, queueVars
      <4>3. f[1] \in {"mp3", "bin", "speech"}
        BY <3>4, <4>1 DEF WorkersFile
      <4> QED  BY <4>2, <4>3 DEF WorkersFile
    <3> QED  BY <3>1, <3>2, <3>3, <3>4 DEF FilesInv, FilesPlaced, HandlersFile
  <2> QED  BY <2>1, <2>2
<1>3. FilesReady'
  BY <1>0 DEF FilesInv, FilesReady, Ready, Attachment, File, Id, queueVars
<1>4. LeftoversExplained'
  BY <1>0 DEF FilesInv, LeftoversExplained, Explained, File, Id, queueVars
<1>5. FilesPlaced'
  BY <1>2 DEF FilesPlaced
<1> QED  BY <1>1, <1>3, <1>4, <1>5 DEF FilesInv

LEMMA CleanFiles ==
    ASSUME QueueFacts, LessonTypes, FilesInv, Clean
    PROVE  FilesInv'
<1> USE DEF Clean, Finish, exchangeVars
<1>0. /\ current # NoMessage /\ current' = NoMessage /\ step = "clean" /\ step' = "idle"
      /\ leftovers' = leftovers
      /\ files' \subseteq files
      /\ \A f \in files \ files' : \E u \in Uses : f = File(u, current)
      /\ \A f \in files' \ leftovers :
            f \notin {File("speech", current), File("bin", current), File("mp3", current)}
  BY DEF At, Uses
<1>1. WorkerInv'
  BY <1>0 DEF WorkerInv
<1>2. ASSUME NEW f \in files' \ leftovers'
      PROVE  (HandlersFile(f) \/ QueuedFile(f) \/ WorkersFile(f))'
  <2>1. ASSUME NEW d \in Clients, HandledFile(d, f) PROVE HandlersFile(f)'
    BY <1>0, <2>1, HandledStays
  <2>2. QueuedFile(f) => QueuedFile(f)'
    BY DEF QueuedFile, Id
  <2>3. ~WorkersFile(f)
    <3>1. f = <<f[1], f[2]>>
      BY <1>0, <1>2, FileParts
    <3> QED  BY <1>0, <1>2, <3>1 DEF WorkersFile, File
  <2> QED  BY <1>0, <1>2, <2>1, <2>2, <2>3 DEF FilesInv, FilesPlaced, HandlersFile
<1>3. FilesReady'
  <2> SUFFICES ASSUME NEW i \in DOMAIN queue, NEW u \in Attachment(queue[i].body)
               PROVE  File(u, queue[i]) \in files'
    BY <1>0 DEF FilesReady, Ready, File, Id, Attachment
  <2>1. File(u, queue[i]) \in files
    BY DEF FilesInv, FilesReady, Ready
  <2>2. \A v \in Uses : File(u, queue[i]) # File(v, current)
    BY <1>0, DistinctIds DEF QueueFacts, File
  <2> QED  BY <1>0, <2>1, <2>2
<1>4. LeftoversExplained'
  BY <1>0 DEF FilesInv, LeftoversExplained, Explained
<1>5. FilesPlaced'
  BY <1>2 DEF FilesPlaced
<1> QED  BY <1>1, <1>3, <1>4, <1>5 DEF FilesInv

\* What belongs to a place is on its way.
LEMMA PlacedInFlight ==
    ASSUME FilesInv, NEW f \in files \ leftovers
    PROVE  f[2] \in InFlight
<1>1. CASE HandlersFile(f)
  BY <1>1, PlacesInFlight DEF HandlersFile, HandledFile
<1>2. CASE QueuedFile(f)
  BY <1>2, PlacesInFlight DEF QueuedFile
<1>3. CASE WorkersFile(f)
  BY <1>3, PlacesInFlight DEF WorkersFile
<1> QED  BY <1>1, <1>2, <1>3 DEF FilesInv, FilesPlaced

LEMMA RestartFiles ==
    ASSUME QueueFacts, LessonTypes, FilesInv, Restart
    PROVE  FilesInv'
<1> USE DEF Restart, Stop, exchangeVars
<1>1. WorkerInv'
  BY DEF WorkerInv
<1>2. FilesPlaced' /\ FilesReady'
  BY DEF FilesPlaced, FilesReady
<1>3. ASSUME NEW f \in leftovers'
      PROVE  Explained(f)'
  <2>1. CASE f \in leftovers
    BY <2>1, PlacesInFlight DEF FilesInv, LeftoversExplained, Explained
  <2>2. CASE f \in files \ leftovers
    BY <2>2, PlacedInFlight DEF Explained
  <2> QED  BY <1>3, <2>1, <2>2
<1>4. LeftoversExplained'
  BY <1>3 DEF LeftoversExplained
<1> QED  BY <1>1, <1>2, <1>4 DEF FilesInv

LEMMA FilesStep ==
    ASSUME QueueFacts, LessonTypes, FilesInv, [Next]_vars
    PROVE  FilesInv'
<1>1. ASSUME NEW c \in Clients, NEW p \in Payload, Arrive(c, p) PROVE FilesInv'
  BY <1>1, ArriveFiles
<1>2. ASSUME NEW c \in Clients, Handler(c) PROVE FilesInv'
  BY <1>2, RejectFiles, HandlerFiles, ConvertFailsFiles, DeliverFiles DEF Handler
<1>3. CASE Turn
  BY <1>3, BeginFiles, ThinkFiles, SpeechFiles, CleanFiles DEF Turn
<1>4. CASE Restart
  BY <1>4, RestartFiles
<1>5. CASE UNCHANGED vars
  BY <1>5, FilesUntouched DEF vars, lessonVars, LessonTypes
<1> QED  BY <1>1, <1>2, <1>3, <1>4, <1>5 DEF Next

LEMMA FilesInvHolds == Spec => []FilesInv
<1>1. Init => FilesInv
  BY DEF Init, QueueInit, FilesInv, WorkerInv, FilesPlaced, FilesReady, LeftoversExplained
<1>2. QueueFacts /\ LessonTypes /\ FilesInv /\ [Next]_vars => FilesInv'
  BY FilesStep
<1> QED  BY <1>1, <1>2, LessonQueue, LessonTypesHold, PTL DEF Spec

\* No file gets lost on the way or stays behind unexplained, and the worker
\* always finds the one it needs.
THEOREM FilesFollow == Spec => []FilesFollowMessages
<1>1. FilesInv => FilesFollowMessages
  BY PlacedInFlight DEF FilesFollowMessages, FilesInv, FilesReady, LeftoversExplained, Explained
<1> QED  BY <1>1, FilesInvHolds, PTL

-----------------------------------------------------------------------------
(* What was told and what is remembered. *)

Untouched(m) == /\ Exchange(m) \cap stored = {}
                /\ m \notin credited
                /\ m \notin mute

\* All of the exchange is there, and its answer still to be sent.
Complete(m) == Exchange(m) \subseteq stored /\ m \in credited /\ m \notin mute

\* What a job leaves when it is done.
Outcome(m) == \/ Untouched(m) /\ told[m] \in {{}, {"notice"}}
              \/ Complete(m) /\ told[m] \in {{"text"}, {"voice"}}
              \/ Exchange(m) \subseteq stored /\ m \in credited /\ m \in mute /\ told[m] = {}

\* What the job at hand has done so far.
SoFar(m) ==
    CASE step \in {"read", "ask", "question"} -> Untouched(m) /\ told[m] = {}
      [] step \in {"answer", "credit"} ->
             /\ <<"user", m>> \in stored
             /\ <<"bot", m>> \in stored <=> step = "credit"
             /\ m \notin credited /\ m \notin mute /\ told[m] = {}
      [] step = "clean" -> Outcome(m)
      [] OTHER -> Complete(m) /\ told[m] = {}

\* Whatever the moment the process stopped at.
Interrupted(m) == \/ Outcome(m)
                  \/ m \notin mute /\ told[m] = {}

TurnOf(m) ==
    /\ current # NoMessage /\ m = Id(current) => SoFar(m)
    /\ m \in done => Outcome(m)
    /\ m \in lost => Interrupted(m)
    /\ ~(current # NoMessage /\ m = Id(current)) /\ m \notin done \cup lost =>
           Untouched(m) /\ told[m] = {}

TurnsInv == \A m \in MessageId : TurnOf(m)

\* Nothing was said or stored of m.
SameOf(m) == /\ Exchange(m) \cap stored' = Exchange(m) \cap stored
             /\ m \in credited' <=> m \in credited
             /\ m \in mute' <=> m \in mute
             /\ told'[m] = told[m]

LEMMA SameStays ==
    ASSUME NEW m \in MessageId, SameOf(m)
    PROVE  /\ Untouched(m)' <=> Untouched(m)
           /\ Complete(m)' <=> Complete(m)
           /\ Outcome(m)' <=> Outcome(m)
           /\ Interrupted(m)' <=> Interrupted(m)
<1>1. Untouched(m)' <=> Untouched(m)
  BY DEF SameOf, Untouched, Exchange
<1>2. Exchange(m) \subseteq stored' <=> Exchange(m) \subseteq stored
  BY DEF SameOf, Exchange
<1>3. Complete(m)' <=> Complete(m)
  BY <1>2 DEF SameOf, Complete, Exchange
<1>4. Outcome(m)' <=> Outcome(m)
  BY <1>1, <1>2, <1>3 DEF SameOf, Outcome, Exchange
<1> QED  BY <1>1, <1>3, <1>4 DEF Interrupted, SameOf

\* A step of the job at hand concerns its message alone.
LEMMA CurrentTurn ==
    ASSUME QueueFacts, TurnsInv, current # NoMessage, UNCHANGED queueVars,
           \A m \in MessageId : m # Id(current) => SameOf(m),
           SoFar(Id(current))'
    PROVE  TurnsInv'
<1> SUFFICES ASSUME NEW m \in MessageId PROVE TurnOf(m)'
  BY DEF TurnsInv
<1>1. TurnOf(m)
  BY DEF TurnsInv
<1>2. CASE m = Id(current)
  <2>1. m \notin done \cup lost
    BY <1>2, PlacesInFlight DEF QueueFacts, SettledOnce
  <2> QED  BY <1>2, <2>1 DEF TurnOf, Id, queueVars
<1>3. CASE m # Id(current)
  <2>1. SameOf(m)
    BY <1>3
  <2> QED  BY <1>1, <1>3, <2>1, SameStays DEF TurnOf, Id, queueVars, SameOf
<1> QED  BY <1>2, <1>3

LEMMA CurrentSoFar ==
    ASSUME QueueFacts, TurnsInv, current # NoMessage
    PROVE  Id(current) \in MessageId /\ SoFar(Id(current))
  BY CurrentId DEF QueueFacts, TurnsInv, TurnOf

LEMMA TellOnly ==
    ASSUME LessonTypes, QueueFacts, current # NoMessage, NEW what \in Answers, Tell(what),
           UNCHANGED <<stored, credited, mute>>
    PROVE  /\ told'[Id(current)] = told[Id(current)] \cup {what}
           /\ \A m \in MessageId : m # Id(current) => SameOf(m)
  BY CurrentId DEF Tell, LessonTypes, SameOf, QueueFacts

LEMMA SilentTurn ==
    ASSUME QueueFacts, LessonTypes, TurnsInv,
           Consider \/ Answered \/ Synthesise \/ SpeechFails \/ SpeechCut \/ PrepareVoice
    PROVE  TurnsInv'
<1> DEFINE m == Id(current)
<1>1. /\ current # NoMessage /\ UNCHANGED <<queueVars, exchangeVars>>
      /\ \/ step = "read" /\ step' = "ask"
         \/ step = "ask" /\ step' = "question"
         \/ /\ step \in SpeechSteps \cup {"voice"}
            /\ step' \in {"voice", "translate", "text", "upload"}
  BY DEF Consider, Answered, Synthesise, SpeechFails, SpeechCut, PrepareVoice, At,
         fileVars, SpeechSteps
<1>2. \A k \in MessageId : SameOf(k)
  BY <1>1 DEF SameOf, exchangeVars
<1>3. m \in MessageId /\ SoFar(m)
  BY <1>1, CurrentSoFar
<1>4. (Untouched(m) /\ told[m] = {})' <=> Untouched(m) /\ told[m] = {}
  BY <1>1 DEF Untouched, Exchange, exchangeVars, Id, queueVars
<1>5. (Complete(m) /\ told[m] = {})' <=> Complete(m) /\ told[m] = {}
  BY <1>1 DEF Complete, Exchange, exchangeVars, Id, queueVars
<1>6. SoFar(m)'
  <2>1. CASE step \in {"read", "ask"}
    BY <1>1, <1>3, <1>4, <2>1 DEF SoFar, SpeechSteps
  <2>2. CASE step \in SpeechSteps \cup {"voice"}
    BY <1>1, <1>3, <1>5, <2>2 DEF SoFar, SpeechSteps
  <2> QED  BY <1>1, <2>1, <2>2
<1> QED  BY <1>1, <1>2, <1>6, CurrentTurn

\* The job ends with a notice at most, and nothing to remember.
LEMMA NoticeTurn ==
    ASSUME QueueFacts, LessonTypes, TurnsInv, EndEarly \/ Unreadable \/ Apologise
    PROVE  TurnsInv'
<1> DEFINE m == Id(current)
<1>1. /\ current # NoMessage /\ step \in {"read", "ask"} /\ step' = "clean"
      /\ UNCHANGED <<queueVars, stored, credited, mute>>
      /\ Tell("notice") \/ UNCHANGED told
  BY DEF EndEarly, Unreadable, Apologise, At
<1>2. m \in MessageId /\ Untouched(m) /\ told[m] = {}
  BY <1>1, CurrentSoFar DEF SoFar
<1>3. /\ told'[m] \in {{}, {"notice"}}
      /\ \A k \in MessageId : k # m => SameOf(k)
  <2>1. CASE Tell("notice")
    BY <1>1, <1>2, <2>1, TellOnly DEF Answers
  <2>2. CASE UNCHANGED told
    BY <1>1, <1>2, <2>2 DEF SameOf
  <2> QED  BY <1>1, <2>1, <2>2
<1>4. Outcome(m)'
  BY <1>1, <1>2, <1>3 DEF Outcome, Untouched, Exchange, Id, queueVars
<1> QED  BY <1>1, <1>3, <1>4, CurrentTurn DEF SoFar

LEMMA StoreTurn ==
    ASSUME QueueFacts, LessonTypes, TurnsInv, StoreQuestion \/ StoreAnswer
    PROVE  TurnsInv'
<1> DEFINE m == Id(current)
<1>1. current # NoMessage /\ UNCHANGED <<queueVars, credited, told, mute>>
  BY DEF StoreQuestion, StoreAnswer, Store, At
<1>2. m \in MessageId /\ SoFar(m)
  BY <1>1, CurrentSoFar
<1>3. \A k \in MessageId : k # m => SameOf(k)
  BY <1>1 DEF StoreQuestion, StoreAnswer, Store, SameOf, Exchange
<1>4. CASE StoreQuestion
  <2>1. step' = "answer" /\ stored' = stored \cup {<<"user", m>>} /\ step = "question"
    BY <1>4 DEF StoreQuestion, Store, At
  <2>2. Untouched(m) /\ told[m] = {}
    BY <1>2, <2>1 DEF SoFar
  <2>3. SoFar(m)'
    BY <1>1, <2>1, <2>2 DEF SoFar, Untouched, Exchange, Id, queueVars
  <2> QED  BY <1>1, <1>3, <2>3, CurrentTurn
<1>5. CASE StoreAnswer
  <2>1. step' = "credit" /\ stored' = stored \cup {<<"bot", m>>} /\ step = "answer"
    BY <1>5 DEF StoreAnswer, Store, At
  <2>2. <<"user", m>> \in stored /\ m \notin credited /\ m \notin mute /\ told[m] = {}
    BY <1>2, <2>1 DEF SoFar
  <2>3. SoFar(m)'
    BY <1>1, <2>1, <2>2 DEF SoFar, Id, queueVars
  <2> QED  BY <1>1, <1>3, <2>3, CurrentTurn
<1> QED  BY <1>4, <1>5

LEMMA CreditTurn ==
    ASSUME QueueFacts, LessonTypes, TurnsInv, Credit
    PROVE  TurnsInv'
<1> DEFINE m == Id(current)
<1>1. /\ current # NoMessage /\ step = "credit" /\ step' \in {"text", "cloud", "edge"}
      /\ credited' = credited \cup {m}
      /\ UNCHANGED <<queueVars, stored, told, mute>>
  BY DEF Credit, At
<1>2. m \in MessageId /\ SoFar(m)
  BY <1>1, CurrentSoFar
<1>3. Exchange(m) \subseteq stored /\ m \notin mute /\ told[m] = {}
  BY <1>1, <1>2 DEF SoFar, Exchange
<1>4. (Complete(m) /\ told[m] = {})'
  BY <1>1, <1>3 DEF Complete, Exchange, Id, queueVars
<1>5. \A k \in MessageId : k # m => SameOf(k)
  BY <1>1 DEF SameOf
<1>6. SoFar(m)'
  BY <1>1, <1>4 DEF SoFar
<1> QED  BY <1>1, <1>5, <1>6, CurrentTurn

LEMMA SendTurn ==
    ASSUME QueueFacts, LessonTypes, TurnsInv, SendText \/ SendVoice
    PROVE  TurnsInv'
<1> DEFINE m == Id(current)
<1>1. /\ current # NoMessage /\ step \in {"text", "upload"} /\ step' = "clean"
      /\ UNCHANGED <<queueVars, stored, credited, mute>>
      /\ Tell("text") \/ Tell("voice")
  BY DEF SendText, SendVoice, At
<1>2. m \in MessageId /\ Complete(m) /\ told[m] = {}
  BY <1>1, CurrentSoFar DEF SoFar
<1>3. /\ told'[m] \in {{"text"}, {"voice"}}
      /\ \A k \in MessageId : k # m => SameOf(k)
  BY <1>1, <1>2, TellOnly DEF Answers
<1>4. Outcome(m)'
  BY <1>1, <1>2, <1>3 DEF Outcome, Complete, Exchange, Id, queueVars
<1> QED  BY <1>1, <1>3, <1>4, CurrentTurn DEF SoFar

LEMMA MuteTurn ==
    ASSUME QueueFacts, LessonTypes, TurnsInv, VoiceNotSent
    PROVE  TurnsInv'
<1> DEFINE m == Id(current)
<1>1. /\ current # NoMessage /\ step \in {"voice", "upload"} /\ step' = "clean"
      /\ UNCHANGED <<queueVars, stored, credited, told>>
      /\ mute' = mute \cup {m}
  BY DEF VoiceNotSent, At
<1>2. m \in MessageId /\ Complete(m) /\ told[m] = {}
  BY <1>1, CurrentSoFar DEF SoFar
<1>3. \A k \in MessageId : k # m => SameOf(k)
  BY <1>1 DEF SameOf
<1>4. Outcome(m)'
  BY <1>1, <1>2 DEF Outcome, Complete, Exchange, Id, queueVars
<1> QED  BY <1>1, <1>3, <1>4, CurrentTurn DEF SoFar

\* Handlers change nothing that the worker's side is about.
LEMMA HandlersTurn ==
    ASSUME TurnsInv, UNCHANGED <<current, done, lost, step, exchangeVars>>
    PROVE  TurnsInv'
<1> SUFFICES ASSUME NEW m \in MessageId PROVE TurnOf(m)'
  BY DEF TurnsInv
<1>1. TurnOf(m) /\ SameOf(m)
  BY DEF TurnsInv, SameOf, exchangeVars
<1>2. SoFar(m)' <=> SoFar(m)
  BY <1>1, SameStays DEF SoFar, SameOf, exchangeVars
<1> QED  BY <1>1, <1>2, SameStays DEF TurnOf, Id, SameOf

LEMMA BeginTurn ==
    ASSUME QueueFacts, TurnsInv, Begin
    PROVE  TurnsInv'
<1> SUFFICES ASSUME NEW m \in MessageId PROVE TurnOf(m)'
  BY DEF TurnsInv
<1>1. /\ current = NoMessage /\ queue # <<>> /\ current' = Head(queue) /\ step' = "read"
      /\ UNCHANGED <<done, lost, exchangeVars>>
  BY DEF Begin, Take
<1>2. TurnOf(m) /\ SameOf(m)
  BY <1>1 DEF TurnsInv, SameOf, exchangeVars
<1>3. Head(queue) = queue[1] /\ 1 \in DOMAIN queue /\ Head(queue) # NoMessage
  BY <1>1, TailFacts, QueueAssumption DEF QueueFacts, QueueTypeOK
<1>4. CASE m = Id(Head(queue))
  <2>1. m \notin done \cup lost
    BY <1>3, <1>4, PlacesInFlight DEF QueueFacts, SettledOnce
  <2>2. Untouched(m) /\ told[m] = {}
    BY <1>1, <1>2, <2>1 DEF TurnOf
  <2>3. SoFar(m)'
    BY <1>1, <1>2, <2>2, SameStays DEF SoFar, SameOf
  <2>4. current' # NoMessage /\ m = Id(current)'
    BY <1>1, <1>3, <1>4 DEF Id
  <2> QED  BY <1>1, <2>1, <2>3, <2>4 DEF TurnOf
<1>5. CASE m # Id(Head(queue))
  <2>1. ~(current' # NoMessage /\ m = Id(current)')
    BY <1>1, <1>5 DEF Id
  <2> QED  BY <1>1, <1>2, <2>1, SameStays DEF TurnOf, SameOf
<1> QED  BY <1>4, <1>5

LEMMA CleanTurn ==
    ASSUME QueueFacts, TurnsInv, Clean
    PROVE  TurnsInv'
<1> SUFFICES ASSUME NEW m \in MessageId PROVE TurnOf(m)'
  BY DEF TurnsInv
<1>1. /\ current # NoMessage /\ current' = NoMessage /\ step = "clean"
      /\ done' = done \cup {Id(current)}
      /\ UNCHANGED <<lost, exchangeVars>>
  BY DEF Clean, Finish, At
<1>2. TurnOf(m) /\ SameOf(m)
  BY <1>1 DEF TurnsInv, SameOf, exchangeVars
<1>3. CASE m = Id(current)
  <2>1. Outcome(m)
    BY <1>1, <1>2, <1>3 DEF TurnOf, SoFar
  <2>2. m \notin lost
    BY <1>1, <1>3, PlacesInFlight DEF QueueFacts, SettledOnce
  <2> QED  BY <1>1, <1>2, <1>3, <2>1, <2>2, SameStays DEF TurnOf
<1>4. CASE m # Id(current)
  BY <1>1, <1>2, <1>4, SameStays DEF TurnOf, SameOf
<1> QED  BY <1>3, <1>4

LEMMA RestartTurn ==
    ASSUME QueueFacts, TurnsInv, Restart
    PROVE  TurnsInv'
<1> SUFFICES ASSUME NEW m \in MessageId PROVE TurnOf(m)'
  BY DEF TurnsInv
<1>1. /\ current' = NoMessage /\ lost' = lost \cup InFlight
      /\ UNCHANGED <<done, exchangeVars>>
  BY DEF Restart, Stop
<1>2. TurnOf(m) /\ SameOf(m)
  BY <1>1 DEF TurnsInv, SameOf, exchangeVars
<1>3. ASSUME m \in InFlight PROVE m \notin done /\ Interrupted(m)
  <2>1. m \notin done \cup lost
    BY <1>3 DEF QueueFacts, SettledOnce
  <2>2. CASE current # NoMessage /\ m = Id(current)
    <3>1. SoFar(m)
      BY <1>2, <2>2 DEF TurnOf
    <3> QED  BY <2>1, <3>1 DEF SoFar, Interrupted, Untouched, Complete
  <2>3. CASE ~(current # NoMessage /\ m = Id(current))
    BY <1>2, <2>1, <2>3 DEF TurnOf, Interrupted, Untouched
  <2> QED  BY <2>1, <2>2, <2>3
<1>4. ASSUME m \notin lost' PROVE ~(current # NoMessage /\ m = Id(current))
  BY <1>1, <1>4, PlacesInFlight
<1> QED  BY <1>1, <1>2, <1>3, <1>4, SameStays DEF TurnOf, SameOf

LEMMA TurnsStep ==
    ASSUME QueueFacts, LessonTypes, TurnsInv, [Next]_vars
    PROVE  TurnsInv'
<1>1. ASSUME NEW c \in Clients, NEW p \in Payload, Arrive(c, p) PROVE TurnsInv'
  BY <1>1, HandlersTurn DEF Arrive, Accept, lessonVars, exchangeVars
<1>2. ASSUME NEW c \in Clients, Handler(c) PROVE TurnsInv'
  BY <1>2, HandlersTurn DEF Handler, Reject, Refuse, Download, Convert, ConvertFails,
                            Deliver, Enqueue, lessonVars, exchangeVars, queueVars
<1>3. CASE Turn
  BY <1>3, BeginTurn, NoticeTurn, SilentTurn, StoreTurn, CreditTurn, SendTurn, MuteTurn,
     CleanTurn DEF Turn
<1>4. CASE Restart
  BY <1>4, RestartTurn
<1>5. CASE UNCHANGED vars
  BY <1>5, HandlersTurn DEF vars, queueVars, lessonVars, exchangeVars
<1> QED  BY <1>1, <1>2, <1>3, <1>4, <1>5 DEF Next

LEMMA TurnsInvHolds == Spec => []TurnsInv
<1>1. Init => TurnsInv
  BY DEF Init, QueueInit, TurnsInv, TurnOf, Untouched
<1>2. QueueFacts /\ LessonTypes /\ TurnsInv /\ [Next]_vars => TurnsInv'
  BY TurnsStep
<1> QED  BY <1>1, <1>2, LessonQueue, LessonTypesHold, PTL DEF Spec

LEMMA OneAnswer ==
    ASSUME NEW S, S \in {{}, {"notice"}, {"text"}, {"voice"}}
    PROVE  Cardinality(S) <= 1
  BY FS_EmptySet, FS_Singleton

\* What a student was told agrees with what the tutor remembers, at every step
\* and after a crash at any of them, and nobody is answered twice.
THEOREM ToldAgrees == Spec => []ToldIsRemembered
<1>1. ASSUME TurnsInv PROVE ToldIsRemembered
  <2> SUFFICES ASSUME NEW m \in MessageId
               PROVE  /\ told[m] \cap {"text", "voice"} # {} \/ m \in mute =>
                              Exchange(m) \subseteq stored /\ m \in credited
                      /\ Cardinality(told[m]) <= 1
                      /\ m \in mute => told[m] = {}
                      /\ m \in done =>
                            \/ /\ told[m] \subseteq {"notice"} /\ m \notin mute
                               /\ Exchange(m) \cap stored = {} /\ m \notin credited
                            \/ told[m] \in {{"text"}, {"voice"}}
                            \/ m \in mute
    BY DEF ToldIsRemembered
  <2>1. TurnOf(m)
    BY <1>1 DEF TurnsInv
  <2>2. Outcome(m) \/ (m \notin mute /\ told[m] = {})
    BY <2>1 DEF TurnOf, SoFar, Interrupted, Untouched, Complete
  <2>3. told[m] \in {{}, {"notice"}, {"text"}, {"voice"}}
    BY <2>2 DEF Outcome
  <2>4. Cardinality(told[m]) <= 1
    BY <2>3, OneAnswer
  <2>5. m \in done => Outcome(m)
    BY <2>1 DEF TurnOf
  <2> QED  BY <2>2, <2>4, <2>5 DEF Outcome, Untouched, Complete
<1> QED  BY <1>1, TurnsInvHolds, PTL

-----------------------------------------------------------------------------
(* The answer (Failover): the list of a call and the keys of its rounds. *)

Entries == [provider : Providers \cup {Unknown}, own : BOOLEAN]
Requests == [entry : Entries, key : Seq(Keys)]

Calls == [phase : {"idle", "turn", "wait", "audio", "fallback"},
          custom : Customs \cup {NoCustom}, list : Seq(Entries),
          attempt : 0..MaxAttempts, key : Seq(Keys)]

CallTypes ==
    /\ FailoverTypeOK
    /\ call \in Calls
    /\ requests \in Seq(Requests)

\* The pools are sequences of keys, and so are the customs' own.
LEMMA OwnKeysAreKeys ==
    ASSUME NEW c \in Customs, c.own # NotGiven
    PROVE  c.own \in Seq(Keys) /\ c.own # <<>>
<1> QED  BY FailoverAssumption

\* A pick is a key of the sequence picked from.
LEMMA RotatedPicks ==
    ASSUME NEW n \in 0..(CounterRange - 1), NEW s \in Seq(Keys), s # <<>>
    PROVE  /\ Rotated(n, s).next \in 0..(CounterRange - 1)
           /\ \E i \in 1..Len(s) : Rotated(n, s).key = s[i]
           /\ Rotated(n, s).key \in Keys
<1>1. Len(s) \in Nat \ {0}
  BY EmptySeq, LenProperties
<1>2. CounterRange \in Nat \ {0, 1}
  BY FailoverAssumption
<1>3. CASE Len(s) = 1
  <2>1. Rotated(n, s) = [key |-> s[1], next |-> n]
    BY <1>3 DEF Rotated
  <2>2. 1 \in 1..Len(s) /\ s[1] \in Keys
    BY <1>3, <1>1, ElementOfSeq
  <2> QED  BY <2>1, <2>2
<1>4. CASE Len(s) # 1
  <2> DEFINE m == (n + 1) % CounterRange
  <2>1. m \in 0..(CounterRange - 1)
    BY <1>2
  <2>2. (m % Len(s)) + 1 \in 1..Len(s)
    BY <2>1, <1>1
  <2>3. Rotated(n, s) = [key |-> s[(m % Len(s)) + 1], next |-> m]
    BY <1>4, <1>1 DEF Rotated
  <2>4. s[(m % Len(s)) + 1] \in Keys
    BY <2>2, ElementOfSeq
  <2> HIDE DEF m
  <2> QED  BY <2>1, <2>2, <2>3, <2>4
<1> QED  BY <1>3, <1>4

\* The contingency list has each of the other providers once.
LEMMA ContingencyList ==
    ASSUME primary \in Primaries
    PROVE  /\ Contingency \in Seq(Providers)
           /\ \A i \in 1..Len(Contingency) : Contingency[i] # primary
           /\ \A i, j \in 1..Len(Contingency) : Contingency[i] = Contingency[j] => i = j
           /\ \A p \in Providers \ {primary} :
                 \E i \in 1..Len(Contingency) : Contingency[i] = p
<1>1. Order \in Seq(Providers) /\ Len(Order) \in Nat
  BY FailoverAssumption, LenProperties
<1>2. /\ \A p \in Providers : \E i \in 1..Len(Order) : Order[i] = p
      /\ \A i, j \in 1..Len(Order) : Order[i] = Order[j] => i = j
  BY FailoverAssumption
<1>3. CASE ~ \E i \in 1..Len(Order) : Order[i] = primary
  <2>1. Contingency = Order
    BY <1>3 DEF Contingency
  <2> QED  BY <2>1, <1>1, <1>2, <1>3
<1>4. CASE \E i \in 1..Len(Order) : Order[i] = primary
  <2> DEFINE at == CHOOSE i \in 1..Len(Order) : Order[i] = primary
             front == SubSeq(Order, 1, at - 1)
             back == SubSeq(Order, at + 1, Len(Order))
  <2>1. at \in 1..Len(Order) /\ Order[at] = primary
    BY <1>4
  <2>2. Contingency = front \o back
    BY <1>4 DEF Contingency
  <2> HIDE DEF at
  <2>3. /\ front \in Seq(Providers) /\ Len(front) = at - 1
        /\ \A i \in 1..(at - 1) : front[i] = Order[i]
    BY <1>1, <2>1
  <2>4. /\ back \in Seq(Providers) /\ Len(back) = Len(Order) - at
        /\ \A i \in 1..(Len(Order) - at) : back[i] = Order[at + i]
    BY <1>1, <2>1
  <2> HIDE DEF front, back
  <2>5. /\ Contingency \in Seq(Providers) /\ Len(Contingency) = Len(Order) - 1
        /\ \A i \in 1..(Len(Order) - 1) :
              Contingency[i] = IF i < at THEN Order[i] ELSE Order[i + 1]
    <3>1. Contingency \in Seq(Providers) /\ Len(Contingency) = Len(front) + Len(back)
      BY <2>2, <2>3, <2>4, ConcatProperties
    <3>2. Len(front) + Len(back) = Len(Order) - 1
      BY <2>3, <2>4, <2>1, <1>1
    <3>3. ASSUME NEW i \in 1..(Len(Order) - 1)
          PROVE  Contingency[i] = IF i < at THEN Order[i] ELSE Order[i + 1]
      <4>1. CASE i < at
        <5>1. Contingency[i] = front[i]
          BY <4>1, <2>1, <2>2, <2>3, <2>4, <1>1, <3>3
        <5> QED  BY <5>1, <4>1, <2>3, <2>1, <1>1, <3>3
      <4>2. CASE ~(i < at)
        <5>1. i - (at - 1) \in 1..(Len(Order) - at) /\ i = Len(front) + (i - (at - 1))
          BY <4>2, <2>1, <2>3, <1>1, <3>3
        <5>2. Contingency[i] = back[i - (at - 1)]
          BY <5>1, <4>2, <2>1, <2>2, <2>3, <2>4, <1>1, <3>3
        <5>3. at + (i - (at - 1)) = i + 1
          BY <2>1, <1>1, <3>3
        <5> QED  BY <5>1, <5>2, <5>3, <4>2, <2>4
      <4> QED  BY <4>1, <4>2
    <3> QED  BY <3>1, <3>2, <3>3
  <2> DEFINE place == [i \in 1..Len(Contingency) |-> IF i < at THEN i ELSE i + 1]
  <2>6. /\ \A i \in 1..Len(Contingency) : place[i] \in 1..Len(Order) /\ place[i] # at
        /\ \A i, j \in 1..Len(Contingency) : place[i] = place[j] => i = j
        /\ \A i \in 1..Len(Contingency) : Contingency[i] = Order[place[i]]
    <3>1. Len(Contingency) = Len(Order) - 1
      BY <2>5
    <3>2. \A i \in 1..Len(Contingency) : place[i] \in 1..Len(Order) /\ place[i] # at
      BY <3>1, <2>1, <1>1
    <3>3. \A i, j \in 1..Len(Contingency) : place[i] = place[j] => i = j
      BY <3>1, <2>1, <1>1
    <3>4. \A i \in 1..Len(Contingency) : Contingency[i] = Order[place[i]]
      BY <3>1, <2>5
    <3> QED  BY <3>2, <3>3, <3>4
  <2> HIDE DEF place
  <2>7. /\ \A i \in 1..Len(Contingency) : Contingency[i] # primary
        /\ \A i, j \in 1..Len(Contingency) : Contingency[i] = Contingency[j] => i = j
    BY <2>6, <2>1, <1>2
  <2>8. ASSUME NEW p \in Providers, p # primary
        PROVE  \E i \in 1..Len(Contingency) : Contingency[i] = p
    <3>1. PICK i \in 1..Len(Order) : Order[i] = p
      BY <1>2, <2>8
    <3>2. CASE i < at
      BY <3>1, <3>2, <2>5, <2>1, <1>1
    <3>3. CASE i > at
      <4>1. i - 1 \in 1..Len(Contingency) /\ ~(i - 1 < at) /\ (i - 1) + 1 = i
        BY <3>3, <2>5, <2>1, <1>1
      <4> QED  BY <4>1, <3>1, <2>5
    <3> QED  BY <3>1, <3>2, <3>3, <2>1, <2>8, <1>1
  <2> QED  BY <2>5, <2>7, <2>8
<1> QED  BY <1>3, <1>4

\* A sequence with an element in front.
LEMMA InFront ==
    ASSUME NEW S, NEW x \in S, NEW s \in Seq(S)
    PROVE  /\ <<x>> \o s \in Seq(S)
           /\ Len(<<x>> \o s) = Len(s) + 1
           /\ (<<x>> \o s)[1] = x
           /\ \A i \in 1..Len(s) : (<<x>> \o s)[i + 1] = s[i]
           /\ \A i \in 1..(Len(s) + 1) : i = 1 \/ i - 1 \in 1..Len(s)
           /\ \A i \in 1..(Len(s) + 1) : i # 1 => (<<x>> \o s)[i] = s[i - 1]
<1>1. <<x>> \in Seq(S) /\ Len(<<x>>) = 1 /\ <<x>>[1] = x /\ Len(s) \in Nat
  BY LenProperties
<1>2. <<x>> \o s \in Seq(S) /\ Len(<<x>> \o s) = Len(s) + 1 /\ (<<x>> \o s)[1] = x
  BY <1>1
<1>3. \A i \in 1..(Len(s) + 1) : i = 1 \/ i - 1 \in 1..Len(s)
  BY <1>1
<1>4. ASSUME NEW i \in 1..(Len(s) + 1), i # 1
      PROVE  (<<x>> \o s)[i] = s[i - 1]
  BY <1>1, <1>4
<1>5. ASSUME NEW i \in 1..Len(s)
      PROVE  (<<x>> \o s)[i + 1] = s[i]
  <2>1. i + 1 \in 1..(Len(s) + 1) /\ i + 1 # 1 /\ (i + 1) - 1 = i
    BY <1>1
  <2> QED  BY <2>1, <1>4
<1> QED  BY <1>2, <1>3, <1>4, <1>5

\* Nothing comes twice in it if the element is new.
LEMMA NewInFront ==
    ASSUME NEW S, NEW x \in S, NEW s \in Seq(S),
           \A i, j \in 1..Len(s) : s[i] = s[j] => i = j,
           \A i \in 1..Len(s) : s[i] # x
    PROVE  \A i, j \in 1..Len(<<x>> \o s) : (<<x>> \o s)[i] = (<<x>> \o s)[j] => i = j
<1> DEFINE l == <<x>> \o s
<1>1. /\ Len(l) = Len(s) + 1 /\ l[1] = x
      /\ \A i \in 1..(Len(s) + 1) : i = 1 \/ i - 1 \in 1..Len(s)
      /\ \A i \in 1..(Len(s) + 1) : i # 1 => l[i] = s[i - 1]
  BY InFront
<1>2. Len(s) \in Nat
  BY LenProperties
<1> HIDE DEF l
<1>3. ASSUME NEW i \in 1..Len(l), NEW j \in 1..Len(l), l[i] = l[j]
      PROVE  i = j
  <2>1. i \in 1..(Len(s) + 1) /\ j \in 1..(Len(s) + 1)
    BY <1>1
  <2>2. CASE i = 1 \/ j = 1
    BY <2>1, <2>2, <1>1, <1>3
  <2>3. CASE i # 1 /\ j # 1
    <3>1. i - 1 \in 1..Len(s) /\ j - 1 \in 1..Len(s) /\ s[i - 1] = s[j - 1]
      BY <2>1, <2>3, <1>1, <1>3
    <3>2. i - 1 = j - 1
      BY <3>1
    <3> QED  BY <3>2, <1>2, <2>1
  <2> QED  BY <2>2, <2>3
<1> QED  BY <1>3 DEF l

\* The list of a call: no round comes twice, every provider has one, and the
\* keys of the chat are used only if it has an AI of its own.
LEMMA SortedListFacts ==
    ASSUME primary \in Primaries, NEW c \in Customs \cup {NoCustom}
    PROVE  /\ SortedList(c) \in Seq(Entries)
           /\ \A i, j \in 1..Len(SortedList(c)) : SortedList(c)[i] = SortedList(c)[j] => i = j
           /\ \A i \in 1..Len(SortedList(c)) : SortedList(c)[i].own => c # NoCustom
           /\ \A p \in Providers : \E i \in 1..Len(SortedList(c)) :
                 SortedList(c)[i] = Entry(p, FALSE)
<1> DEFINE rest == Rounds(Contingency)
           first == Entry(primary, FALSE)
           system == <<first>> \o rest
<1>1. SortedList(c) = IF c = NoCustom THEN system
                      ELSE <<Entry(c.provider, TRUE)>> \o system
  BY DEF SortedList
<1>2. /\ Contingency \in Seq(Providers) /\ Len(Contingency) \in Nat
      /\ \A i \in 1..Len(Contingency) : Contingency[i] # primary
      /\ \A i, j \in 1..Len(Contingency) : Contingency[i] = Contingency[j] => i = j
      /\ \A p \in Providers \ {primary} :
            \E i \in 1..Len(Contingency) : Contingency[i] = p
  BY ContingencyList, LenProperties
<1>3. /\ primary \in Providers \cup {Unknown}
      /\ c # NoCustom => c.provider \in Providers \cup {Unknown}
  BY FailoverAssumption
<1>4. /\ rest \in Seq(Entries) /\ Len(rest) = Len(Contingency)
      /\ \A i \in 1..Len(rest) : rest[i] = Entry(Contingency[i], FALSE)
  BY <1>2 DEF Rounds, Entries, Entry
<1>5. first \in Entries /\ ~first.own /\ first.provider = primary
  BY <1>3 DEF Entries, Entry
<1>6. \A p \in Providers : p = primary => first = Entry(p, FALSE)
  OBVIOUS
<1> HIDE DEF rest, first
<1>7. ASSUME NEW i \in 1..Len(rest)
      PROVE  ~rest[i].own /\ rest[i].provider # primary /\ rest[i].provider = Contingency[i]
  <2>1. i \in 1..Len(Contingency) /\ rest[i] = Entry(Contingency[i], FALSE)
    BY <1>4
  <2>2. ~rest[i].own /\ rest[i].provider = Contingency[i]
    BY <2>1 DEF Entry
  <2> QED  BY <2>1, <2>2, <1>2
<1>8. /\ system \in Seq(Entries) /\ Len(system) = Len(rest) + 1 /\ system[1] = first
      /\ \A i \in 1..Len(rest) : system[i + 1] = rest[i]
      /\ \A i \in 1..(Len(rest) + 1) : i = 1 \/ i - 1 \in 1..Len(rest)
      /\ \A i \in 1..(Len(rest) + 1) : i # 1 => system[i] = rest[i - 1]
  BY <1>4, <1>5, InFront
<1>9. \A i, j \in 1..Len(system) : system[i] = system[j] => i = j
  <2>1. \A i, j \in 1..Len(rest) : rest[i] = rest[j] => i = j
    BY <1>2, <1>4, <1>7
  <2>2. \A i \in 1..Len(rest) : rest[i] # first
    BY <1>5, <1>7
  <2> QED  BY <1>4, <1>5, <2>1, <2>2, NewInFront
<1>10. \A i \in 1..Len(system) : ~system[i].own
  BY <1>5, <1>7, <1>8
<1>11. \A p \in Providers : \E i \in 1..Len(system) : system[i] = Entry(p, FALSE)
  <2> SUFFICES ASSUME NEW p \in Providers
               PROVE  \E i \in 1..Len(system) : system[i] = Entry(p, FALSE)
    OBVIOUS
  <2>1. CASE p = primary
    <3>1. 1 \in 1..Len(system)
      BY <1>8, <1>2, <1>4
    <3> QED  BY <3>1, <2>1, <1>6, <1>8
  <2>2. CASE p # primary
    <3>1. PICK i \in 1..Len(Contingency) : Contingency[i] = p
      BY <2>2, <1>2
    <3>2. i + 1 \in 1..Len(system)
      BY <1>8, <1>2, <1>4
    <3>3. system[i + 1] = Entry(p, FALSE)
      BY <3>1, <1>4, <1>8
    <3> QED  BY <3>2, <3>3
  <2> QED  BY <2>1, <2>2
<1>12. Len(system) \in Nat
  BY <1>8, LenProperties
<1> HIDE DEF system
<1>13. CASE c = NoCustom
  <2>1. SortedList(c) = system
    BY <1>1, <1>13
  <2> QED  BY <2>1, <1>8, <1>9, <1>10, <1>11
<1>14. CASE c # NoCustom
  <2> DEFINE x == Entry(c.provider, TRUE)
  <2>1. SortedList(c) = <<x>> \o system
    BY <1>1, <1>14
  <2>2. x \in Entries /\ x.own
    BY <1>3, <1>14 DEF Entries, Entry
  <2> HIDE DEF x
  <2>3. \A i \in 1..Len(system) : system[i] # x
    BY <1>10, <2>2
  <2>4. /\ SortedList(c) \in Seq(Entries) /\ Len(SortedList(c)) = Len(system) + 1
        /\ \A i \in 1..Len(system) : SortedList(c)[i + 1] = system[i]
    BY <2>1, <2>2, <1>8, InFront
  <2>5. \A i, j \in 1..Len(SortedList(c)) : SortedList(c)[i] = SortedList(c)[j] => i = j
    BY <2>1, <2>2, <2>3, <1>8, <1>9, NewInFront
  <2>6. ASSUME NEW p \in Providers
        PROVE  \E i \in 1..Len(SortedList(c)) : SortedList(c)[i] = Entry(p, FALSE)
    <3>1. PICK i \in 1..Len(system) : system[i] = Entry(p, FALSE)
      BY <1>11
    <3>2. i + 1 \in 1..Len(SortedList(c))
      BY <2>4, <1>12
    <3> QED  BY <3>1, <3>2, <2>4
  <2> QED  BY <2>4, <2>5, <2>6, <1>14
<1> QED  BY <1>13, <1>14

\* A request under way is that of the round in hand; the chat's own rounds
\* are there only if it has an AI of its own.
UnderWay ==
    /\ call.phase = "wait" => call.list # <<>>
    /\ call.phase \in {"wait", "audio"} => requests # <<>>

OwnRounds ==
    /\ \A i \in 1..Len(call.list) : call.list[i].own => call.custom # NoCustom
    /\ call.phase \in {"turn", "wait"} =>
          \A i \in 1..Len(requests) : requests[i].entry.own => call.custom # NoCustom

CallInv == CallTypes /\ UnderWay /\ OwnRounds

\* The keys a round picks from.
KeysOf(e) == IF OwnKeys(e) THEN call.custom.own ELSE pools[e.provider]

LEMMA PoolsAreKeys ==
    ASSUME CallTypes, NEW p \in Providers
    PROVE  pools[p] \in Seq(Keys)
<1> QED  BY FailoverAssumption DEF CallTypes, FailoverTypeOK

\* A provider that can be used has keys, and picks one of them.
LEMMA UsableFacts ==
    ASSUME CallTypes, NEW e \in Entries, Usable(e), e.own => call.custom # NoCustom
    PROVE  /\ e.provider \in Providers
           /\ KeysOf(e) \in Seq(Keys) /\ KeysOf(e) # <<>>
           /\ NextKey(e) = Rotated(keyIdx[e.provider], KeysOf(e))
           /\ keyIdx[e.provider] \in 0..(CounterRange - 1)
           /\ NextKey(e).next \in 0..(CounterRange - 1)
           /\ \E i \in 1..Len(KeysOf(e)) : NextKey(e).key = KeysOf(e)[i]
           /\ NextKey(e).key \in Keys
<1>1. e.provider \in Providers /\ NextKey(e).key # NoKey
  BY DEF Usable
<1>2. NextKey(e) = Rotated(keyIdx[e.provider], KeysOf(e))
  BY DEF NextKey, KeysOf
<1>3. keyIdx[e.provider] \in 0..(CounterRange - 1)
  BY <1>1 DEF CallTypes, FailoverTypeOK
<1>4. KeysOf(e) \in Seq(Keys)
  <2>1. CASE OwnKeys(e)
    <3>1. call.custom \in Customs /\ call.custom.own # NotGiven
      BY <2>1 DEF OwnKeys, CallTypes, FailoverTypeOK
    <3> QED  BY <3>1, <2>1, OwnKeysAreKeys DEF KeysOf
  <2>2. CASE ~OwnKeys(e)
    BY <2>2, <1>1, PoolsAreKeys DEF KeysOf
  <2> QED  BY <2>1, <2>2
<1>5. KeysOf(e) # <<>>
  <2>1. Rotated(keyIdx[e.provider], <<>>).key = NoKey
    BY DEF Rotated
  <2> QED  BY <2>1, <1>1, <1>2
<1> QED  BY <1>1, <1>2, <1>3, <1>4, <1>5, RotatedPicks

\* The round in hand is an entry of the list.
LEMMA HeadFacts ==
    ASSUME CallInv, call.list # <<>>
    PROVE  /\ Head(call.list) \in Entries
           /\ Head(call.list) = call.list[1] /\ 1 \in 1..Len(call.list)
           /\ Head(call.list).own => call.custom # NoCustom
           /\ Tail(call.list) \in Seq(Entries)
           /\ Len(Tail(call.list)) = Len(call.list) - 1
           /\ Len(Tail(call.list)) \in Nat /\ Len(call.list) \in Nat
           /\ \A i \in 1..Len(Tail(call.list)) :
                 Tail(call.list)[i] = call.list[i + 1] /\ i + 1 \in 1..Len(call.list)
<1>1. call.list \in Seq(Entries)
  BY DEF CallInv, CallTypes, Calls
<1>2. /\ Head(call.list) \in Entries /\ Tail(call.list) \in Seq(Entries)
      /\ Len(Tail(call.list)) = Len(call.list) - 1
      /\ \A i \in 1..Len(Tail(call.list)) : Tail(call.list)[i] = call.list[i + 1]
      /\ Len(Tail(call.list)) \in Nat
  BY <1>1, HeadTailProperties, LenProperties
<1>3. Len(call.list) \in Nat \ {0}
  BY <1>1, EmptySeq
<1>4. Head(call.list) = call.list[1]
  BY <1>1, <1>3
<1>5. 1 \in 1..Len(call.list)
  BY <1>3
<1>6. Head(call.list).own => call.custom # NoCustom
  BY <1>4, <1>5 DEF CallInv, OwnRounds
<1>7. \A i \in 1..Len(Tail(call.list)) : i + 1 \in 1..Len(call.list)
  BY <1>2, <1>3
<1> QED  BY <1>2, <1>3, <1>4, <1>5, <1>6, <1>7

\* A request is sent again, or a first one for a round.
LEMMA RequestFacts ==
    ASSUME CallTypes, NEW r \in Requests
    PROVE  /\ Append(requests, r) \in Seq(Requests)
           /\ Append(requests, r) # <<>>
           /\ Len(requests) \in Nat
           /\ Len(Append(requests, r)) = Len(requests) + 1
           /\ Append(requests, r)[Len(requests) + 1] = r
           /\ \A i \in 1..Len(requests) : Append(requests, r)[i] = requests[i]
           /\ \A i \in 1..(Len(requests) + 1) : i = Len(requests) + 1 \/ i \in 1..Len(requests)
<1>1. requests \in Seq(Requests) /\ Len(requests) \in Nat
  BY LenProperties DEF CallTypes
<1>2. \A i \in 1..(Len(requests) + 1) : i = Len(requests) + 1 \/ i \in 1..Len(requests)
  BY <1>1
<1> QED  BY <1>1, <1>2, AppendProperties

LEMMA LastRequest ==
    ASSUME CallTypes, requests # <<>>
    PROVE  /\ Len(requests) \in Nat \ {0} /\ Len(requests) \in 1..Len(requests)
           /\ requests[Len(requests)] \in Requests
<1>1. requests \in Seq(Requests)
  BY DEF CallTypes
<1>2. Len(requests) \in Nat \ {0}
  BY <1>1, EmptySeq
<1>3. Len(requests) \in 1..Len(requests)
  BY <1>2
<1> QED  BY <1>1, <1>2, <1>3, ElementOfSeq

LEMMA AudioKeyType ==
    ASSUME CallTypes, NEW c \in Customs \cup {NoCustom}
    PROVE  AudioKey(c) \in Seq(Keys)
<1>1. CASE c # NoCustom /\ c.provider = Gemini /\ c.own # NotGiven
  BY <1>1, OwnKeysAreKeys DEF AudioKey
<1>2. CASE ~(c # NoCustom /\ c.provider = Gemini /\ c.own # NotGiven)
  <2>1. pools[Gemini] \in Seq(Keys)
    BY PoolsAreKeys DEF Providers
  <2>2. CASE PrimaryKey = NoKey
    BY <1>2, <2>2 DEF AudioKey
  <2>3. CASE PrimaryKey # NoKey
    <3>1. PrimaryKey \in Keys
      BY <2>1, <2>3, HeadTailProperties DEF PrimaryKey
    <3> QED  BY <3>1, <1>2, <2>3 DEF AudioKey
  <2> QED  BY <2>2, <2>3
<1> QED  BY <1>1, <1>2

LEMMA CallInit ==
    ASSUME FailoverInit
    PROVE  CallInv
<1>1. CallTypes
  <2>1. 0 \in 0..(CounterRange - 1) /\ 0 \in 0..MaxEdits
    BY FailoverAssumption
  <2>2. IdleCall \in Calls
    BY DEF IdleCall, MaxAttempts, Calls
  <2>3. FailoverTypeOK
    BY <2>1, <2>2 DEF FailoverInit, FailoverTypeOK, Configured, Calls
  <2> QED  BY <2>2, <2>3 DEF FailoverInit, CallTypes
<1>2. UnderWay /\ OwnRounds
  BY DEF FailoverInit, IdleCall, UnderWay, OwnRounds
<1> QED  BY <1>1, <1>2 DEF CallInv

LEMMA CallChanges ==
    ASSUME NEW c \in Calls, NEW k \in Seq(Keys), NEW custom \in Customs \cup {NoCustom}
    PROVE  /\ [c EXCEPT !.phase = "wait", !.attempt = 1, !.key = k] \in Calls
           /\ [c EXCEPT !.phase = "audio", !.custom = custom, !.attempt = 1, !.key = k] \in Calls
           /\ [c EXCEPT !.phase = "fallback", !.custom = custom, !.attempt = 1, !.key = k]
                 \in Calls
<1>1. 1 \in 0..MaxAttempts
  BY DEF MaxAttempts
<1> QED  BY <1>1 DEF Calls

\* What the steps that move a call on do to it.
LEMMA CallTypesStep ==
    ASSUME CallInv, [FailoverNext]_failoverVars
    PROVE  CallTypes'
<1> USE DEF CallInv, CallTypes, Calls, FailoverTypeOK
<1>0. /\ IdleCall \in Calls
      /\ <<>> \in Seq(Requests) /\ Configured \subseteq Providers
  BY DEF IdleCall, MaxAttempts, Configured
<1>1. ASSUME NEW c \in Customs \cup {NoCustom}, StartText(c)
      PROVE  CallTypes'
  <2>1. SortedList(c) \in Seq(Entries)
    BY SortedListFacts
  <2> QED  BY <1>0, <1>1, <2>1 DEF StartText, configVars
<1>2. ASSUME NEW c \in Customs \cup {NoCustom}, StartAudio(c)
      PROVE  CallTypes'
  <2> DEFINE r == [entry |-> Entry(Gemini, c # NoCustom), key |-> AudioKey(c)]
  <2>1. AudioKey(c) \in Seq(Keys)
    BY AudioKeyType
  <2>2. r \in Requests
    BY <2>1 DEF Requests, Entries, Entry, Providers
  <2> HIDE DEF r
  <2>3. requests' = <<>> \/ requests' = <<r>>
    BY <1>2 DEF StartAudio, r
  <2>4. requests' \in Seq(Requests)
    <3>1. CASE requests' = <<>>
      BY <3>1, <1>0
    <3>2. CASE requests' = <<r>>
      BY <3>2, <2>2
    <3> QED  BY <3>1, <3>2, <2>3
  <2>5. \/ call' = [IdleCall EXCEPT !.phase = "fallback", !.custom = c, !.attempt = 1,
                                    !.key = AudioKey(c)]
        \/ call' = [IdleCall EXCEPT !.phase = "audio", !.custom = c, !.attempt = 1,
                                    !.key = AudioKey(c)]
    BY <1>2 DEF StartAudio
  <2>6. call' \in Calls
    <3> HIDE DEF CallInv, CallTypes, Calls, FailoverTypeOK
    <3>1. IdleCall \in Calls
      BY <1>0
    <3>2. /\ [IdleCall EXCEPT !.phase = "audio", !.custom = c, !.attempt = 1,
                              !.key = AudioKey(c)] \in Calls
          /\ [IdleCall EXCEPT !.phase = "fallback", !.custom = c, !.attempt = 1,
                              !.key = AudioKey(c)] \in Calls
      BY <3>1, <2>1, CallChanges, Zenon
    <3> QED  BY <3>2, <2>5, Zenon
  <2> QED  BY <1>0, <1>2, <2>4, <2>6 DEF StartAudio, configVars
<1>3. CASE Fallback
  <2>1. SortedList(call.custom) \in Seq(Entries)
    BY SortedListFacts
  <2> QED  BY <1>0, <1>3, <2>1 DEF Fallback, configVars
<1>4. CASE Skip
  <2>1. Tail(call.list) \in Seq(Entries)
    BY <1>4, HeadFacts DEF Skip
  <2> QED  BY <1>4, <2>1 DEF Skip, configVars, ghostVars
<1>5. CASE Ask
  <2> DEFINE e == Head(call.list)
             k == <<NextKey(e).key>>
             r == [entry |-> e, key |-> k]
  <2>1. e \in Entries /\ (e.own => call.custom # NoCustom)
    BY <1>5, HeadFacts DEF Ask
  <2>2. /\ e.provider \in Providers /\ NextKey(e).next \in 0..(CounterRange - 1)
        /\ NextKey(e).key \in Keys
    BY <1>5, <2>1, UsableFacts DEF Ask
  <2>3. r \in Requests /\ k \in Seq(Keys)
    BY <2>1, <2>2 DEF Requests
  <2>4. Append(requests, r) \in Seq(Requests)
    BY <2>3, RequestFacts
  <2>5. /\ requests' = Append(requests, r)
        /\ keyIdx' = [keyIdx EXCEPT ![e.provider] = NextKey(e).next]
        /\ call' = [call EXCEPT !.phase = "wait", !.attempt = 1, !.key = k]
        /\ \/ lastPick' = lastPick
           \/ lastPick' = [lastPick EXCEPT ![e.provider] = NextKey(e).key]
           \/ lastPick' = [lastPick EXCEPT ![e.provider] = NoKey]
        /\ UNCHANGED <<pools, primary, edits, outcome, steady>>
    BY <1>5 DEF Ask, configVars
  <2> HIDE DEF e, r, k
  <2>6. /\ lastPick' \in [Providers -> Keys \cup {NoKey}]
        /\ keyIdx' \in [Providers -> 0..(CounterRange - 1)]
    BY <2>2, <2>5
  <2>7. call' \in Calls
    <3> HIDE DEF Calls, FailoverTypeOK
    <3> QED  BY <2>3, <2>5, CallChanges
  <2> QED  BY <2>4, <2>5, <2>6, <2>7
<1>6. CASE Exhausted \/ RequestAnswered
  BY <1>0, <1>6 DEF Exhausted, RequestAnswered, configVars
<1>7. CASE Retry
  <2>1. Append(requests, requests[Len(requests)]) \in Seq(Requests)
    BY <1>7, LastRequest, RequestFacts DEF Retry, UnderWay
  <2>2. call.attempt + 1 \in 0..MaxAttempts
    BY <1>7 DEF Retry, MaxAttempts
  <2> QED  BY <1>7, <2>1, <2>2 DEF Retry, configVars
<1>8. CASE FailOver
  <2>1. CASE call.phase = "audio"
    BY <1>8, <2>1 DEF FailOver, configVars, ghostVars
  <2>2. CASE call.phase # "audio"
    <3>1. Tail(call.list) \in Seq(Entries)
      BY <1>8, <2>2, HeadFacts DEF FailOver, UnderWay
    <3> QED  BY <1>8, <2>2, <3>1 DEF FailOver, configVars, ghostVars
  <2> QED  BY <2>1, <2>2
<1>9. ASSUME NEW p \in Providers, NEW keys \in Pools, EditPool(p, keys)
      PROVE  CallTypes'
  <2>1. edits' \in 0..MaxEdits
    BY <1>9, FailoverAssumption DEF EditPool
  <2> QED  BY <1>9, <2>1 DEF EditPool
<1>10. ASSUME NEW p \in Primaries, ChangePrimary(p)
       PROVE  CallTypes'
  <2>1. edits' \in 0..MaxEdits
    BY <1>10, FailoverAssumption DEF ChangePrimary
  <2> QED  BY <1>10, <2>1 DEF ChangePrimary, ghostVars
<1>11. CASE UNCHANGED failoverVars
  BY <1>11 DEF failoverVars, configVars, ghostVars
<1> QED
  BY <1>1, <1>2, <1>3, <1>4, <1>5, <1>6, <1>7, <1>8, <1>9, <1>10, <1>11
  DEF FailoverNext, Factory

\* The next round is asked ...
LEMMA AskFacts ==
    ASSUME CallInv, Ask
    PROVE  /\ call.phase = "turn" /\ call.list # <<>> /\ Usable(Head(call.list))
           /\ Head(call.list) \in Entries /\ NextKey(Head(call.list)).key \in Keys
           /\ Head(call.list).own => call.custom # NoCustom
           /\ call'.phase = "wait" /\ call'.list = call.list
           /\ call'.custom = call.custom /\ call'.attempt = 1
           /\ Len(requests) \in Nat /\ Len(requests') = Len(requests) + 1 /\ requests' # <<>>
           /\ requests'[Len(requests')].entry = Head(call.list)
           /\ requests'[Len(requests')].key = <<NextKey(Head(call.list)).key>>
           /\ \A i \in 1..Len(requests) : requests'[i] = requests[i]
           /\ \A i \in 1..Len(requests') : i = Len(requests') \/ i \in 1..Len(requests)
           /\ UNCHANGED <<pools, primary, outcome, steady>>
<1> DEFINE e == Head(call.list)
           k == <<NextKey(e).key>>
           r == [entry |-> e, key |-> k]
<1>1. /\ call'.phase = "wait" /\ call'.list = call.list /\ call'.custom = call.custom
      /\ call'.attempt = 1 /\ call.phase = "turn" /\ call.list # <<>> /\ Usable(e)
      /\ requests' = Append(requests, r)
      /\ UNCHANGED <<pools, primary, outcome, steady>>
  BY DEF Ask, CallInv, CallTypes, Calls, configVars
<1>2. e \in Entries /\ (e.own => call.custom # NoCustom)
  BY <1>1, HeadFacts
<1>3. NextKey(e).key \in Keys
  BY <1>1, <1>2, UsableFacts DEF CallInv
<1>4. r \in Requests /\ r.entry = e /\ r.key = k
  BY <1>2, <1>3 DEF Requests
<1> HIDE DEF r
<1>5. /\ requests' # <<>> /\ Len(requests) \in Nat /\ Len(requests') = Len(requests) + 1
      /\ requests'[Len(requests')] = r
      /\ \A i \in 1..Len(requests) : requests'[i] = requests[i]
      /\ \A i \in 1..Len(requests') : i = Len(requests') \/ i \in 1..Len(requests)
  BY <1>1, <1>4, RequestFacts DEF CallInv
<1> QED  BY <1>1, <1>2, <1>3, <1>4, <1>5

\* ... asked again ...
LEMMA RetryFacts ==
    ASSUME CallInv, Retry
    PROVE  /\ call.phase \in {"wait", "audio"} /\ call'.phase = call.phase
           /\ call'.list = call.list /\ call'.custom = call.custom
           /\ Asked = Gemini /\ call.attempt \in 0..1 /\ call'.attempt = call.attempt + 1
           /\ Len(requests) \in Nat /\ Len(requests') = Len(requests) + 1 /\ requests' # <<>>
           /\ requests # <<>> /\ Len(requests) \in 1..Len(requests)
           /\ requests'[Len(requests')] = requests[Len(requests)]
           /\ \A i \in 1..Len(requests) : requests'[i] = requests[i]
           /\ \A i \in 1..Len(requests') : i = Len(requests') \/ i \in 1..Len(requests)
           /\ UNCHANGED <<pools, primary, outcome, steady>>
<1> DEFINE r == requests[Len(requests)]
<1>1. /\ call.phase \in {"wait", "audio"} /\ call'.phase = call.phase
      /\ call'.list = call.list /\ call'.custom = call.custom
      /\ Asked = Gemini /\ call.attempt < MaxAttempts /\ call'.attempt = call.attempt + 1
      /\ requests' = Append(requests, r)
      /\ UNCHANGED <<pools, primary, outcome, steady>>
  BY DEF Retry, CallInv, CallTypes, Calls, configVars
<1>2. call.attempt \in 0..1
  BY <1>1 DEF CallInv, CallTypes, Calls, MaxAttempts
<1>3. requests # <<>> /\ r \in Requests /\ Len(requests) \in 1..Len(requests)
  BY <1>1, LastRequest DEF CallInv, UnderWay
<1> HIDE DEF r
<1>4. /\ requests' # <<>> /\ Len(requests) \in Nat /\ Len(requests') = Len(requests) + 1
      /\ requests'[Len(requests')] = r
      /\ \A i \in 1..Len(requests) : requests'[i] = requests[i]
      /\ \A i \in 1..Len(requests') : i = Len(requests') \/ i \in 1..Len(requests)
  BY <1>1, <1>3, RequestFacts DEF CallInv
<1> QED  BY <1>1, <1>2, <1>3, <1>4 DEF r

\* ... or dropped.
LEMMA DropFacts ==
    ASSUME CallInv, Skip \/ (FailOver /\ call.phase # "audio")
    PROVE  /\ call.phase \in {"turn", "wait"} /\ call.list # <<>>
           /\ call'.phase = "turn" /\ call'.list = Tail(call.list)
           /\ call'.custom = call.custom
           /\ UNCHANGED <<pools, primary, requests, outcome, steady>>
<1> QED  BY DEF Skip, FailOver, CallInv, CallTypes, Calls, UnderWay, configVars, ghostVars

LEMMA AudioFailsFacts ==
    ASSUME CallInv, FailOver, call.phase = "audio"
    PROVE  /\ call'.phase = "fallback" /\ call'.list = call.list
           /\ UNCHANGED <<pools, primary, requests, outcome, steady>>
<1> QED  BY DEF FailOver, CallInv, CallTypes, Calls, configVars, ghostVars

\* A text request begins with its list, a voice message with Gemini alone.
LEMMA TextFacts ==
    ASSUME CallInv, NEW c \in Customs \cup {NoCustom},
           StartText(c) \/ (Fallback /\ c = call.custom)
    PROVE  /\ call'.phase = "turn" /\ call'.list = SortedList(c) /\ call'.custom = c
           /\ requests' = <<>>
           /\ UNCHANGED <<pools, primary>>
<1> QED  BY DEF StartText, Fallback, IdleCall, configVars

LEMMA AudioFacts ==
    ASSUME CallInv, NEW c \in Customs \cup {NoCustom}, StartAudio(c)
    PROVE  /\ call'.phase \in {"audio", "fallback"} /\ call'.list = <<>> /\ call'.attempt = 1
           /\ call'.phase = "audio" =>
                 /\ requests' # <<>> /\ Len(requests') = 1
                 /\ requests'[1].entry = Entry(Gemini, c # NoCustom)
           /\ call'.phase = "fallback" => requests' = <<>>
           /\ outcome' = "none" /\ steady' = Configured
           /\ UNCHANGED <<pools, primary>>
<1>1. /\ call'.list = <<>> /\ call'.attempt = 1 /\ outcome' = "none" /\ steady' = Configured
      /\ UNCHANGED <<pools, primary>>
  BY DEF StartAudio, IdleCall, configVars
<1>2. CASE AudioKey(c) = <<>>
  BY <1>1, <1>2 DEF StartAudio, IdleCall
<1>3. CASE AudioKey(c) # <<>>
  <2> DEFINE r == [entry |-> Entry(Gemini, c # NoCustom), key |-> AudioKey(c)]
  <2>1. call'.phase = "audio" /\ requests' = <<r>>
    BY <1>3 DEF StartAudio, IdleCall
  <2>2. r.entry = Entry(Gemini, c # NoCustom)
    OBVIOUS
  <2> HIDE DEF r
  <2> QED  BY <1>1, <2>1, <2>2
<1> QED  BY <1>2, <1>3

LEMMA UnderWayStep ==
    ASSUME CallInv, [FailoverNext]_failoverVars
    PROVE  UnderWay' /\ OwnRounds'
<1> USE DEF UnderWay, OwnRounds
<1>1. ASSUME NEW c \in Customs \cup {NoCustom}, StartText(c) \/ (Fallback /\ c = call.custom)
      PROVE  UnderWay' /\ OwnRounds'
  <2>1. \A i \in 1..Len(SortedList(c)) : SortedList(c)[i].own => c # NoCustom
    BY SortedListFacts DEF CallInv, CallTypes, FailoverTypeOK
  <2> QED  BY <1>1, <2>1, TextFacts
<1>2. ASSUME NEW c \in Customs \cup {NoCustom}, StartAudio(c)
      PROVE  UnderWay' /\ OwnRounds'
  BY <1>2, AudioFacts
<1>3. CASE Fallback
  BY <1>1, <1>3 DEF CallInv, CallTypes, FailoverTypeOK
<1>4. CASE Skip \/ (FailOver /\ call.phase # "audio")
  BY <1>4, DropFacts, HeadFacts DEF CallInv
<1>5. CASE Ask
  BY <1>5, AskFacts DEF CallInv
<1>6. CASE Exhausted \/ RequestAnswered
  BY <1>6 DEF Exhausted, RequestAnswered, IdleCall
<1>7. CASE Retry
  BY <1>7, RetryFacts DEF CallInv
<1>8. CASE FailOver /\ call.phase = "audio"
  BY <1>8, AudioFailsFacts DEF CallInv, FailOver, CallTypes, Calls
<1>9. ASSUME NEW p \in Providers, NEW keys \in Pools, EditPool(p, keys)
      PROVE  UnderWay' /\ OwnRounds'
  BY <1>9 DEF EditPool, CallInv
<1>10. ASSUME NEW p \in Primaries, ChangePrimary(p)
       PROVE  UnderWay' /\ OwnRounds'
  BY <1>10 DEF ChangePrimary, ghostVars, CallInv
<1>11. CASE UNCHANGED failoverVars
  BY <1>11 DEF failoverVars, ghostVars, CallInv
<1> QED
  BY <1>1, <1>2, <1>3, <1>4, <1>5, <1>6, <1>7, <1>8, <1>9, <1>10, <1>11
  DEF FailoverNext, Factory

LEMMA CallStep ==
    ASSUME CallInv, [FailoverNext]_failoverVars
    PROVE  CallInv'
<1> QED  BY CallTypesStep, UnderWayStep DEF CallInv

-----------------------------------------------------------------------------
(* Failure is reported last. *)

Listed(e) == \E i \in 1..Len(call.list) : call.list[i] = e
WasAsked(e) == \E i \in 1..Len(requests) : requests[i].entry = e

\* A provider that had keys all along has been asked or is still on the list.
\* In "wait" the head of the list is the round under way.
FailsInv ==
    /\ call.phase # "idle" => outcome = "none"
    /\ \A p \in steady : pools[p] # <<>>
    /\ call.phase \in {"turn", "wait"} =>
          \A p \in steady : Listed(Entry(p, FALSE)) \/ WasAsked(Entry(p, FALSE))
    /\ call.phase = "wait" => WasAsked(Head(call.list))
    /\ FailsLast

LEMMA FailsInit ==
    ASSUME FailoverInit
    PROVE  FailsInv
<1> QED  BY DEF FailoverInit, FailsInv, FailsLast, IdleCall, Configured

\* What was asked stays asked when a request is added.
LEMMA StillAsked ==
    ASSUME NEW e, Len(requests) \in Nat, Len(requests') = Len(requests) + 1,
           \A i \in 1..Len(requests) : requests'[i] = requests[i]
    PROVE  WasAsked(e) => WasAsked(e)'
<1> SUFFICES ASSUME WasAsked(e)
             PROVE  WasAsked(e)'
  OBVIOUS
<1>1. PICK i \in 1..Len(requests) : requests[i].entry = e
  BY DEF WasAsked
<1>2. i \in 1..Len(requests') /\ requests'[i].entry = e
  BY <1>1
<1> QED  BY <1>2 DEF WasAsked

\* A round that cannot be used is not one of a provider with keys.
LEMMA SteadyIsUsable ==
    ASSUME CallTypes, NEW p \in Providers, pools[p] # <<>>
    PROVE  Usable(Entry(p, FALSE))
<1>1. NextKey(Entry(p, FALSE)) = Rotated(keyIdx[p], pools[p])
  BY DEF NextKey, OwnKeys, Entry
<1>2. pools[p] \in Seq(Keys) /\ keyIdx[p] \in 0..(CounterRange - 1)
  BY PoolsAreKeys DEF CallTypes, FailoverTypeOK
<1>3. Rotated(keyIdx[p], pools[p]).key \in Keys
  BY <1>2, RotatedPicks
<1>4. Rotated(keyIdx[p], pools[p]).key # NoKey
  BY <1>3, FailoverAssumption
<1> QED  BY <1>1, <1>4 DEF Usable, Entry

LEMMA FailsStep ==
    ASSUME CallInv, FailsInv, [FailoverNext]_failoverVars
    PROVE  FailsInv'
<1>0. steady \subseteq Providers /\ Configured \subseteq Providers
      /\ primary \in Primaries /\ call.custom \in Customs \cup {NoCustom}
  BY DEF CallInv, CallTypes, FailoverTypeOK, Configured
<1>1. ASSUME NEW c \in Customs \cup {NoCustom}, StartText(c) \/ (Fallback /\ c = call.custom)
      PROVE  FailsInv'
  <2>1. /\ call'.phase = "turn" /\ call'.list = SortedList(c) /\ outcome' = "none"
        /\ steady' \subseteq Providers /\ UNCHANGED pools
        /\ \A p \in steady' : pools[p] # <<>>
    BY <1>0, <1>1, TextFacts DEF StartText, Fallback, FailsInv, Configured
  <2>2. \A p \in Providers : \E i \in 1..Len(SortedList(c)) : SortedList(c)[i] = Entry(p, FALSE)
    BY <1>0, SortedListFacts
  <2> QED  BY <2>1, <2>2 DEF FailsInv, FailsLast, Listed
<1>2. ASSUME NEW c \in Customs \cup {NoCustom}, StartAudio(c)
      PROVE  FailsInv'
  BY <1>2, AudioFacts DEF FailsInv, FailsLast, Configured
<1>3. CASE Fallback
  BY <1>0, <1>1, <1>3
<1>4. CASE Skip \/ (FailOver /\ call.phase # "audio")
  <2>1. /\ call.phase \in {"turn", "wait"} /\ call.list # <<>>
        /\ call'.phase = "turn" /\ call'.list = Tail(call.list)
        /\ UNCHANGED <<pools, requests, outcome, steady>>
    BY <1>4, DropFacts
  <2>2. WasAsked(Head(call.list)) \/ ~Usable(Head(call.list))
    BY <1>4, <2>1 DEF Skip, FailOver, FailsInv
  <2>3. ASSUME NEW p \in steady
        PROVE  Listed(Entry(p, FALSE))' \/ WasAsked(Entry(p, FALSE))'
    <3>1. CASE WasAsked(Entry(p, FALSE))
      BY <3>1, <2>1 DEF WasAsked
    <3>2. CASE ~WasAsked(Entry(p, FALSE))
      <4>1. Usable(Entry(p, FALSE))
        BY <1>0, SteadyIsUsable DEF FailsInv, CallInv
      <4>2. PICK i \in 1..Len(call.list) : call.list[i] = Entry(p, FALSE)
        BY <3>2, <2>1 DEF FailsInv, Listed
      <4>3. i # 1
        BY <2>1, <2>2, <3>2, <4>1, <4>2, HeadFacts
      <4>4. i - 1 \in 1..Len(Tail(call.list)) /\ (i - 1) + 1 = i
        BY <2>1, <4>3, HeadFacts
      <4>5. Tail(call.list)[i - 1] = Entry(p, FALSE)
        BY <2>1, <4>2, <4>4, HeadFacts
      <4> QED  BY <2>1, <4>4, <4>5 DEF Listed
    <3> QED  BY <3>1, <3>2
  <2> QED  BY <2>1, <2>3 DEF FailsInv, FailsLast
<1>5. CASE Ask
  <2>1. /\ call.phase = "turn" /\ call'.phase = "wait" /\ call'.list = call.list
        /\ Len(requests) \in Nat /\ Len(requests') = Len(requests) + 1
        /\ requests'[Len(requests')].entry = Head(call.list)
        /\ \A i \in 1..Len(requests) : requests'[i] = requests[i]
        /\ UNCHANGED <<pools, outcome, steady>>
    BY <1>5, AskFacts
  <2>2. WasAsked(Head(call.list))'
    BY <2>1 DEF WasAsked
  <2>3. ASSUME NEW p \in steady
        PROVE  Listed(Entry(p, FALSE))' \/ WasAsked(Entry(p, FALSE))'
    <3>1. Listed(Entry(p, FALSE)) \/ WasAsked(Entry(p, FALSE))
      BY <2>1 DEF FailsInv
    <3>2. WasAsked(Entry(p, FALSE)) => WasAsked(Entry(p, FALSE))'
      BY <2>1, StillAsked
    <3>3. Listed(Entry(p, FALSE)) => Listed(Entry(p, FALSE))'
      BY <2>1 DEF Listed
    <3> QED  BY <3>1, <3>2, <3>3
  <2> QED  BY <2>1, <2>2, <2>3 DEF FailsInv, FailsLast
<1>6. CASE Exhausted \/ RequestAnswered
  <2>1. CASE Exhausted
    <3>1. \A e : ~Listed(e)
      BY <2>1 DEF Exhausted, Listed
    <3>2. \A p \in steady : Listed(Entry(p, FALSE)) \/ WasAsked(Entry(p, FALSE))
      BY <2>1 DEF Exhausted, FailsInv
    <3>3. \A p \in steady : WasAsked(Entry(p, FALSE))
      BY <3>1, <3>2
    <3> QED  BY <2>1, <3>3 DEF Exhausted, IdleCall, configVars, FailsInv, FailsLast, WasAsked
  <2>2. CASE RequestAnswered
    BY <2>2 DEF RequestAnswered, IdleCall, configVars, FailsInv, FailsLast
  <2> QED  BY <1>6, <2>1, <2>2
<1>7. CASE Retry
  <2>1. /\ call'.phase = call.phase /\ call'.list = call.list /\ call.phase # "idle"
        /\ Len(requests) \in Nat /\ Len(requests') = Len(requests) + 1
        /\ \A i \in 1..Len(requests) : requests'[i] = requests[i]
        /\ UNCHANGED <<pools, outcome, steady>>
    BY <1>7, RetryFacts
  <2>2. \A p \in steady : Listed(Entry(p, FALSE)) => Listed(Entry(p, FALSE))'
    BY <2>1 DEF Listed
  <2>3. \A p \in steady : WasAsked(Entry(p, FALSE)) => WasAsked(Entry(p, FALSE))'
    BY <2>1, StillAsked
  <2>4. WasAsked(Head(call.list)) => WasAsked(Head(call.list))'
    <3> DEFINE e == Head(call.list)
    <3>1. e' = e
      BY <2>1
    <3>2. WasAsked(Head(call.list))' <=> \E i \in 1..Len(requests') : requests'[i].entry = e
      BY <2>1 DEF WasAsked
    <3>3. WasAsked(Head(call.list)) <=> \E i \in 1..Len(requests) : requests[i].entry = e
      BY DEF WasAsked
    <3> HIDE DEF e
    <3> QED  BY <2>1, <3>2, <3>3
  <2> QED  BY <2>1, <2>2, <2>3, <2>4 DEF FailsInv, FailsLast
<1>8. CASE FailOver /\ call.phase = "audio"
  BY <1>8, AudioFailsFacts DEF FailsInv, FailsLast
<1>9. ASSUME NEW p \in Providers, NEW keys \in Pools, EditPool(p, keys)
      PROVE  FailsInv'
  <2>1. steady' \subseteq steady /\ UNCHANGED <<call, requests, outcome>>
    BY <1>9 DEF EditPool
  <2>2. ASSUME NEW q \in steady'
        PROVE  pools'[q] # <<>>
    BY <1>0, <1>9, <2>1 DEF EditPool, FailsInv, CallInv, CallTypes, FailoverTypeOK
  <2> QED  BY <2>1, <2>2 DEF FailsInv, FailsLast, Listed, WasAsked
<1>10. ASSUME NEW p \in Primaries, ChangePrimary(p)
       PROVE  FailsInv'
  BY <1>10 DEF ChangePrimary, ghostVars, FailsInv, FailsLast, Listed, WasAsked
<1>11. CASE UNCHANGED failoverVars
  BY <1>11 DEF failoverVars, configVars, ghostVars, FailsInv, FailsLast, Listed, WasAsked
<1> QED
  BY <1>1, <1>2, <1>3, <1>4, <1>5, <1>6, <1>7, <1>8, <1>9, <1>10, <1>11
  DEF FailoverNext, Factory

\* "All AI providers failed" (GenerateResponseWithFailover) is said only when
\* every provider that had a key all along was asked, for any providers, any
\* contingency order and any keys, whatever the panel changes meanwhile.
THEOREM FailureIsLast == FailoverSpec => []FailsLast
<1>1. FailoverInit => CallInv /\ FailsInv
  BY CallInit, FailsInit
<1>2. CallInv /\ FailsInv /\ [FailoverNext]_failoverVars => (CallInv /\ FailsInv)'
  BY CallStep, FailsStep
<1>3. FailsInv => FailsLast
  BY DEF FailsInv
<1> QED  BY <1>1, <1>2, <1>3, PTL DEF FailoverSpec

-----------------------------------------------------------------------------
(* What a call costs. *)

Times(e) == Cardinality({i \in 1..Len(requests) : requests[i].entry = e})
Limit(e) == IF e.provider = Gemini THEN MaxAttempts ELSE 1

\* No round comes twice in the list; those still to come were not asked, and
\* the one under way was asked as often as there were attempts.
CostInv ==
    /\ \A i, j \in 1..Len(call.list) : call.list[i] = call.list[j] => i = j
    /\ call.phase = "turn" => \A i \in 1..Len(call.list) : ~WasAsked(call.list[i])
    /\ call.phase = "wait" =>
          /\ \A i \in 2..Len(call.list) : ~WasAsked(call.list[i])
          /\ requests[Len(requests)].entry = Head(call.list)
    /\ call.phase = "audio" =>
          \A i \in 1..Len(requests) :
             /\ requests[i].entry = requests[Len(requests)].entry
             /\ requests[i].entry.provider = Gemini
    /\ call.phase \in {"wait", "audio"} =>
          /\ Times(requests[Len(requests)].entry) = call.attempt
          /\ call.attempt <= Limit(requests[Len(requests)].entry)
    /\ CostBounded

LEMMA CostInit ==
    ASSUME FailoverInit
    PROVE  CostInv
<1> DEFINE Rounded == {Entry(p, own) : p \in Providers, own \in BOOLEAN}
<1>1. ASSUME NEW e
      PROVE  Times(e) = 0
  <2>1. {i \in 1..Len(requests) : requests[i].entry = e} = {}
    BY DEF FailoverInit
  <2> QED  BY <2>1, FS_EmptySet DEF Times
<1>2. CostBounded <=> \A e \in Rounded : Times(e) <= Limit(e)
  BY DEF CostBounded, Times, Limit
<1>3. \A e : Limit(e) \in 1..2
  BY DEF Limit, MaxAttempts
<1> HIDE DEF Rounded
<1>4. CostBounded
  BY <1>1, <1>2, <1>3
<1> QED  BY <1>4 DEF FailoverInit, IdleCall, CostInv

LEMMA TimesIsNat ==
    ASSUME CallTypes, NEW e
    PROVE  /\ IsFiniteSet({i \in 1..Len(requests) : requests[i].entry = e})
           /\ Times(e) \in Nat
           /\ ~WasAsked(e) => Times(e) = 0
<1> DEFINE T == {i \in 1..Len(requests) : requests[i].entry = e}
<1>1. Len(requests) \in Nat
  BY LenProperties DEF CallTypes
<1>2. IsFiniteSet(1..Len(requests))
  BY <1>1, FS_Interval
<1>3. T \in SUBSET (1..Len(requests))
  OBVIOUS
<1>4. ~WasAsked(e) => T = {}
  BY DEF WasAsked
<1>5. Times(e) = Cardinality(T)
  BY DEF Times
<1> HIDE DEF T
<1>6. IsFiniteSet(T)
  BY <1>2, <1>3, FS_Subset
<1>7. Cardinality(T) \in Nat /\ (T = {} => Cardinality(T) = 0)
  BY <1>6, FS_CardinalityType, FS_EmptySet
<1> QED  BY <1>4, <1>5, <1>6, <1>7 DEF T

\* One more request adds one to the times its round was asked.
LEMMA TimesAppend ==
    ASSUME CallTypes, NEW e,
           Len(requests) \in Nat, Len(requests') = Len(requests) + 1,
           \A i \in 1..Len(requests) : requests'[i] = requests[i]
    PROVE  Times(e)' = IF requests'[Len(requests')].entry = e THEN Times(e) + 1 ELSE Times(e)
<1> DEFINE T == {i \in 1..Len(requests) : requests[i].entry = e}
           n == Len(requests) + 1
<1>1. IsFiniteSet(T) /\ Times(e) = Cardinality(T)
  BY TimesIsNat DEF Times
<1>2. Times(e)' = Cardinality({i \in 1..n : requests'[i].entry = e})
  BY DEF Times
<1>3. n \notin T
  OBVIOUS
<1>4. {i \in 1..n : requests'[i].entry = e} = IF requests'[n].entry = e THEN T \cup {n} ELSE T
  <2>1. \A i \in 1..n : i = n \/ i \in 1..Len(requests)
    OBVIOUS
  <2>2. n \in 1..n /\ \A i \in 1..Len(requests) : i \in 1..n /\ i # n
    OBVIOUS
  <2> QED  BY <2>1, <2>2
<1> HIDE DEF T, n
<1>5. Cardinality(T \cup {n}) = Cardinality(T) + 1
  BY <1>1, <1>3, FS_AddElement
<1>6. n = Len(requests')
  BY DEF n
<1> QED  BY <1>1, <1>2, <1>4, <1>5, <1>6

LEMMA FewRequests ==
    ASSUME NEW e
    PROVE  /\ requests' = <<>> => Times(e)' = 0
           /\ Len(requests') = 1 =>
                 Times(e)' = IF requests'[1].entry = e THEN 1 ELSE 0
<1> DEFINE T == {i \in 1..Len(requests') : requests'[i].entry = e}
<1>1. Times(e)' = Cardinality(T)
  BY DEF Times
<1>2. requests' = <<>> => T = {}
  OBVIOUS
<1>3. Len(requests') = 1 => T = IF requests'[1].entry = e THEN {1} ELSE {}
  OBVIOUS
<1>4. Cardinality({}) = 0 /\ Cardinality({1}) = 1
  BY FS_EmptySet, FS_Singleton
<1> HIDE DEF T
<1> QED  BY <1>1, <1>2, <1>3, <1>4

LEMMA CostStep ==
    ASSUME CallInv, CostInv, [FailoverNext]_failoverVars
    PROVE  CostInv'
<1> DEFINE Rounded == {Entry(p, own) : p \in Providers, own \in BOOLEAN}
<1>0. primary \in Primaries /\ call.custom \in Customs \cup {NoCustom} /\ CallTypes
      /\ call.list \in Seq(Entries)
  BY DEF CallInv, CallTypes, FailoverTypeOK, Calls
<1>a. CostBounded <=> \A e \in Rounded : Times(e) <= Limit(e)
  BY DEF CostBounded, Times, Limit
<1>b. CostBounded' <=> \A e \in Rounded : Times(e)' <= Limit(e)
  BY DEF CostBounded, Times, Limit
<1>c. \A e : Limit(e) \in 1..2 /\ (e.provider = Gemini => Limit(e) = 2)
  BY DEF Limit, MaxAttempts
<1> HIDE DEF Rounded
<1>1. ASSUME NEW c \in Customs \cup {NoCustom}, StartText(c) \/ (Fallback /\ c = call.custom)
      PROVE  CostInv'
  <2>1. /\ call'.phase = "turn" /\ call'.list = SortedList(c) /\ requests' = <<>>
    BY <1>1, TextFacts
  <2>2. \A e : Times(e)' = 0
    BY <2>1, FewRequests
  <2>3. \A i, j \in 1..Len(SortedList(c)) : SortedList(c)[i] = SortedList(c)[j] => i = j
    BY <1>0, SortedListFacts
  <2>4. CostBounded'
    BY <2>2, <1>b, <1>c
  <2> QED  BY <2>1, <2>3, <2>4 DEF CostInv, WasAsked
<1>2. ASSUME NEW c \in Customs \cup {NoCustom}, StartAudio(c)
      PROVE  CostInv'
  <2>1. /\ call'.phase \in {"audio", "fallback"} /\ call'.list = <<>> /\ call'.attempt = 1
        /\ call'.phase = "audio" =>
              Len(requests') = 1 /\ requests'[1].entry = Entry(Gemini, c # NoCustom)
        /\ call'.phase = "fallback" => requests' = <<>>
    BY <1>2, AudioFacts
  <2>2. \A e : Times(e)' \in 0..1
    BY <2>1, FewRequests
  <2>3. CostBounded'
    BY <2>2, <1>b, <1>c
  <2>4. CASE call'.phase = "fallback"
    BY <2>1, <2>3, <2>4 DEF CostInv
  <2>5. CASE call'.phase = "audio"
    <3> DEFINE g == Entry(Gemini, c # NoCustom)
    <3>1. g.provider = Gemini
      BY DEF Entry
    <3>2. /\ Len(requests') = 1 /\ requests'[1].entry = g
          /\ requests'[Len(requests')].entry = g
      BY <2>1, <2>5
    <3>3. Times(g)' = 1 /\ Limit(g) = 2
      BY <3>1, <3>2, <1>c, FewRequests
    <3> HIDE DEF g
    <3>4. Times(requests[Len(requests)].entry)' = 1
      BY <3>2, <3>3 DEF Times
    <3>5. Limit(requests[Len(requests)].entry)' = 2
      BY <3>2, <3>3 DEF Limit
    <3>6. \A i \in 1..Len(requests') : i = 1
      BY <3>2
    <3> QED  BY <2>1, <2>3, <2>5, <3>1, <3>2, <3>4, <3>5, <3>6 DEF CostInv
  <2> QED  BY <2>1, <2>4, <2>5
<1>3. CASE Fallback
  BY <1>0, <1>1, <1>3
<1>4. CASE Skip \/ (FailOver /\ call.phase # "audio")
  <2>1. /\ call.phase \in {"turn", "wait"} /\ call.list # <<>>
        /\ call'.phase = "turn" /\ call'.list = Tail(call.list)
        /\ UNCHANGED requests
    BY <1>4, DropFacts
  <2>2. \A i, j \in 1..Len(Tail(call.list)) : Tail(call.list)[i] = Tail(call.list)[j] => i = j
    <3> SUFFICES ASSUME NEW i \in 1..Len(Tail(call.list)), NEW j \in 1..Len(Tail(call.list)),
                        Tail(call.list)[i] = Tail(call.list)[j]
                 PROVE  i = j
      OBVIOUS
    <3>1. /\ i + 1 \in 1..Len(call.list) /\ j + 1 \in 1..Len(call.list)
          /\ call.list[i + 1] = call.list[j + 1]
      BY <2>1, HeadFacts
    <3>2. i + 1 = j + 1
      BY <3>1 DEF CostInv
    <3> QED  BY <3>2
  <2>3. ASSUME NEW i \in 1..Len(Tail(call.list))
        PROVE  ~WasAsked(Tail(call.list)[i])
    <3>1. i + 1 \in 1..Len(call.list) /\ Tail(call.list)[i] = call.list[i + 1]
      BY <2>1, HeadFacts
    <3>2. i + 1 \in 2..Len(call.list)
      BY <3>1
    <3> QED  BY <2>1, <3>1, <3>2 DEF CostInv
  <2> QED  BY <2>1, <2>2, <2>3 DEF CostInv, CostBounded, WasAsked
<1>5. CASE Ask
  <2>0. PICK e : e = Head(call.list)
    OBVIOUS
  <2>1. /\ call.phase = "turn" /\ call.list # <<>>
        /\ call'.phase = "wait" /\ call'.list = call.list /\ call'.attempt = 1
        /\ Len(requests) \in Nat /\ Len(requests') = Len(requests) + 1
        /\ requests'[Len(requests')].entry = e
        /\ \A i \in 1..Len(requests) : requests'[i] = requests[i]
        /\ \A i \in 1..Len(requests') : i = Len(requests') \/ i \in 1..Len(requests)
    BY <2>0, <1>5, AskFacts
  <2>2. e = call.list[1] /\ 1 \in 1..Len(call.list) /\ Len(call.list) \in Nat
    BY <2>0, <2>1, HeadFacts
  <2>3. ~WasAsked(e)
    BY <2>1, <2>2 DEF CostInv
  <2>4. \A f : Times(f)' = IF f = e THEN Times(f) + 1 ELSE Times(f)
    BY <1>0, <2>1, TimesAppend
  <2>5. Times(e) = 0
    BY <1>0, <2>3, TimesIsNat
  <2>6. CostBounded'
    BY <2>4, <2>5, <1>a, <1>b, <1>c DEF CostInv
  <2>7. ASSUME NEW i \in 2..Len(call.list)
        PROVE  ~WasAsked(call.list[i])'
    <3> DEFINE f == call.list[i]
    <3>1. i \in 1..Len(call.list) /\ i # 1
      BY <2>2
    <3>2. ~WasAsked(f) /\ f # e
      BY <2>1, <2>2, <3>1 DEF CostInv
    <3>3. WasAsked(call.list[i])' <=> \E j \in 1..Len(requests') : requests'[j].entry = f
      BY <2>1 DEF WasAsked
    <3>4. ~ \E j \in 1..Len(requests) : requests[j].entry = f
      BY <3>2 DEF WasAsked
    <3> HIDE DEF f
    <3> QED  BY <2>1, <3>2, <3>3, <3>4
  <2>8. Times(requests[Len(requests)].entry)' = 1 /\ Limit(requests[Len(requests)].entry)' >= 1
    <3>1. Times(requests[Len(requests)].entry)' = Times(e)'
      BY <2>1 DEF Times
    <3>2. Limit(requests[Len(requests)].entry)' = Limit(e)
      BY <2>1 DEF Limit
    <3> QED  BY <3>1, <3>2, <2>4, <2>5, <1>c
  <2>9. /\ \A i \in 2..Len(call'.list) : ~WasAsked(call.list[i])'
        /\ requests'[Len(requests')].entry = Head(call'.list)
    BY <2>0, <2>1, <2>7
  <2>10. \A i, j \in 1..Len(call'.list) : call'.list[i] = call'.list[j] => i = j
    BY <2>1 DEF CostInv
  <2> QED  BY <2>1, <2>6, <2>8, <2>9, <2>10 DEF CostInv
<1>6. CASE Exhausted \/ RequestAnswered
  BY <1>6 DEF Exhausted, RequestAnswered, IdleCall, CostInv, CostBounded
<1>7. CASE Retry
  <2>0. PICK e : e = requests[Len(requests)].entry
    OBVIOUS
  <2>1. /\ call.phase \in {"wait", "audio"} /\ call'.phase = call.phase
        /\ call'.list = call.list /\ Asked = Gemini
        /\ call.attempt \in 0..1 /\ call'.attempt = call.attempt + 1
        /\ Len(requests) \in Nat /\ Len(requests') = Len(requests) + 1
        /\ Len(requests) \in 1..Len(requests)
        /\ requests'[Len(requests')] = requests[Len(requests)]
        /\ \A i \in 1..Len(requests) : requests'[i] = requests[i]
        /\ \A i \in 1..Len(requests') : i = Len(requests') \/ i \in 1..Len(requests)
    BY <1>7, RetryFacts
  <2>2. WasAsked(e) /\ requests'[Len(requests')].entry = e
    BY <2>0, <2>1 DEF WasAsked
  <2>3. Limit(e) = 2
    <3>1. e.provider = Gemini
      BY <2>0, <2>1 DEF CostInv, Asked
    <3> QED  BY <3>1, <1>c
  <2>4. Times(e) = call.attempt
    BY <2>0, <2>1 DEF CostInv
  <2>5. call.phase = "wait" =>
           e = Head(call.list) /\ \A i \in 2..Len(call.list) : ~WasAsked(call.list[i])
    BY <2>0 DEF CostInv
  <2>6. call.phase = "audio" =>
           \A i \in 1..Len(requests) : requests[i].entry = e /\ requests[i].entry.provider = Gemini
    BY <2>0 DEF CostInv
  <2>7. \A f : Times(f)' = IF f = e THEN Times(f) + 1 ELSE Times(f)
    BY <1>0, <2>1, <2>2, TimesAppend
  <2>8. CostBounded'
    BY <2>1, <2>3, <2>4, <2>7, <1>a, <1>b DEF CostInv
  <2>9. call.phase = "wait" => \A i \in 2..Len(call.list) : ~WasAsked(call.list[i])'
    <3> SUFFICES ASSUME call.phase = "wait", NEW i \in 2..Len(call.list)
                 PROVE  ~WasAsked(call.list[i])'
      OBVIOUS
    <3> DEFINE f == call.list[i]
    <3>1. ~WasAsked(f)
      BY <2>5
    <3>2. f # e
      BY <2>2, <3>1
    <3>3. WasAsked(call.list[i])' <=> \E j \in 1..Len(requests') : requests'[j].entry = f
      BY <2>1 DEF WasAsked
    <3>4. ~ \E j \in 1..Len(requests) : requests[j].entry = f
      BY <3>1 DEF WasAsked
    <3> HIDE DEF f
    <3> QED  BY <2>1, <2>2, <3>2, <3>3, <3>4
  <2>10. Times(requests[Len(requests)].entry)' = call'.attempt
         /\ call'.attempt <= Limit(requests[Len(requests)].entry)'
    <3>1. Times(requests[Len(requests)].entry)' = Times(e)'
      BY <2>2 DEF Times
    <3>2. Limit(requests[Len(requests)].entry)' = Limit(e)
      BY <2>2 DEF Limit
    <3> QED  BY <3>1, <3>2, <2>1, <2>3, <2>4, <2>7
  <2>11. /\ call'.phase = "wait" =>
               /\ \A i \in 2..Len(call'.list) : ~WasAsked(call.list[i])'
               /\ requests'[Len(requests')].entry = Head(call'.list)
         /\ call'.phase = "audio" =>
               \A i \in 1..Len(requests') :
                  /\ requests'[i].entry = requests'[Len(requests')].entry
                  /\ requests'[i].entry.provider = Gemini
    BY <2>1, <2>2, <2>5, <2>6, <2>9
  <2>12. /\ \A i, j \in 1..Len(call'.list) : call'.list[i] = call'.list[j] => i = j
         /\ call'.phase # "turn"
    BY <2>1 DEF CostInv
  <2> QED  BY <2>8, <2>10, <2>11, <2>12 DEF CostInv
<1>8. CASE FailOver /\ call.phase = "audio"
  BY <1>8, AudioFailsFacts DEF CostInv, CostBounded
<1>9. ASSUME NEW p \in Providers, NEW keys \in Pools, EditPool(p, keys)
      PROVE  CostInv'
  BY <1>9 DEF EditPool, CostInv, CostBounded, WasAsked, Times, Limit
<1>10. ASSUME NEW p \in Primaries, ChangePrimary(p)
       PROVE  CostInv'
  BY <1>10 DEF ChangePrimary, ghostVars, CostInv, CostBounded, WasAsked, Times, Limit
<1>11. CASE UNCHANGED failoverVars
  BY <1>11 DEF failoverVars, ghostVars, CostInv, CostBounded, WasAsked, Times, Limit
<1> QED
  BY <1>1, <1>2, <1>3, <1>4, <1>5, <1>6, <1>7, <1>8, <1>9, <1>10, <1>11
  DEF FailoverNext, Factory

\* A call asks each provider at most once in each kind of round, and Gemini at
\* most twice (doWithRetry), whatever fails, for any configured primary, custom
\* or contingency order: no provider comes up twice in sortedList.
THEOREM CostsAreBounded == FailoverSpec => []CostBounded
<1>1. FailoverInit => CallInv /\ CostInv
  BY CallInit, CostInit
<1>2. CallInv /\ CostInv /\ [FailoverNext]_failoverVars => (CallInv /\ CostInv)'
  BY CallStep, CostStep
<1>3. CostInv => CostBounded
  BY DEF CostInv
<1> QED  BY <1>1, <1>2, <1>3, PTL DEF FailoverSpec

-----------------------------------------------------------------------------
(* Whose keys pay. *)

\* No key is both in a pool of the configuration and a chat's own.
KeysApart ==
    \A s \in Pools, c \in Customs : c.own # NotGiven =>
       \A i \in 1..Len(s), j \in 1..Len(c.own) : s[i] # c.own[j]

PoolKeys == UNION {{s[i] : i \in 1..Len(s)} : s \in Pools}

\* Each request of the call carries a key of its own round's kind.
PaidBy(r) ==
    IF r.entry.own /\ call.custom.own # NotGiven
    THEN \E j \in 1..Len(call.custom.own) : r.key = <<call.custom.own[j]>>
    ELSE \E k \in PoolKeys : r.key = <<k>>

KeysInv ==
    call.phase \in {"turn", "wait"} => \A i \in 1..Len(requests) : PaidBy(requests[i])

LEMMA KeysStep ==
    ASSUME CallInv, KeysInv, [FailoverNext]_failoverVars
    PROVE  KeysInv'
<1>1. ASSUME NEW c \in Customs \cup {NoCustom}, StartText(c) \/ (Fallback /\ c = call.custom)
      PROVE  KeysInv'
  BY <1>1, TextFacts DEF KeysInv
<1>2. ASSUME NEW c \in Customs \cup {NoCustom}, StartAudio(c)
      PROVE  KeysInv'
  BY <1>2, AudioFacts DEF KeysInv
<1>3. CASE Fallback
  BY <1>1, <1>3 DEF CallInv, CallTypes, FailoverTypeOK
<1>4. CASE Skip \/ (FailOver /\ call.phase # "audio")
  BY <1>4, DropFacts DEF KeysInv, PaidBy
<1>5. CASE Ask
  <2> DEFINE e == Head(call.list)
  <2>1. /\ call.phase = "turn" /\ Usable(e) /\ e \in Entries /\ (e.own => call.custom # NoCustom)
        /\ call'.custom = call.custom
        /\ requests'[Len(requests')].entry = e
        /\ requests'[Len(requests')].key = <<NextKey(e).key>>
        /\ \A i \in 1..Len(requests) : requests'[i] = requests[i]
        /\ \A i \in 1..Len(requests') : i = Len(requests') \/ i \in 1..Len(requests)
    BY <1>5, AskFacts
  <2>2. /\ e.provider \in Providers
        /\ \E i \in 1..Len(KeysOf(e)) : NextKey(e).key = KeysOf(e)[i]
    BY <2>1, UsableFacts DEF CallInv
  <2> HIDE DEF e
  <2>3. PaidBy(requests[Len(requests)])'
    <3>1. CASE OwnKeys(e)
      BY <2>1, <2>2, <3>1 DEF OwnKeys, KeysOf, PaidBy
    <3>2. CASE ~OwnKeys(e)
      <4>1. KeysOf(e) = pools[e.provider] /\ pools[e.provider] \in Pools
        BY <2>2, <3>2 DEF KeysOf, CallInv, CallTypes, FailoverTypeOK
      <4>2. NextKey(e).key \in PoolKeys
        BY <2>2, <4>1 DEF PoolKeys
      <4>3. ~(e.own /\ call.custom.own # NotGiven)
        BY <3>2 DEF OwnKeys
      <4> QED  BY <2>1, <4>2, <4>3 DEF PaidBy
    <3> QED  BY <3>1, <3>2
  <2>4. \A i \in 1..Len(requests) : PaidBy(requests[i])'
    BY <2>1 DEF KeysInv, PaidBy
  <2> QED  BY <2>1, <2>3, <2>4 DEF KeysInv, PaidBy
<1>6. CASE Exhausted \/ RequestAnswered
  BY <1>6 DEF Exhausted, RequestAnswered, IdleCall, KeysInv
<1>7. CASE Retry
  <2>1. /\ call.phase \in {"wait", "audio"} /\ call'.phase = call.phase
        /\ call'.custom = call.custom /\ Len(requests) \in 1..Len(requests)
        /\ requests'[Len(requests')] = requests[Len(requests)]
        /\ \A i \in 1..Len(requests) : requests'[i] = requests[i]
        /\ \A i \in 1..Len(requests') : i = Len(requests') \/ i \in 1..Len(requests)
    BY <1>7, RetryFacts
  <2> QED  BY <2>1 DEF KeysInv, PaidBy
<1>8. CASE FailOver /\ call.phase = "audio"
  BY <1>8, AudioFailsFacts DEF KeysInv
<1>9. ASSUME NEW p \in Providers, NEW keys \in Pools, EditPool(p, keys)
      PROVE  KeysInv'
  BY <1>9 DEF EditPool, KeysInv, PaidBy
<1>10. ASSUME NEW p \in Primaries, ChangePrimary(p)
       PROVE  KeysInv'
  BY <1>10 DEF ChangePrimary, ghostVars, KeysInv, PaidBy
<1>11. CASE UNCHANGED failoverVars
  BY <1>11 DEF failoverVars, ghostVars, KeysInv, PaidBy
<1> QED
  BY <1>1, <1>2, <1>3, <1>4, <1>5, <1>6, <1>7, <1>8, <1>9, <1>10, <1>11
  DEF FailoverNext, Factory

LEMMA KeysTell ==
    ASSUME KeysApart, CallInv, KeysInv
    PROVE  OwnKeysOwnRound
<1> SUFFICES ASSUME call.phase \in {"turn", "wait"}, NEW i \in 1..Len(requests)
             PROVE  LET r == requests[i]
                        own == IF call.custom = NoCustom \/ call.custom.own = NotGiven
                               THEN <<>> ELSE call.custom.own
                    IN (\E j \in 1..Len(own) : own[j] = r.key[1]) <=> r.entry.own /\ own # <<>>
  BY DEF OwnKeysOwnRound
<1>1. /\ PaidBy(requests[i]) /\ (requests[i].entry.own => call.custom # NoCustom)
      /\ call.custom \in Customs \cup {NoCustom}
  BY DEF KeysInv, CallInv, OwnRounds, CallTypes, FailoverTypeOK
<1>2. CASE call.custom = NoCustom \/ call.custom.own = NotGiven
  BY <1>2
<1>3. CASE call.custom # NoCustom /\ call.custom.own # NotGiven
  <2>1. call.custom \in Customs /\ call.custom.own # <<>>
    BY <1>1, <1>3, OwnKeysAreKeys
  <2>2. CASE requests[i].entry.own
    BY <1>1, <1>3, <2>1, <2>2 DEF PaidBy
  <2>3. CASE ~requests[i].entry.own
    <3>1. PICK k \in PoolKeys : requests[i].key = <<k>>
      BY <1>1, <2>3 DEF PaidBy
    <3>2. \A j \in 1..Len(call.custom.own) : call.custom.own[j] # k
      BY <1>3, <2>1 DEF KeysApart, PoolKeys
    <3>3. requests[i].key[1] = k
      BY <3>1
    <3> QED  BY <1>3, <2>3, <3>2, <3>3
  <2> QED  BY <2>2, <2>3
<1> QED  BY <1>2, <1>3

\* nextKey: the keys of a user or group are used in its own round and in no
\* other, and its own round is not charged to the pool while it has keys, for
\* any customs and pools that have no key in common.
THEOREM EachPaysItsRound == KeysApart => (FailoverSpec => []OwnKeysOwnRound)
<1> SUFFICES ASSUME KeysApart
             PROVE  FailoverSpec => []OwnKeysOwnRound
  OBVIOUS
<1>1. FailoverInit => CallInv /\ KeysInv
  BY CallInit DEF FailoverInit, IdleCall, KeysInv
<1>2. CallInv /\ KeysInv /\ [FailoverNext]_failoverVars => (CallInv /\ KeysInv)'
  BY CallStep, KeysStep
<1>3. CallInv /\ KeysInv => OwnKeysOwnRound
  BY KeysTell
<1> QED  BY <1>1, <1>2, <1>3, PTL DEF FailoverSpec

-----------------------------------------------------------------------------
(* Keys take turns. *)

\* The keys of a pool differ, and so do the places of the counter's last value
\* and its first, so that its wrap moves every pool on too.
TurnsMove ==
    \A s \in Pools : Len(s) > 1 =>
       /\ \A i, j \in 1..Len(s) : s[i] = s[j] => i = j
       /\ ((CounterRange - 1) % Len(s)) # 0

\* The last key picked is the one the counter stands at.
RotationInv ==
    \A p \in Providers : lastPick[p] # NoKey =>
       (Len(pools[p]) > 1 => lastPick[p] = pools[p][(keyIdx[p] % Len(pools[p])) + 1])

\* Counting one further changes the place in a row of several.
LEMMA NextPlace ==
    ASSUME NEW n \in Nat, NEW size \in Nat, size > 1
    PROVE  ((n + 1) % size) # (n % size)
<1> DEFINE q == n \div size
           r == (n + 1) \div size
<1>1. n = size * q + (n % size)
  OBVIOUS
<1>2. n + 1 = size * r + ((n + 1) % size)
  OBVIOUS
<1>3. q \in Int /\ r \in Int
  OBVIOUS
<1> HIDE DEF q, r
<1> SUFFICES ASSUME ((n + 1) % size) = (n % size)
             PROVE  FALSE
  OBVIOUS
<1>4. size * r = size * q + 1
  BY <1>1, <1>2, <1>3
<1>5. size * (r - q) = 1
  BY <1>3, <1>4
<1>6. r - q >= 1
  BY <1>3, <1>5
<1> QED  BY <1>3, <1>5, <1>6

\* A pool of several keys is moved on by every pick from it.
LEMMA RotatedMoves ==
    ASSUME TurnsMove, NEW n \in 0..(CounterRange - 1), NEW s \in Pools, Len(s) > 1
    PROVE  /\ Rotated(n, s).next \in 0..(CounterRange - 1)
           /\ Rotated(n, s).key = s[(Rotated(n, s).next % Len(s)) + 1]
           /\ Rotated(n, s).key # s[(n % Len(s)) + 1]
<1> DEFINE m == (n + 1) % CounterRange
<1>0. CounterRange \in Nat \ {0, 1} /\ s \in Seq(Keys) /\ Len(s) \in Nat
  BY FailoverAssumption, LenProperties
<1>1. PICK size \in Nat : size = Len(s)
  BY <1>0
<1>2. size > 1
  BY <1>1
<1>3. Rotated(n, s) = [key |-> s[(m % size) + 1], next |-> m]
  <2>1. size # 0 /\ size # 1
    BY <1>2
  <2> QED  BY <1>1, <2>1 DEF Rotated
<1>4. /\ \A i, j \in 1..size : s[i] = s[j] => i = j
      /\ ((CounterRange - 1) % size) # 0
  BY <1>1 DEF TurnsMove
<1>5. m \in 0..(CounterRange - 1)
  BY <1>0
<1>6. (m % size) # (n % size)
  <2>1. CASE n = CounterRange - 1
    <3>1. m = 0
      BY <1>0, <2>1
    <3>2. (0 % size) = 0
      BY <1>2
    <3> QED  BY <1>4, <2>1, <3>1, <3>2
  <2>2. CASE n # CounterRange - 1
    <3>1. m = n + 1 /\ n \in Nat
      BY <1>0, <2>2
    <3> QED  BY <1>2, <3>1, NextPlace
  <2> QED  BY <2>1, <2>2
<1> HIDE DEF m
<1>7. (m % size) + 1 \in 1..size /\ (n % size) + 1 \in 1..size
      /\ (m % size) + 1 # (n % size) + 1
  BY <1>0, <1>2, <1>5, <1>6
<1>8. s[(m % size) + 1] # s[(n % size) + 1]
  BY <1>4, <1>7
<1> QED  BY <1>1, <1>3, <1>5, <1>8

LEMMA RotationStep ==
    ASSUME TurnsMove, CallInv, RotationInv, [FailoverNext]_failoverVars
    PROVE  RotationInv'
<1>0. /\ keyIdx \in [Providers -> 0..(CounterRange - 1)] /\ pools \in [Providers -> Pools]
      /\ lastPick \in [Providers -> Keys \cup {NoKey}]
  BY DEF CallInv, CallTypes, FailoverTypeOK
<1>1. CASE UNCHANGED <<keyIdx, pools, lastPick>>
  BY <1>1 DEF RotationInv
<1>2. CASE Ask
  <2>0. PICK e : e = Head(call.list)
    OBVIOUS
  <2>1. /\ Usable(e) /\ e \in Entries /\ (e.own => call.custom # NoCustom) /\ UNCHANGED pools
    BY <1>2, <2>0, AskFacts
  <2>2. /\ e.provider \in Providers
        /\ NextKey(e) = Rotated(keyIdx[e.provider], KeysOf(e))
        /\ NextKey(e).next \in 0..(CounterRange - 1)
        /\ keyIdx[e.provider] \in 0..(CounterRange - 1)
    BY <2>1, UsableFacts DEF CallInv
  <2>3. /\ keyIdx' = [keyIdx EXCEPT ![e.provider] = NextKey(e).next]
        /\ lastPick' = IF ~OwnKeys(e)
                       THEN [lastPick EXCEPT ![e.provider] = NextKey(e).key]
                       ELSE IF NextKey(e).next = keyIdx[e.provider] THEN lastPick
                            ELSE [lastPick EXCEPT ![e.provider] = NoKey]
    BY <1>2, <2>0 DEF Ask
  <2>4. ASSUME NEW p \in Providers, lastPick'[p] # NoKey, Len(pools[p]) > 1
        PROVE  lastPick'[p] = pools[p][(keyIdx'[p] % Len(pools[p])) + 1]
    <3>1. CASE p # e.provider
      <4>1. lastPick'[p] = lastPick[p] /\ keyIdx'[p] = keyIdx[p]
        BY <1>0, <2>2, <2>3, <3>1
      <4> QED  BY <2>4, <4>1 DEF RotationInv
    <3>2. CASE p = e.provider /\ ~OwnKeys(e)
      <4>1. NextKey(e) = Rotated(keyIdx[p], pools[p])
        BY <2>2, <3>2 DEF KeysOf
      <4>2. lastPick'[p] = NextKey(e).key /\ keyIdx'[p] = NextKey(e).next
        BY <1>0, <2>2, <2>3, <3>2
      <4>3. pools[p] \in Pools /\ keyIdx[p] \in 0..(CounterRange - 1)
        BY <1>0
      <4>4. Rotated(keyIdx[p], pools[p]).key
              = pools[p][(Rotated(keyIdx[p], pools[p]).next % Len(pools[p])) + 1]
        BY <2>4, <4>3, RotatedMoves
      <4> QED  BY <4>1, <4>2, <4>4
    <3>3. CASE p = e.provider /\ OwnKeys(e)
      <4>1. lastPick'[p] = lastPick[p] /\ keyIdx'[p] = keyIdx[p]
        BY <1>0, <2>2, <2>3, <2>4, <3>3
      <4> QED  BY <2>4, <4>1 DEF RotationInv
    <3> QED  BY <3>1, <3>2, <3>3
  <2> QED  BY <2>1, <2>4 DEF RotationInv
<1>3. ASSUME NEW p \in Providers, NEW keys \in Pools, EditPool(p, keys)
      PROVE  RotationInv'
  BY <1>0, <1>3 DEF EditPool, RotationInv
<1>4. ASSUME NEW c \in Customs \cup {NoCustom}, StartText(c) \/ StartAudio(c)
      PROVE  UNCHANGED <<keyIdx, pools, lastPick>>
  BY <1>4 DEF StartText, StartAudio, configVars
<1>5. CASE Fallback \/ Skip \/ Exhausted \/ RequestAnswered \/ Retry \/ FailOver
  <2>1. UNCHANGED <<keyIdx, pools, lastPick>>
    BY <1>5
    DEF Fallback, Skip, Exhausted, RequestAnswered, Retry, FailOver, configVars, ghostVars
  <2> QED  BY <1>1, <2>1
<1>6. ASSUME NEW p \in Primaries, ChangePrimary(p)
      PROVE  UNCHANGED <<keyIdx, pools, lastPick>>
  BY <1>6 DEF ChangePrimary, ghostVars
<1>7. CASE UNCHANGED failoverVars
  BY <1>1, <1>7 DEF failoverVars, configVars, ghostVars
<1> QED
  BY <1>1, <1>2, <1>3, <1>4, <1>5, <1>6, <1>7 DEF FailoverNext, Factory

LEMMA TurnsTaken ==
    ASSUME TurnsMove, CallInv, RotationInv, Ask, ~OwnKeys(Head(call.list)),
           Len(pools[Head(call.list).provider]) > 1
    PROVE  lastPick'[Head(call.list).provider] # lastPick[Head(call.list).provider]
<1>0. PICK e : e = Head(call.list)
  OBVIOUS
<1> DEFINE s == pools[e.provider]
           n == keyIdx[e.provider]
<1>1. /\ Usable(e) /\ e \in Entries /\ (e.own => call.custom # NoCustom)
  BY <1>0, AskFacts
<1>2. /\ e.provider \in Providers /\ NextKey(e) = Rotated(n, s)
      /\ n \in 0..(CounterRange - 1) /\ NextKey(e).key \in Keys
  BY <1>0, <1>1, UsableFacts DEF CallInv, KeysOf
<1>3. lastPick'[e.provider] = NextKey(e).key
  BY <1>0, <1>2 DEF Ask, CallInv, CallTypes, FailoverTypeOK
<1>4. s \in Pools /\ Len(s) > 1
  BY <1>0, <1>2 DEF CallInv, CallTypes, FailoverTypeOK
<1>5. lastPick[e.provider] = NoKey \/ lastPick[e.provider] = s[(n % Len(s)) + 1]
  BY <1>2, <1>4 DEF RotationInv
<1> HIDE DEF s, n
<1>6. Rotated(n, s).key # s[(n % Len(s)) + 1]
  BY <1>2, <1>4, RotatedMoves
<1> QED  BY <1>0, <1>2, <1>3, <1>5, <1>6, FailoverAssumption

\* rotateKey: a pool of several keys is used in turn, no key twice running
\* while nothing else changes the pool or its counter, for pools of any size,
\* also where the counter overflows (TurnsMove says for which sizes).
THEOREM KeysTakeTurns == TurnsMove => (FailoverSpec => RoundRobin)
<1> SUFFICES ASSUME TurnsMove
             PROVE  FailoverSpec => RoundRobin
  OBVIOUS
<1>1. FailoverInit => CallInv /\ RotationInv
  BY CallInit DEF FailoverInit, RotationInv
<1>2. CallInv /\ RotationInv /\ [FailoverNext]_failoverVars => (CallInv /\ RotationInv)'
  BY CallStep, RotationStep
<1>3. CallInv /\ RotationInv /\ [FailoverNext]_failoverVars =>
         [Ask /\ ~OwnKeys(Head(call.list)) =>
             LET p == Head(call.list).provider IN
             Len(pools[p]) > 1 => lastPick'[p] # lastPick[p]]_failoverVars
  BY TurnsTaken
<1> QED  BY <1>1, <1>2, <1>3, PTL DEF FailoverSpec, RoundRobin

\* The types of the configuration, the counters and the call under way.
THEOREM FailoverTypes == FailoverSpec => []FailoverTypeOK
<1>1. FailoverInit => CallInv
  BY CallInit
<1>2. CallInv /\ [FailoverNext]_failoverVars => CallInv'
  BY CallStep
<1>3. CallInv => FailoverTypeOK
  BY DEF CallInv, CallTypes
<1> QED  BY <1>1, <1>2, <1>3, PTL DEF FailoverSpec
=============================================================================
