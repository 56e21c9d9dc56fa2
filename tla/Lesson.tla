------------------------------ MODULE Lesson ------------------------------
(***************************************************************************)
(* What becomes of one message of a student on its way through the queue:  *)
(* the handler downloads a voice message or a document to a file, the      *)
(* worker reads links and documents, asks the AI, stores the exchange,     *)
(* credits it and answers, a voice message by voice if speech can be made  *)
(* (handleEvent, ProcessWhatsAppMessage, tts.go).                          *)
(*                                                                         *)
(* This is JobQueue with the work of its handlers and of its worker put    *)
(* in.  A file is named by its use and its message: CreateTemp never gives *)
(* a name twice.  The AI's own steps are in Failover, the fold of old      *)
(* messages that follows an exchange is in History, admission and commands *)
(* are in Lifecycle.  Handlers' own notices, quick tips and level-ups      *)
(* accompany an answer and are left out, and so are errors of the disk.  A *)
(* text counts as told when it is handed to sendMessageText, which only    *)
(* logs that it could not be delivered.                                    *)
(***************************************************************************)
EXTENDS JobQueue, FiniteSets

CONSTANTS Ffmpeg,    \* whether FFmpegAvailable
          CloudKeys  \* whether GoogleTTSAPIKey is set; the panel may do so

Kinds == {"text", "link", "voice", "pdf", "document"}

ASSUME LessonAssumption == /\ Payload \subseteq Kinds
                           /\ Ffmpeg \in BOOLEAN
                           /\ CloudKeys \in (SUBSET BOOLEAN) \ {{}}

VARIABLES step,      \* where ProcessWhatsAppMessage is with the current job
          files,     \* temporary files in storage
          leftovers, \* those nobody will remove any more
          stored,    \* messages in table mensagems
          credited,  \* messages AddXP was called for
          told,      \* per message: what the student was sent
          mute       \* messages whose voice answer could not be sent

lessonVars == <<step, files, leftovers, stored, credited, told, mute>>
fileVars == <<files, leftovers>>
exchangeVars == <<stored, credited, told, mute>>
vars == <<queueVars, lessonVars>>

\* ogg, mp3: a voice message before and after its conversion; bin: a document;
\* speech, opus: the spoken answer before and after its conversion.
Uses == {"ogg", "mp3", "bin", "speech", "opus"}
Answers == {"notice", "text", "voice"}
SpeechSteps == {"cloud", "edge", "translate"}
Steps == {"idle", "read", "ask", "question", "answer", "credit", "text", "voice",
          "upload", "clean"} \cup SpeechSteps

\* The file the worker will need to process a message of this kind.
Attachment(kind) == CASE kind = "voice" -> {"mp3"}
                      [] kind \in {"pdf", "document"} -> {"bin"}
                      [] OTHER -> {}

File(use, m) == <<use, Id(m)>>
Ready(m) == \A u \in Attachment(m.body) : File(u, m) \in files

-----------------------------------------------------------------------------
(* The event handler of a client. *)

Arrive(c, p) == Accept(c, p) /\ UNCHANGED lessonVars

\* The message cannot be used: no FFmpeg, a failed download, a text that is
\* too long, a type that is not supported.
Reject(c) == /\ Refuse(c)
             /\ \A u \in Uses : File(u, handling[c]) \notin files
             /\ UNCHANGED lessonVars

Download(c) ==
    /\ handling[c] # NoMessage
    /\ handling[c].body \in {"voice", "pdf", "document"}
    /\ handling[c].body = "voice" => Ffmpeg
    /\ \A u \in Uses : File(u, handling[c]) \notin files
    /\ files' = files \cup
                  {File(IF handling[c].body = "voice" THEN "ogg" ELSE "bin", handling[c])}
    /\ UNCHANGED <<queueVars, step, leftovers, exchangeVars>>

\* The ogg is removed whether or not FFmpeg could convert it.
Convert(c) ==
    /\ handling[c] # NoMessage
    /\ File("ogg", handling[c]) \in files
    /\ files' = (files \ {File("ogg", handling[c])}) \cup {File("mp3", handling[c])}
    /\ UNCHANGED <<queueVars, step, leftovers, exchangeVars>>

\* A conversion that fails may have begun to write its output.
ConvertFails(c) ==
    /\ Refuse(c)
    /\ File("ogg", handling[c]) \in files
    /\ \E partial \in SUBSET {File("mp3", handling[c])} :
          /\ files' = (files \ {File("ogg", handling[c])}) \cup partial
          /\ leftovers' = leftovers \cup partial
    /\ UNCHANGED <<step, exchangeVars>>

Deliver(c) == /\ handling[c] # NoMessage
              /\ Ready(handling[c])
              /\ Enqueue(c)
              /\ UNCHANGED lessonVars

Handler(c) == Reject(c) \/ Download(c) \/ Convert(c) \/ ConvertFails(c) \/ Deliver(c)

-----------------------------------------------------------------------------
(* The worker, ProcessWhatsAppMessage. *)

At(s) == step = s /\ current # NoMessage
Tell(what) == told' = [told EXCEPT ![Id(current)] = @ \cup {what}]

Begin == /\ Take
         /\ step' = "read"
         /\ UNCHANGED <<fileVars, exchangeVars>>

\* A throttled sender, a group's message, a command, the interview: at most
\* one answer, and no exchange to remember.
EndEarly == /\ At("read")
            /\ step' = "clean"
            /\ Tell("notice") \/ UNCHANGED told
            /\ UNCHANGED <<queueVars, fileVars, stored, credited, mute>>

\* What the student shared can be read ...
Consider == /\ At("read")
            /\ current.body # "document"
            /\ step' = "ask"
            /\ UNCHANGED <<queueVars, fileVars, exchangeVars>>

\* ... or not: a page that does not open, a scan, a file other than PDF.
Unreadable == /\ At("read")
              /\ current.body \in {"link", "pdf", "document"}
              /\ step' = "clean"
              /\ Tell("notice")
              /\ UNCHANGED <<queueVars, fileVars, stored, credited, mute>>

Answered == /\ At("ask")
            /\ step' = "question"
            /\ UNCHANGED <<queueVars, fileVars, exchangeVars>>

Apologise == /\ At("ask")
             /\ step' = "clean"
             /\ Tell("notice")
             /\ UNCHANGED <<queueVars, fileVars, stored, credited, mute>>

Store(sender, next) == /\ stored' = stored \cup {<<sender, Id(current)>>}
                       /\ step' = next
                       /\ UNCHANGED <<queueVars, fileVars, credited, told, mute>>

StoreQuestion == At("question") /\ Store("user", "answer")
StoreAnswer == At("answer") /\ Store("bot", "credit")

Credit == /\ At("credit")
          /\ credited' = credited \cup {Id(current)}
          /\ \E cloudKey \in CloudKeys :
                step' = CASE current.body # "voice" -> "text"
                          [] cloudKey -> "cloud"
                          [] OTHER -> "edge"
          /\ UNCHANGED <<queueVars, fileVars, stored, told, mute>>

SendText == /\ At("text")
            /\ step' = "clean"
            /\ Tell("text")
            /\ UNCHANGED <<queueVars, fileVars, stored, credited, mute>>

-----------------------------------------------------------------------------
(* TextToSpeech and sendMessageAudio *)

Synthesise == /\ \E s \in SpeechSteps : At(s)
              /\ files' = files \cup {File("speech", current)}
              /\ step' = "voice"
              /\ UNCHANGED <<queueVars, leftovers, exchangeVars>>

\* With a key for Google Cloud nobody else is asked; Edge is followed by
\* Google Translate.  Without speech the answer is sent as text.
SpeechFails == /\ \E s \in SpeechSteps : At(s)
               /\ step' = IF step = "edge" THEN "translate" ELSE "text"
               /\ UNCHANGED <<queueVars, fileVars, exchangeVars>>

\* Google Translate's audio is copied to its file as it arrives; when it stops
\* half-way the caller gets the error and not the name.
SpeechCut == /\ At("translate")
             /\ files' = files \cup {File("speech", current)}
             /\ leftovers' = leftovers \cup {File("speech", current)}
             /\ step' = "text"
             /\ UNCHANGED <<queueVars, exchangeVars>>

PrepareVoice == /\ At("voice")
                /\ files' = files \cup {File("opus", current)}
                /\ step' = "upload"
                /\ UNCHANGED <<queueVars, leftovers, exchangeVars>>

\* Rejected: the text is sent after the voice as well.
SendVoiceAndText == /\ At("upload")
                    /\ files' = files \ {File("opus", current)}
                    /\ step' = "text"
                    /\ Tell("voice")
                    /\ UNCHANGED <<queueVars, leftovers, stored, credited, mute>>

SendVoice == /\ At("upload")
             /\ files' = files \ {File("opus", current)}
             /\ step' = "clean"
             /\ Tell("voice")
             /\ UNCHANGED <<queueVars, leftovers, stored, credited, mute>>

\* No client, a failed conversion or upload: logged, and the job goes on as if
\* the answer had been sent.
VoiceNotSent == /\ At("voice") \/ At("upload")
                /\ files' = files \ {File("opus", current)}
                /\ step' = "clean"
                /\ mute' = mute \cup {Id(current)}
                /\ UNCHANGED <<queueVars, leftovers, stored, credited, told>>

\* Rejected: a document stays in storage.
CleanForgetsDocument ==
    /\ At("clean")
    /\ Finish
    /\ step' = "idle"
    /\ files' = files \ ({File(u, current) : u \in {"speech", "mp3"}} \ leftovers)
    /\ UNCHANGED <<leftovers, exchangeVars>>

\* The deferred removals.
Clean == /\ At("clean")
         /\ Finish
         /\ step' = "idle"
         /\ files' = files \ ({File(u, current) : u \in {"speech", "bin", "mp3"}} \ leftovers)
         /\ UNCHANGED <<leftovers, exchangeVars>>

Turn == \/ Begin \/ EndEarly \/ Consider \/ Unreadable \/ Answered \/ Apologise
        \/ StoreQuestion \/ StoreAnswer \/ Credit \/ SendText
        \/ Synthesise \/ SpeechFails \/ SpeechCut
        \/ PrepareVoice \/ SendVoice \/ VoiceNotSent \/ Clean

\* Nothing looks for old files in storage when the process starts again.
Restart == /\ Stop
           /\ step' = "idle"
           /\ leftovers' = files
           /\ UNCHANGED <<files, exchangeVars>>

-----------------------------------------------------------------------------
Init == /\ QueueInit
        /\ step = "idle"
        /\ files = {}
        /\ leftovers = {}
        /\ stored = {}
        /\ credited = {}
        /\ told = [m \in MessageId |-> {}]
        /\ mute = {}

Next == \/ \E c \in Clients : \/ \E p \in Payload : Arrive(c, p)
                              \/ Handler(c)
        \/ Turn
        \/ Restart

Spec == Init /\ [][Next]_vars

-----------------------------------------------------------------------------
TypeOK ==
    /\ QueueTypeOK
    /\ step \in Steps
    /\ files \subseteq Uses \X MessageId
    /\ leftovers \subseteq Uses \X MessageId
    /\ stored \subseteq {"user", "bot"} \X MessageId
    /\ credited \subseteq MessageId
    /\ told \in [MessageId -> SUBSET Answers]
    /\ mute \subseteq MessageId

\* The files in storage follow the messages through handler, channel and
\* worker: a file belongs to a message on its way, the one a waiting job
\* needs is there, and a file stays for ever only when the process stopped, a
\* conversion failed or speech broke off ("Temporary audio files are deleted
\* immediately after use").
FilesFollowMessages ==
    /\ \A f \in files \ leftovers : f[2] \in InFlight
    /\ \A i \in DOMAIN queue : Ready(queue[i])
    /\ current # NoMessage => Ready(current)
    /\ \A f \in leftovers : \/ f[2] \in lost
                            \/ f[1] = "mp3" /\ f[2] \in refused
                            \/ f[1] = "speech"

\* What the student gets and what the tutor remembers agree: an answer is
\* sent only after both sides of the exchange are stored and credited, also
\* when the process stops in between; a job that is done has stored all of the
\* exchange or nothing, and has sent one answer and not two, save for a
\* spoken one that could not be sent (which nobody repeats as text).
Exchange(m) == {<<"user", m>>, <<"bot", m>>}
ToldIsRemembered ==
    \A m \in MessageId :
        /\ told[m] \cap {"text", "voice"} # {} \/ m \in mute =>
               Exchange(m) \subseteq stored /\ m \in credited
        /\ Cardinality(told[m]) <= 1
        /\ m \in mute => told[m] = {}
        /\ m \in done => \/ told[m] \subseteq {"notice"} /\ m \notin mute
                            /\ Exchange(m) \cap stored = {} /\ m \notin credited
                         \/ told[m] \in {{"text"}, {"voice"}}
                         \/ m \in mute

=============================================================================
