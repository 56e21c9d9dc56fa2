# A formal model of Chatic

Chatic is a language tutor on WhatsApp: one Go process with a SQLite file, a
web panel, WhatsApp connections (whatsmeow) and calls to LLM providers. This
directory holds TLA+ models of its logic, TLC configurations that check them on
small instances, and TLAPS proofs for every size. Paths below are relative to
the repository's `src/`.

    tlc -workers 2 -config MCHistory.cfg MCHistory     # a run
    tlapm Lifecycle_proofs.tla                         # the proofs of a module

`PROJECT.json` lists the components, runs, mutants, hazards and theorems, and
maps every definition to the lines it models.

## 1. The system

| Component | Source | State | Operations | Model |
|---|---|---|---|---|
| Message queue, worker | `internal/queue/manager.go`, `cmd/server/main.go` | a channel of 100 jobs, one worker | Enqueue (blocks when full), the range loop, stop without drain | JobQueue |
| Users, whitelist, dispatch | `internal/middleware/whitelist.go`, `internal/repository/`, `whatsapp.go`, `web_admin.go` | the whitelist map; tables usuarios, mensagems, grupo_membros | handleEvent, ProcessWhatsAppMessage, /add, /delete, /forget, panel add/edit/delete/wipe, boot | Lifecycle |
| WhatsApp accounts | `client_multi.go`, `whatsapp.go` | client pointer, map of personal clients, role map, device rows, device store | pair, SetSharedDevice, UnsetSharedDevice, RemoveDevice, Reconnect, boot | Accounts |
| Limits | `whatsapp.go` 901-926, `group_phase2.go` | recent times per user and group, cooldowns, the waiting quiz | userActivityAllowed, groupOnCooldown, groupActivityAllowed, /gquiz, /greveal | Guardrails |
| LLM failover | `llm_factory.go` | rotation counters, key pools, primary provider | sortedList, GenerateResponse, GenerateAudioResponse, pickKey | Failover |
| Key vault | `keyvault.go`, `config/config.go`, `web_admin.go` 1018-1257 | keys in memory, sealed keys in the database, .env, machine key | add, remove, save settings, boot | KeyVault |
| History | `whatsapp.go` 1240-1310, `internal/repository/conversation_repo.go` | raw messages, rolling summary, XP | SaveMessage, AddXP, maybeSummarizeHistory, whole-row saves | History |
| Interview | `onboarding.go`, `whatsapp.go` | FlowState, OnboardingDone, score | ProcessOnboarding, handleTestFlow, /restart, /language | Interview |
| Admin login, sessions, recovery | `web_admin.go` 66-563, `whatsapp.go` 1164-1188 | table admin_accounts, recoverCooldown | /setup, /login, /logout, session check, change-password, /recover of panel and chat | PanelAccess |
| Study groups | `group_repo.go`, `whatsapp.go` 487-507, 592-692, 1040-1080 | groups, memberships, active group, shared and personal AI | first message of a chat, /newgroup, /join, /groupai, /myai, erasure, wipe | StudyGroups |
| A student's message | `whatsapp.go` 283-865, 1435-1495, `tts.go` | temporary files in storage, the stored exchange | download, FFmpeg, article and PDF, answer, SaveMessage, AddXP, TextToSpeech, sendMessageAudio | Lesson |
| Tutor prompts, sanitising, ciphers | `internal/tutor`, `sanitize.go`, `crypto_helper.go` | none | text | not modelled |

### How the parts interact

`handleEvent` runs in one goroutine per WhatsApp client. It asks the whitelist
and puts a job on the channel, blocking if it is full. The one worker takes a
job, reads the sender's row and passes the *same copy* of it to whatever the
message asks for: the interview, a command, the tutor. The panel's requests run
in their own goroutines, each reading a row, changing a field and saving all of
it. `MaxOpenConns(1)` makes every statement atomic and no sequence of them.
Nothing but the database, the device store and the .env file survives the
process: `main` returns on a signal without draining the queue.

What is hard about it follows from that: copies of rows go stale and are saved
whole; an erasure of four statements runs beside a job for the same user; a
promotion touches four places under three locks; every multi-statement handler
can be cut by a crash; boot rebuilds memory from whatever rows are there; a
temporary file has three owners in turn, and each may fail before handing it on;
uniqueness of groups and memberships is kept by the order of statements alone.

### What makes each component correct

* **Queue:** no accepted message is lost, settled twice or overtaken in its own
  chat; each is settled in the end unless a call without a timeout hangs.
* **Lifecycle:** erasure leaves nothing behind and locks the number out; rows
  exist only for invited numbers or owners; nobody gets another's history.
* **Accounts:** at most one shared account; the four places agree; each device is
  served once; only a requested device becomes shared.
* **Guardrails:** the limits hold in every window within the life of one process (they
  are in memory, and start afresh with the next); nobody within them is dropped.
* **Failover:** failure is reported only when no one could have answered; cost is
  bounded; keys take turns; own keys are used in the own round only.
* **KeyVault:** no acknowledged key gets lost; a restart reloads what was shown.
* **History:** content is kept or summarised; recent messages stay; it is bounded.
* **Panel access:** a session lives no longer than its password; a reset token is
  used up by its reset; a reset with a token of the console leaves no older data,
  unless the process stops before the erasure, and one of the chat erases none.
* **Study groups:** one group per chat, one entry per student and group; a group's AI
  answers its members: in a chat those of the chat's own group, in direct messages
  those whose active group it is.
* **A student's message:** its files are there while needed and gone afterwards;
  what is told is stored, once.
* **Interview:** its two flags agree; a profile that went through it is complete; the
  test is counted right, but for a point per question lost on its way to the student.

## 2. Modules

Each module's header says what is left out. Actions bear the names of the
functions or of the database statements they are; a thread's `pc` names the
next statement of a multi-statement handler. Definitions introduced by the
comment "Rejected" are wrong variants of the action below them, kept to show
that the properties notice them (the mutants of `PROJECT.json`).

* **JobQueue** - `Accept`/`Refuse`/`Enqueue` are `handleEvent`'s passage,
  `Take`/`Finish` the worker's loop, `Stop` the end of the process. Messages are
  numbered per client by the observer. It is also the abstract specification of
  the message path: Lifecycle and Lesson extend it and conjoin its actions.
* **Lifecycle** EXTENDS JobQueue - worker and panel goroutines are threads that
  perform one statement per step with the row copy they hold. `CreateRow` has the
  UNIQUE number and the AUTOINCREMENT id, `SaveRow` is gorm's `Save`, which inserts
  a row again if it was deleted. `invited` and `erased` are observers.
* **Stalls** EXTENDS Lifecycle - the calls without a timeout: `HandlerHangs` (a download
  or FFmpeg in a client's handler, `whatsapp.go` 369, 385, 400), `WorkerHangs` (FFmpeg
  and the upload of a spoken answer, 1459 and 1473). Who hangs takes no step until
  `StartAgain`.
* **Accounts** - threads for panel requests and for the two boot goroutines; one
  step per access to `client`, `personal`, `role`, `rows`; `swapMu` is modelled,
  the short locks around single accesses are the steps. `wanted`, `leftovers` and
  `everPaired` are observers.
* **RoleBook** - the abstract specification of Accounts: a book with one role per
  device, in which one entry changes at a time and a promotion needs the place to
  be vacant. Accounts implements it twice, with the rows and with the role map
  (`Rows`, `RolesInMemory`, checked as `BooksKept`). It is what
  `applySetShared`, `applyUnsetShared` and `countShared` say of the map.
* **Guardrails** - maps of times and the sliding windows with the code's
  comparisons; the clock may move between two readings in one call. The limits
  share nothing with each other. Its proofs are in StudyGroups_proofs.
* **Failover** - a call goes through the list built at its start; the panel may
  edit pools and the primary provider meanwhile; every request may fail. The
  rotation counter has `CounterRange` values (2^64 in the code) and wraps. Its proofs
  are in Lesson_proofs.
* **KeyVault** - a key is a sequence of comma-free atoms, so the pool's
  join-and-split is modelled by what it does: a key pasted with a comma comes back
  as several. Sealed content opens with the same machine key only. Its proofs are in
  PanelAccess_proofs.
* **PanelAccess** - a request is a thread that reads a row and later saves its
  whole copy; nothing orders two of them, since the transactions of /recover start
  after their read. Passwords are numbered as they are set; a session token says
  which password it was opened with, a reset token through which channel it was
  sent, and `setBy` which token a password was set with. `data` is how many passwords
  had been set when the oldest data was stored, and `cut` holds the passwords whose
  erasure a stop prevented.
* **StudyGroups** - the worker's statements with the rows it holds, against a panel
  that saves late rows, erases and wipes between them. An invite code stands for the
  group it names; `CodeTaken` is the collision of two codes taken from the clock.
  `outlived` is an observer: the ids whose row outlived the erasure of its entries.
* **Lesson** EXTENDS JobQueue - the work inside the queue's handlers and worker: one
  action per step that can fail. A file is the pair of its use and its message,
  `leftovers` the files nobody will remove; `told` is what the student was sent,
  `mute` the voice answers that could not be sent.
* **History** - a message is its id, a summary the set of ids it carries.
* **Interview** - one action per flow state; "TEST_Q2:1" is the pair of state and
  score. The save and the reply are two steps (`SaveAndAsk`, `Ask`), and the reply may
  be lost (`AskLost`) or cut off by a stop. `asked` (the question the student has),
  `right`, `missed` (the questions lost or overtaken) and `clean` are observers of the test.

Lifecycle, Lesson, History, Interview and StudyGroups look at the same worker from
several sides; each abstracts what the others detail. Lifecycle and Lesson both
EXTEND JobQueue. In Lifecycle a job that "saves" stands for any
command that does, and sets OnboardingDone arbitrarily; Interview says when it
does. Lifecycle's `Fold`/`FoldSave` are what History details.

## 3. Runs

| Run | Instance | Shows |
|---|---|---|
| lifecycle_chat | shared client and one owner (no panel), capacity 2, 2 messages each, every command, restarts, hanging calls of handlers and worker | each message is settled once, in order, and in the end unless the worker or its own handler hangs; erasures leave no orphans and shut out |
| lifecycle_panel | two numbers, capacity 1, a student who writes and leaves, /delete, 3 panel requests beside the worker, restarts | nobody inherits a history; only invited numbers have rows |
| accounts | 3 devices, 2 concurrent panel requests, failing logouts, restarts in the middle of swaps | at most one shared account, four places that agree, one client per device, requests return |
| guardrails | a user and a group, limits of 2 in windows of 3, 6 messages, 7 instants | limits hold in every window of one process, no notice twice, no one within them dropped |
| failover | 3 providers, pools of 0 to 2 keys, custom lists, one edit in mid-call, a counter of two values | failure last, cost bounded, rotation, termination |
| keyvault | 2 providers, any first .env, pools up to 2, one lost machine key, restart at any step | no key lost, primary first, what a restart loads |
| history | trigger 4, keep 2, 12 messages, failing folds, panel saves, crashes | nothing forgotten, recent messages kept, bounded |
| interview | every class of input, /restart, /language, lost replies, a stale save or a restart | flags, profile, score, progress |
| admin | two e-mails racing through /setup, two requests and the chat, lifetimes of 1 in 3 instants, 3 passwords, 2 tokens | sessions under their passwords, tokens used up, data erased by channel |
| groups | two people, two chats, 4 messages, 2 users, 2 groups and 3 entries ever inserted, one panel request at a time, restarts | no double groups or entries, whose AI answers |
| lesson | two clients, two messages each of five kinds, capacity 1, every failure | files follow messages, told agrees with stored |
| panel_delete | one student and the panel | the disagreement of section 6 |

**Bounds.** They are small, and chosen so that each mechanism reaches its edge.
A queue of 2 with two clients fills up and blocks both; two messages per number
let one be in flight while another erases its sender. Three panel requests allow
add, edit and delete to interleave with a job, which makes every pair of a stale
save and a purge, and a re-addition after it. Three devices are an incumbent, a
promoted one and a bystander, and two requests are what contends for a mutex.
Limits of 2 in windows of 3 have partly expired windows, and 7 instants hold two
of them. With trigger 4 and keep 2, six exchanges give two successive folds and
one that catches up after failures. Two requests and the chat make every pair of
overlapping saves of a row in PanelAccess, and a third password tells an old one put
back from one never set. Two people, two chats and two groups allow a person in
both groups and a chat next to a group of /newgroup; four messages are two
that found groups, an entry and an answer, or the founding of a group, its AI, a
/forget that is cut and an answer after it. Two rows are two students, or one who comes
back after an erasure. Each exception `SharedAIOwn` names happens here: without any one
of them TLC finds it violated. In Lesson a channel of one with two clients
keeps a handler, a job in the channel and one in the worker at the same time, each
with its file. Clients, accounts, people and chats are interchangeable where their
modules treat them alike, and the configurations say so (SYMMETRY). Counters (`MaxMessages`, `MaxRequests`,
`MaxEdits`, `MaxEvents`, `MaxJobs`, `MaxUsers`, `MaxGroups`, `MaxMembers`,
`MaxPasswords`, `MaxTokens`, `MaxLosses`, `MaxMissed`, `MaxTime`, `MaxPool`) bound
the environment only, never the program, except `MaxPool`: keys in a pool, which
the code does not bound. `MaxMissed` says how many folds in a row may fail;
`HistoryBounded` is relative to it.

**Scope chosen by constants.** Three constants of Accounts restrict the run
`accounts` where the code does not keep its promise, so that it shows what does
hold: `PanelDuringBoot = FALSE` (the panel waits for the boot), `RemovesAlone =
TRUE` (a removal or disconnect meets no other request), `Restarts = "quiet"` (no
crash between the statements of a pairing or a removal). KeyVault's run has one
administrator and keys without commas. Other values break properties; section 6
says which.

**Fairness.** `Stalls!FairStallSpec`: weak fairness on the worker while it is not hung.
Its requests to providers have timeouts and its database `busy_timeout`, but FFmpeg
(`whatsapp.go` 1459) and the upload of a spoken answer (1473) have none, so it may
hang there for ever, as a handler may in a download (369, 400) or in FFmpeg (385);
nothing is assumed of handlers but their sends. Strong fairness on a blocked send of a
handler that is not hung, as Go wakes the senders of a channel in the order they
blocked. Nobody has to write, to use the panel or to start the process again. `EverySettled` counts messages in flight
at the end of the process as settled (lost), which is what `main` does with them.
`Accounts!FairSpec`: a request that can go on does, and a waiter for `swapMu`
gets it if it is free again and again (Go's mutex has a starvation mode); boot
steps are weakly fair. `Failover!FairFailoverSpec`: the call in progress goes on, since
every HTTP client has a timeout; edits are finite by `MaxEdits`.

## 4. Proofs

Proved by TLAPS for any constants that satisfy the named assumptions
(`QueueAssumption`, `LifecycleAssumption`, `InterviewAssumption`,
`HistoryAssumption`, `PanelAccessAssumption`, `StudyGroupsAssumption`,
`LessonAssumption`, `AccountsAssumption`, `GuardrailsAssumption`,
`FailoverAssumption`, `KeyVaultAssumption`).

* `QueueTypeCorrect`, `FifoCorrect`, `SettledCorrect` (JobQueue_proofs). The
  properties are not inductive: nothing in "the worker takes increasing numbers"
  says what is in the channel. `OrderInv` adds it: a handler holds its client's
  newest message, queued ones lie strictly between the last taken and what the
  handler holds, and stand in their order. For `SettledOnce` the invariant adds
  that what is settled was accepted, so that a new number is not yet settled.
* `QueueUsed` (Lifecycle_proofs), a helper: every step of Lifecycle is a step of JobQueue
  or leaves it alone. That holds by the way Lifecycle is built, and is what carries
  those theorems over to it.
* `TypeCorrect`: types, with the fact that the worker has a job exactly when its
  thread is not idle.
* `HistoryIsOwn`, `RowsAreInvited`: from `RecordInv`, which says of every row,
  every copy a thread holds and every stored message that its id was issued to
  its number. A stale copy may be re-inserted at any time, so it must be known to
  be harmless while it is held: `CopiesInv`. `SenderInv` ties the copy in hand to
  the job's sender, and `AccessInv` says that whitelisted and queued senders have
  been invited or own a phone. Ids are never issued twice: an issued id keeps its
  number (`issued` only grows), which is AUTOINCREMENT's promise.
* `ErasedAreOut`: whatever lists a number is an invitation that takes it out of the
  erased ones, except the rebuilding at a restart; holds without any restriction.
* `NothingOrphaned`: in a system whose panel erases nobody (`NoPanelErasure`; with
  panel erasures the property is false, run panel_delete), only the worker deletes
  rows, and it is the same worker that stores messages. `RootInv` says where the row of every stored
  message can be: in the table (`Rooted`), with the sender of the job in hand known to
  have one while it is answered (`SenderPresent`), or in the hands of the erasure that
  is purging them (`Purged`). The panels only add and edit then (`PanelsKeep`): a late
  save may put an erased row back, under an id that nothing is stored under any more.
* `ListedHaveRows`: with a panel that only edits (`OnlyEdits`), a whitelisted number has
  a row. A panel that adds may list a number whose row the worker has
  just erased (section 6), so this scope is needed.
* `FlagsAgree`, `ProfileComplete` (Interview_proofs): whole-row saves of stale
  copies make it necessary to speak of the copies too. `CopiesInv` says that the
  row, the worker's copy of it and each panel's copy are *good*: types, the flag
  set exactly at the end, an answer to each question passed, no more points than
  questions answered. Every handler turns a good copy into a good copy.
* `ScoreIsCount`, `GoesForward`: action properties from `TestInv`, which says how far
  the row's score may be from the answers graded so far: by one for each question in
  `missed`, while nothing stale has been saved. Between the save and the reply the row is
  one question ahead of the student (`Ask`); a lost reply moves that question to `missed`.
* `RecentStay`, `NothingIsForgotten`, `HistoryStaysBounded` (History_proofs). The
  argument is about the block a fold has in hand, `BlockInv`: it is closed
  downwards, so that pruning up to its last id removes exactly the block; it stays
  out of the newest `Keep` ids; and it leaves at most `Keep` messages
  (`OldestFacts`, by counting the messages below and above one). `SummaryInv`
  follows the block into the digest and the row, `SizeInv` counts how far each step
  may be above the trigger.

* `SessionsFollowPasswords`, `TokensAreUsedUp`, `WipeFollowsChannel`
  (PanelAccess_proofs): any copy in hand may be saved over any newer row, so what
  is true of rows must be true of copies. A row is `Consistent` when its
  session names its own password, its mark agrees with its token's channel, and its
  token is not the one its password was set with; table and copies hold consistent
  rows, and every handler makes a consistent copy of a consistent one. For the last
  conjunct the invariant adds that passwords and tokens are numbered below the
  counters (`Counters`), so that no row can yet be under the next password. For the
  erasure `DataInv` says of each password set with a token of the console that the data
  is younger, or a request stands at its erasure, or a stop cut it (`cut`).
* `NoDoubles` (StudyGroups_proofs): what a look-up found missing may not appear before
  the insertion. The panel only takes away, so the invariant says what the worker has
  established (`LookedUp`: no group of this chat, no entry of this student) and every
  panel step keeps it; ids are issued once (`Numbered`), so a new group has no
  members. A group saved late must be the only one of its chat (`HeldGroup`).
* `SharedAIStaysInGroup`: entries are taken only by erasures, so every row's active group
  is `Backed`: there is an entry, or the erasure is under way, or the row outlived it. A
  late save may put any copy back, so the copies of the worker and of the panel are
  backed too, as long as the table has their row (`CopyBacked`, `PanelBacked`); a copy
  whose row is gone makes an outlived row when it is saved. `ChatsGroup` says that in a
  chat the group in hand is the chat's own, whatever is wiped meanwhile. That a copy and
  a newer row of the number are told apart rests on ids issued once (`UserIds`).
* `FilesFollow`, `ToldAgrees` (Lesson_proofs) rest on the queue: a message has one
  place at a time (from JobQueue's invariants), so a file changes hands with it. `FilesInv`
  says which files each place allows and why each leftover is one, `TurnsInv` what has been stored, credited
  and told at each step of the worker and of every message in another place.
* `AtMostOneShared`, `RolesAreBooks`, `PlacesAgree`, `OneClientEach`,
  `SharedIsAskedFor` (Accounts_proofs) hold in the scope that the run `accounts` has
  too (`Scope`: `PanelDuringBoot = FALSE`, `RemovesAlone`, `Restarts # "any"`), for any
  devices and panel goroutines; `TypeCorrect` holds in every scope. `OneShared` says
  nothing of the client pointer, its proof does: every shared mark is the mark of the
  pointer's device (`Marks`), so two marks are one. The pointer is moved under `swapMu`
  only when no mark is left (`Swapping`), and without it only by the boot or a
  removal, which meet nobody (`Exclusive`). The same facts make each write of a role a
  step of RoleBook. `Agreement` says of every device what holds while threads are at
  work: the places agree, or some thread has a step ahead of it that will make them.
  With no thread at work only agreement is left. Devices removed while offline
  (`leftovers`) are excepted: the store keeps them, the roles do not.

* `RatesAreBounded`, `FloodsAreDropped` (StudyGroups_proofs, about Guardrails): a
  window's list is not what the property speaks of, so `Windowed` ties the two, within
  the life of one process (a restart empties both): the
  list is the end of what was admitted, in order, and what stands before it is older
  than the window. Then a count of admissions in any window is a count of places in a
  list no longer than the limit. `RevealsAreLast` follows from the waiting quiz
  being forgotten in the step that reveals it.
* `FailureIsLast` (Lesson_proofs, about Failover): a provider that had keys all along is
  still in the list or was asked (`FailsInv`), as a round that is skipped belongs to a
  provider without keys. `CostsAreBounded`: no round comes twice in the list
  (`SortedListFacts`, from the contingency order without the primary), and the rounds
  ahead were not asked; the one in hand was asked as often as there were attempts
  (`CostInv`, by counting requests). `EachPaysItsRound` needs `KeysApart`: where a
  chat's own key is also in a pool, nobody can tell whose it was. `KeysTakeTurns` says
  that two successive counter values stand at different places of a pool
  (`RotatedMoves`). It assumes of each pool of several keys that they differ, which
  `handlePostAddKey` sees to, and that the counter's wrap moves it on (`TurnsMove`).

* `PrimaryIsFirst`, `KeysAreKept`, `RestartIsFaithful` (PanelAccess_proofs, about
  KeyVault) need one administrator (`OneAdministrator`; two save old snapshots, section
  6). `RequestInv` then says that what a request has in hand - the pool it read, the
  key set it is about to seal - is what the memory holds, and that .env is
  rewritten only when the vault holds the memory. Memory and vault are related through a
  restart by lemmas about joining and splitting pools (`JoinOfKeys`, `JoinOfSingles`):
  `SealedMemory` says what comes back. `Agreeing` is what the vault keeps of "primary ==
  pool[0]" after its keys were split, `KeptInv` that what is relied on is in the
  memory too, without which a save could lose it. Only the third needs keys without a
  comma (`NoCommas`, section 6). Induction on a pool's length is by a least
  counterexample (`SmallestAt`), as the join is a recursive function whose values
  must first be shown to exist (`ConcatenationsExist`).

Every invariant and action property that a run checks is proved. Only model-checked is
liveness (`EverySettled`, `RequestsReturn`, `CallEnds`), since fairness and ENABLED are
beyond the prover.

## 5. Not modelled

The pairing socket (QR, codes, its 180 s) and headless pairing; HTML pages and the
read-only requests behind them; the text of prompts, answers and commands; fetching
and parsing of articles and PDF (Lesson knows only whether they succeed); voices and
protocols of speech; migrations; database errors other than UNIQUE violations, and
errors of the local disk; undelivered texts, which `sendMessageText` only logs,
except the questions of the placement test (Interview);
ciphers (a sealed value is the pair of a key and its content) and hashes.

## 6. Where the code and its words differ

One is a run of its own, violating a quoted promise:

* **panel_delete** - the panel erases a user while the worker answers them: the
  exchange is stored after the purge, under an id no row has.

These can be seen by changing a constant or a property of a run:

* `Reconnect` (`whatsapp.go:229`) clears the client pointer without `swapMu`, so a
  concurrent promotion leaves a shared role nobody demotes later, though
  `client_multi.go:452` calls the whole swap serialized: `RemovesAlone = FALSE` in
  `MCAccounts.cfg` violates `OneShared`. So does `PanelDuringBoot = TRUE`, with
  `tagSharedDevice`.
* Removing a provider's last key does not last if the variable is set on the host
  (`keyvault.go:128`; `web_admin.go:1034` says a restart reloads exactly what the
  panel shows): without its first disjunct `RestartReloads` fails.
* The fold re-reads a row "so Update (a full Save) never clobbers concurrent
  changes" (`whatsapp.go:1293`), but re-read and save are two statements, and the
  XP a panel saves between them is undone (`Reread`, `SaveSummary`).

Others were met on the way and are in the models:

* `tts.go:35-37` knows that "a hung TTS provider would tie up the single FIFO queue
  worker indefinitely" and gives speech a timeout; FFmpeg and the upload that follow it
  have none, nor have a handler's downloads and FFmpeg. One that hangs stalls
  every student, or one client's messages, until the process is started again
  (`EverySettled` excepts it).
* A question of the placement test whose reply is lost, by a failed send or a stop
  between the save and the send, is graded all the same: the student's next answer, to
  the question before it, counts for it (`missed` in `CountsCorrectAnswers`).
* A stop between `web_admin.go:470` and 491 leaves the new password of a console token
  with all the data of before (`cut`), though `web_admin.go:489-490` treats such a reset
  as "a possible compromise".
* A stop of /forget between `PurgeMemberships` and `PurgeByID` (`whatsapp.go:1396-1397`)
  leaves a student who is no member any more with an active group, and its AI goes on
  answering their direct messages (787-790); so does a panel's late save of the row
  (`outlived` in `SharedAIOwn`).
* The limits are in memory: a restart forgets them, and a window that spans it may hold
  twice as much.
* Rows that the panel or the first setup creates are COMPLETE from the start
  (`web_admin.go:710-724`) without a question answered; `CompleteProfile` is about
  the interview, and about rows that go through it.
* A message queued behind a /forget creates a fresh row for the erased number, and
  a restart readmits every number with a row (`ErasedStaysOut` excepts `Restart`).
* A crash between a pairing and its row, or the removal of a device that is
  offline, leaves a stored session that the legacy fallback may pick.
* A pasted "a,b" is one key until a restart splits it: the panel then shows "a,b", "a"
  and "b" (`EnsurePrimaryInPool`), against "reloads exactly what the panel shows".
* Two administrators editing keys at once may save a snapshot that is out of date; a
  failing save of the vault is ignored before .env is rewritten without keys.
* A panel that adds a number, whose row the worker erases before the panel's last
  statement, leaves a listed number without a row (`MCLifecyclePanel.cfg` with
  `PanelOps = {"add"}` violates `WhitelistedHasRow`).
* A pool whose size divides 2^64 - 1 (3, 5, 15, 17...) would repeat one key when the
  rotation counter overflows, after 2^64 picks.
* Voice messages do not rotate keys; refused group activities are answered each time;
  /language in the middle of the placement test has the answer graded with another
  key; a panel handler that read its row before a fold puts the old summary back.
* `/groupai` (`README.md:220`, `MANUAL.md:247`: "set a group's shared AI") names a
  group by its code. The code of a group that belongs to a chat (`WPP-...`) is told to
  nobody, and a group of /newgroup never becomes the `ActiveGroupID` that
  `resolveGroupLLM` looks up: a shared AI serves only whoever guesses the code.
  StudyGroups lets every code be typed.
* `tts.go:101` promises "Google Cloud TTS → Edge TTS → Google Translate (fallback)", but
  with a key for Google Cloud its failure is final (`SpeechFails`), and the answer is
  sent as text.
* "Temporary audio files are deleted immediately after use" (`MANUAL.md:286`): not those
  of messages in flight when the process stops, of a failed conversion, or of
  speech that Google Translate cuts short (`FilesFollowMessages` lists exactly these).
* A voice answer that cannot be converted or uploaded is logged and dropped, while one
  that cannot be synthesised is sent as text (`mute`).
* `MANUAL.md:299` describes `/recover <number>` as "Restore a previously removed user";
  the code sends the administrator a panel reset token (`IssueChat`).
* `web_admin.go:418,450` call the transactions of /recover a prevention of check-then-use
  races; the row is read before they begin, so they order nothing (`ResetRead`).

## 7. Plan

Done: JobQueue, Lifecycle, Stalls, Lesson, Accounts with RoleBook, Guardrails, Failover,
KeyVault, History, Interview, PanelAccess, StudyGroups, and the proofs of section 4.
What is left, in this order:

1. KeyVault with failing saves, whose handlers go on in different ways.
2. The pairing socket and its timeout, composed with Accounts.
