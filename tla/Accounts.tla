------------------------------ MODULE Accounts ------------------------------
(***************************************************************************)
(* The WhatsApp accounts of internal/service/client_multi.go: which paired *)
(* device is the shared account, which ones serve their owner, and the     *)
(* four places that say so - the service's client pointer, its map of      *)
(* personal devices, its role map and the role rows of the database.       *)
(*                                                                         *)
(* Each panel request and each of main's two boot goroutines is a thread;  *)
(* a step is one access to one of these places, since each has its own     *)
(* lock.  swapMu is held for whole promotions and demotions; removing a    *)
(* device, Reconnect, the registration of a pairing and the boot do not    *)
(* take it.  Headless pairing (PAIR_CODE_PHONE) is not modelled.           *)
(***************************************************************************)
EXTENDS Integers, FiniteSets

CONSTANTS Devices,         \* the JIDs phones may be paired under
          NoDevice,
          Panels,          \* panel request goroutines
          Starter,         \* the goroutine of WhatsAppService.Start
          Booter,          \* the goroutine of StartPersonalDevices
          PanelOps,        \* the panel handlers that may be called
          PanelDuringBoot, \* whether the panel is used before the boot is over
          RemovesAlone,    \* whether a removal is requested by itself only
          Restarts,        \* "never", "quiet": no device comes or goes, or "any" time
          LogoutFails      \* whether a device may be offline when logged out

AllPanelOps == {"pair", "set", "unset", "remove", "disconnect"}
BootThreads == {Starter, Booter}
Threads == Panels \cup BootThreads

ASSUME AccountsAssumption ==
    /\ NoDevice \notin Devices
    /\ Panels \cap BootThreads = {}
    /\ Starter # Booter
    /\ PanelOps \subseteq AllPanelOps
    /\ PanelDuringBoot \in BOOLEAN
    /\ RemovesAlone \in BOOLEAN
    /\ Restarts \in {"never", "quiet", "any"}
    /\ LogoutFails \in BOOLEAN

VARIABLES store,     \* devices with a session in the whatsmeow store
          rows,      \* DeviceRepository: recorded role of each JID
          client,    \* WhatsAppService.client: the shared account
          personal,  \* keys of WhatsAppService.personal
          role,      \* WhatsAppService.roleByJID
          running,   \* running[d]: client objects serving events of d
          swapMu,    \* the thread that holds swapMu
          thread,    \* per thread: next step and the devices it has at hand
          everPaired,\* JIDs handed out so far; WhatsApp never reuses one
          wanted,    \* devices a request made shared, until one undid it
          leftovers  \* devices the store kept though they were removed

serviceVars == <<client, personal, role, running>>
storedVars == <<store, rows>>
historyVars == <<everPaired, wanted, leftovers>>
vars == <<storedVars, serviceVars, swapMu, thread, historyVars>>

Roles == {"none", "shared", "personal"}
NoThread == Starter  \* swapMu's value when free: boot never takes it

\* dev: the device a request is about; cur: the client pointer as read; share:
\* a pairing asked for the shared role; seen: the role rows as listed; todo:
\* the devices a boot goroutine still has to start.
SwapSteps == {"lock", "target", "incumbent", "demoteRow", "demoteMap", "demoteRole",
              "leaveMap", "point", "promoteRow", "promoteRole", "unsetLock",
              "unsetRead", "unsetRow", "unsetMap", "unsetRole", "unsetPoint"}
PairSteps == {"pairRow", "pairRole", "pairMap"}
RemoveSteps == {"removeRead", "leave", "disconnectRead", "logoutShared", "clear",
                "logoutPersonal", "forget", "deleteRow"}
BootSteps == {"seedList", "seed", "connect", "tagRead", "tagRow", "tagRole",
              "list", "look", "start", "startMap"}
Steps == {"idle"} \cup SwapSteps \cup PairSteps \cup RemoveSteps \cup BootSteps
Thread == [pc : Steps, dev : Devices \cup {NoDevice},
           cur : Devices \cup {NoDevice}, share : BOOLEAN,
           seen : [Devices -> Roles], todo : SUBSET Devices]
IdleThread == [pc |-> "idle", dev |-> NoDevice, cur |-> NoDevice,
               share |-> FALSE, seen |-> [d \in Devices |-> "none"], todo |-> {}]

At(t, step) == thread[t].pc = step
Go(t, step) == thread' = [thread EXCEPT ![t].pc = step]
Return(t) == thread' = [thread EXCEPT ![t] = IdleThread]

\* Store.ID of a client is nil once Logout has deleted its device.
HasId(d) == d \in store

Booting == \E t \in BootThreads : ~At(t, "idle")
Undisturbed(steps) == \A t \in Threads : thread[t].pc \in steps
AtRest == Undisturbed({"idle"})

-----------------------------------------------------------------------------
(* SetSharedDevice, for a request or at the end of a pairing. *)

LockSwap(t) == /\ At(t, "lock")
               /\ swapMu = NoThread
               /\ swapMu' = t
               /\ Go(t, "target")
               /\ UNCHANGED <<storedVars, serviceVars, historyVars>>

\* Rejected: the error path forgets to release swapMu.
SetTargetKeepsLock(t) ==
    /\ At(t, "target")
    /\ IF thread[t].dev \in personal THEN Go(t, "incumbent") ELSE Return(t)
    /\ UNCHANGED <<storedVars, serviceVars, swapMu, historyVars>>

\* Only an active personal device can be promoted.
SetTarget(t) ==
    /\ At(t, "target")
    /\ IF thread[t].dev \in personal
       THEN Go(t, "incumbent") /\ UNCHANGED swapMu
       ELSE Return(t) /\ swapMu' = NoThread
    /\ UNCHANGED <<storedVars, serviceVars, historyVars>>

SetIncumbent(t) ==
    /\ At(t, "incumbent")
    /\ IF client # NoDevice /\ HasId(client) /\ client # thread[t].dev
       THEN thread' = [thread EXCEPT ![t].pc = "demoteRow", ![t].cur = client]
       ELSE Go(t, "leaveMap")
    /\ UNCHANGED <<storedVars, serviceVars, swapMu, historyVars>>

\* Rejected: the incumbent's row keeps its role.
DemoteRowForgotten(t) ==
    /\ At(t, "demoteRow")
    /\ Go(t, "demoteMap")
    /\ UNCHANGED <<storedVars, serviceVars, swapMu, historyVars>>

DemoteRow(t) ==
    /\ At(t, "demoteRow")
    /\ rows' = [rows EXCEPT ![thread[t].cur] = "personal"]
    /\ Go(t, "demoteMap")
    /\ UNCHANGED <<store, serviceVars, swapMu, historyVars>>

DemoteMap(t) ==
    /\ At(t, "demoteMap")
    /\ personal' = personal \cup {thread[t].cur}
    /\ Go(t, "demoteRole")
    /\ UNCHANGED <<storedVars, client, role, running, swapMu, historyVars>>

\* Rejected: the incumbent keeps the shared role in memory.
DemoteRoleForgotten(t) ==
    /\ At(t, "demoteRole")
    /\ wanted' = wanted \ {thread[t].cur}
    /\ Go(t, "leaveMap")
    /\ UNCHANGED <<storedVars, serviceVars, swapMu, everPaired, leftovers>>

DemoteRole(t) ==
    /\ At(t, "demoteRole")
    /\ role' = [role EXCEPT ![thread[t].cur] = "personal"]
    /\ wanted' = wanted \ {thread[t].cur}
    /\ Go(t, "leaveMap")
    /\ UNCHANGED <<storedVars, client, personal, running, swapMu, everPaired, leftovers>>

\* Rejected: the promoted device stays among the personal ones.
LeaveMapForgotten(t) ==
    /\ At(t, "leaveMap")
    /\ Go(t, "point")
    /\ UNCHANGED <<storedVars, serviceVars, swapMu, historyVars>>

LeaveMap(t) ==
    /\ At(t, "leaveMap")
    /\ personal' = personal \ {thread[t].dev}
    /\ Go(t, "point")
    /\ UNCHANGED <<storedVars, client, role, running, swapMu, historyVars>>

Point(t) == /\ At(t, "point")
            /\ client' = thread[t].dev
            /\ wanted' = wanted \cup {thread[t].dev}
            /\ Go(t, "promoteRow")
            /\ UNCHANGED <<storedVars, personal, role, running, swapMu, everPaired, leftovers>>

PromoteRow(t) ==
    /\ At(t, "promoteRow")
    /\ rows' = [rows EXCEPT ![thread[t].dev] = "shared"]
    /\ Go(t, "promoteRole")
    /\ UNCHANGED <<store, serviceVars, swapMu, historyVars>>

PromoteRole(t) ==
    /\ At(t, "promoteRole")
    /\ role' = [role EXCEPT ![thread[t].dev] = "shared"]
    /\ swapMu' = NoThread
    /\ Return(t)
    /\ UNCHANGED <<storedVars, client, personal, running, historyVars>>

SetShared(t) == \/ LockSwap(t) \/ SetTarget(t) \/ SetIncumbent(t)
                \/ DemoteRow(t) \/ DemoteMap(t) \/ DemoteRole(t)
                \/ LeaveMap(t) \/ Point(t) \/ PromoteRow(t) \/ PromoteRole(t)

-----------------------------------------------------------------------------
(* UnsetSharedDevice *)

LockUnset(t) == /\ At(t, "unsetLock")
                /\ swapMu = NoThread
                /\ swapMu' = t
                /\ Go(t, "unsetRead")
                /\ UNCHANGED <<storedVars, serviceVars, historyVars>>

UnsetRead(t) ==
    /\ At(t, "unsetRead")
    /\ IF client # NoDevice /\ HasId(client)
       THEN /\ thread' = [thread EXCEPT ![t].pc = "unsetRow", ![t].cur = client]
            /\ UNCHANGED swapMu
       ELSE Return(t) /\ swapMu' = NoThread
    /\ UNCHANGED <<storedVars, serviceVars, historyVars>>

UnsetRow(t) ==
    /\ At(t, "unsetRow")
    /\ rows' = [rows EXCEPT ![thread[t].cur] = "personal"]
    /\ Go(t, "unsetMap")
    /\ UNCHANGED <<store, serviceVars, swapMu, historyVars>>

UnsetMap(t) ==
    /\ At(t, "unsetMap")
    /\ personal' = personal \cup {thread[t].cur}
    /\ Go(t, "unsetRole")
    /\ UNCHANGED <<storedVars, client, role, running, swapMu, historyVars>>

UnsetRole(t) ==
    /\ At(t, "unsetRole")
    /\ role' = [role EXCEPT ![thread[t].cur] = "personal"]
    /\ wanted' = wanted \ {thread[t].cur}
    /\ Go(t, "unsetPoint")
    /\ UNCHANGED <<storedVars, client, personal, running, swapMu, everPaired, leftovers>>

UnsetPoint(t) == /\ At(t, "unsetPoint")
                 /\ client' = NoDevice
                 /\ swapMu' = NoThread
                 /\ Return(t)
                 /\ UNCHANGED <<storedVars, personal, role, running, historyVars>>

UnsetShared(t) == \/ LockUnset(t) \/ UnsetRead(t) \/ UnsetRow(t)
                  \/ UnsetMap(t) \/ UnsetRole(t) \/ UnsetPoint(t)
-----------------------------------------------------------------------------
(* finalizePairing: a phone has linked a new device.  whatsmeow stores its  *)
(* session first; the service registers it as personal, and promotes it if  *)
(* the pairing was for the shared account.                                  *)

PairRow(t) == /\ At(t, "pairRow")
              /\ rows' = [rows EXCEPT ![thread[t].dev] = "personal"]
              /\ Go(t, "pairRole")
              /\ UNCHANGED <<store, serviceVars, swapMu, historyVars>>

PairRole(t) ==
    /\ At(t, "pairRole")
    /\ running' = [running EXCEPT ![thread[t].dev] = @ + 1]
    /\ role' = [role EXCEPT ![thread[t].dev] = "personal"]
    /\ Go(t, "pairMap")
    /\ UNCHANGED <<storedVars, client, personal, swapMu, historyVars>>

PairMap(t) ==
    /\ At(t, "pairMap")
    /\ personal' = personal \cup {thread[t].dev}
    /\ IF thread[t].share THEN Go(t, "lock") ELSE Return(t)
    /\ UNCHANGED <<storedVars, client, role, running, swapMu, historyVars>>

FinalizePairing(t) == PairRow(t) \/ PairRole(t) \/ PairMap(t)

-----------------------------------------------------------------------------
(* RemoveDevice and Reconnect *)

\* Is the device to remove the shared account?
RemoveRead(t) ==
    /\ At(t, "removeRead")
    /\ IF client = thread[t].dev /\ HasId(client)
       THEN thread' = [thread EXCEPT ![t].pc = "logoutShared", ![t].cur = client]
       ELSE Go(t, "leave")
    /\ UNCHANGED <<storedVars, serviceVars, swapMu, historyVars>>

\* Otherwise it leaves the map of personal devices.
Leave(t) ==
    /\ At(t, "leave")
    /\ personal' = personal \ {thread[t].dev}
    /\ IF thread[t].dev \in personal
       THEN thread' = [thread EXCEPT ![t].pc = "logoutPersonal", ![t].cur = thread[t].dev]
       ELSE Go(t, "forget")
    /\ UNCHANGED <<storedVars, client, role, running, swapMu, historyVars>>

DisconnectRead(t) ==
    /\ At(t, "disconnectRead")
    /\ IF client = NoDevice
       THEN Return(t)
       ELSE thread' = [thread EXCEPT ![t].pc = "logoutShared", ![t].cur = client,
                         ![t].dev = IF HasId(client) THEN client ELSE NoDevice]
    /\ wanted' = wanted \ {client}
    /\ UNCHANGED <<storedVars, serviceVars, swapMu, everPaired, leftovers>>

\* A client that is logged in deletes its device from the store; one that is
\* not is only disconnected, and the store keeps the device.
StopClient(d) ==
    /\ running' = [running EXCEPT ![d] = IF @ > 0 THEN @ - 1 ELSE 0]
    /\ \/ store' = store \ {d} /\ UNCHANGED leftovers
       \/ LogoutFails /\ leftovers' = leftovers \cup {d} /\ UNCHANGED store

Logout(t) ==
    /\ \/ At(t, "logoutShared") /\ Go(t, "clear")
       \/ At(t, "logoutPersonal") /\ Go(t, "forget")
    /\ StopClient(thread[t].cur)
    /\ UNCHANGED <<rows, client, personal, role, swapMu, everPaired, wanted>>

\* setClient(nil), whatever the pointer is by now.
Clear(t) == /\ At(t, "clear")
            /\ client' = NoDevice
            /\ IF thread[t].dev = NoDevice THEN Return(t) ELSE Go(t, "forget")
            /\ UNCHANGED <<storedVars, personal, role, running, swapMu, historyVars>>

Forget(t) == /\ At(t, "forget")
             /\ role' = [role EXCEPT ![thread[t].dev] = "none"]
             /\ Go(t, "deleteRow")
             /\ UNCHANGED <<storedVars, client, personal, running, swapMu, historyVars>>

DeleteRow(t) == /\ At(t, "deleteRow")
                /\ rows' = [rows EXCEPT ![thread[t].dev] = "none"]
                /\ Return(t)
                /\ UNCHANGED <<store, serviceVars, swapMu, historyVars>>

Remove(t) == \/ RemoveRead(t) \/ Leave(t) \/ DisconnectRead(t)
             \/ Logout(t) \/ Clear(t) \/ Forget(t) \/ DeleteRow(t)

-----------------------------------------------------------------------------
(* A request of the panel reaches an idle goroutine. *)

Request(p, op) == /\ At(p, "idle")
                  /\ op \in PanelOps
                  /\ PanelDuringBoot \/ ~Booting
                  /\ RemovesAlone =>
                        /\ op \in {"remove", "disconnect"} => Undisturbed({"idle"})
                        /\ Undisturbed(Steps \ RemoveSteps)

RequestPair(p, d) ==
    /\ Request(p, "pair")
    /\ d \notin everPaired
    /\ everPaired' = everPaired \cup {d}
    /\ store' = store \cup {d}
    /\ \E s \in BOOLEAN :
          /\ thread' = [thread EXCEPT ![p].pc = "pairRow", ![p].dev = d, ![p].share = s]
          /\ wanted' = IF s THEN wanted \cup {d} ELSE wanted
    /\ UNCHANGED <<rows, serviceVars, swapMu, leftovers>>

RequestSet(p, d) ==
    /\ Request(p, "set")
    /\ d \in everPaired
    /\ thread' = [thread EXCEPT ![p].pc = "lock", ![p].dev = d]
    /\ UNCHANGED <<storedVars, serviceVars, swapMu, historyVars>>

RequestUnset(p) ==
    /\ Request(p, "unset")
    /\ Go(p, "unsetLock")
    /\ UNCHANGED <<storedVars, serviceVars, swapMu, historyVars>>

RequestRemove(p, d) ==
    /\ Request(p, "remove")
    /\ d \in everPaired
    /\ thread' = [thread EXCEPT ![p].pc = "removeRead", ![p].dev = d]
    /\ wanted' = wanted \ {d}
    /\ UNCHANGED <<storedVars, serviceVars, swapMu, everPaired, leftovers>>

RequestDisconnect(p) ==
    /\ Request(p, "disconnect")
    /\ Go(p, "disconnectRead")
    /\ UNCHANGED <<storedVars, serviceVars, swapMu, historyVars>>

PanelRequest(p) == \/ \E d \in Devices : \/ RequestPair(p, d) \/ RequestSet(p, d)
                                         \/ RequestRemove(p, d)
                   \/ RequestUnset(p) \/ RequestDisconnect(p)

-----------------------------------------------------------------------------
(* Boot: NewWhatsAppService, then Start and StartPersonalDevices at once. *)

\* Rejected: the legacy fallback takes the first device, whatever its mark.
PickSharedFirst ==
    LET others == IF store = {} THEN {NoDevice} ELSE store
        marked == {d \in store : rows[d] = "shared"}
    IN IF marked = {} THEN others ELSE marked

\* pickSharedDevice: the device of the first "shared" row if the store has it,
\* otherwise any stored device that is not marked "personal", or none.
PickShared ==
    LET marked == {d \in Devices : rows[d] = "shared"}
        legacy == {d \in store : rows[d] # "personal"}
        others == IF legacy = {} THEN {NoDevice} ELSE legacy
    IN IF marked = {} THEN others
       ELSE UNION {IF d \in store THEN {d} ELSE others : d \in marked}

BootThread == [t \in Threads |-> CASE t = Starter -> [IdleThread EXCEPT !.pc = "seedList"]
                                   [] t = Booter -> [IdleThread EXCEPT !.pc = "list"]
                                   [] OTHER -> IdleThread]

SeedList == /\ At(Starter, "seedList")
            /\ thread' = [thread EXCEPT ![Starter].pc = "seed", ![Starter].seen = rows]
            /\ UNCHANGED <<storedVars, serviceVars, swapMu, historyVars>>

Seed == /\ At(Starter, "seed")
        /\ LET seen == thread[Starter].seen IN
           role' = [d \in Devices |-> IF seen[d] = "none" THEN role[d] ELSE seen[d]]
        /\ Go(Starter, "connect")
        /\ UNCHANGED <<storedVars, client, personal, running, swapMu, historyVars>>

\* Without a shared account, or when it cannot connect, nothing is tagged.
Connect == /\ At(Starter, "connect")
           /\ IF client = NoDevice
              THEN Return(Starter) /\ UNCHANGED running
              ELSE /\ running' = [running EXCEPT ![client] = @ + 1]
                   /\ Go(Starter, "tagRead") \/ Return(Starter)
           /\ UNCHANGED <<storedVars, client, personal, role, swapMu, historyVars>>

TagRead == /\ At(Starter, "tagRead")
           /\ IF client = NoDevice \/ ~HasId(client)
              THEN Return(Starter)
              ELSE thread' = [thread EXCEPT ![Starter].pc = "tagRow", ![Starter].cur = client]
           /\ UNCHANGED <<storedVars, serviceVars, swapMu, historyVars>>

TagRow == /\ At(Starter, "tagRow")
          /\ rows' = [rows EXCEPT ![thread[Starter].cur] = "shared"]
          /\ Go(Starter, "tagRole")
          /\ UNCHANGED <<store, serviceVars, swapMu, historyVars>>

TagRole == /\ At(Starter, "tagRole")
           /\ role' = [role EXCEPT ![thread[Starter].cur] = "shared"]
           /\ Return(Starter)
           /\ UNCHANGED <<storedVars, client, personal, running, swapMu, historyVars>>

ListRows == /\ At(Booter, "list")
            /\ IF \E d \in Devices : rows[d] = "personal"
               THEN thread' = [thread EXCEPT ![Booter].pc = "look", ![Booter].seen = rows]
               ELSE Return(Booter)
            /\ UNCHANGED <<storedVars, serviceVars, swapMu, historyVars>>

\* Rejected: the shared account is started as a personal one too.
LookAll == /\ At(Booter, "look")
           /\ thread' = [thread EXCEPT ![Booter].pc = "start",
                                       ![Booter].todo = store]
           /\ UNCHANGED <<storedVars, serviceVars, swapMu, historyVars>>

Look == /\ At(Booter, "look")
        /\ thread' = [thread EXCEPT
                        ![Booter].pc = "start",
                        ![Booter].todo = {d \in store : /\ d # client
                                                        /\ thread[Booter].seen[d] = "personal"}]
        /\ UNCHANGED <<storedVars, serviceVars, swapMu, historyVars>>

\* startPersonalClient
StartPersonal ==
    /\ At(Booter, "start")
    /\ \E d \in thread[Booter].todo :
          /\ running' = [running EXCEPT ![d] = @ + 1]
          /\ role' = [role EXCEPT ![d] = "personal"]
          /\ thread' = [thread EXCEPT ![Booter].pc = "startMap", ![Booter].dev = d,
                                      ![Booter].todo = @ \ {d}]
    /\ UNCHANGED <<storedVars, client, personal, swapMu, historyVars>>

StartMap ==
    /\ At(Booter, "startMap")
    /\ personal' = personal \cup {thread[Booter].dev}
    /\ Go(Booter, "start")
    /\ UNCHANGED <<storedVars, client, role, running, swapMu, historyVars>>

Started == /\ At(Booter, "start")
           /\ thread[Booter].todo = {}
           /\ Return(Booter)
           /\ UNCHANGED <<storedVars, serviceVars, swapMu, historyVars>>

Boot == \/ SeedList \/ Seed \/ Connect \/ TagRead \/ TagRow \/ TagRole
        \/ ListRows \/ Look \/ StartPersonal \/ StartMap \/ Started

Restart ==
    /\ \/ Restarts = "any"
       \/ Restarts = "quiet" /\ Undisturbed(Steps \ (PairSteps \cup RemoveSteps))
    /\ client' \in PickShared
    /\ personal' = {}
    /\ role' = [d \in Devices |-> "none"]
    /\ running' = [d \in Devices |-> 0]
    /\ swapMu' = NoThread
    /\ thread' = BootThread
    /\ UNCHANGED <<storedVars, historyVars>>

-----------------------------------------------------------------------------
\* A fresh installation: nothing is paired.
Init == /\ store = {}
        /\ rows = [d \in Devices |-> "none"]
        /\ client = NoDevice
        /\ personal = {}
        /\ role = [d \in Devices |-> "none"]
        /\ running = [d \in Devices |-> 0]
        /\ swapMu = NoThread
        /\ thread = BootThread
        /\ everPaired = {}
        /\ wanted = {}
        /\ leftovers = {}

Working(p) == SetShared(p) \/ UnsetShared(p) \/ FinalizePairing(p) \/ Remove(p)

Next == \/ \E p \in Panels : PanelRequest(p) \/ Working(p)
        \/ Boot
        \/ Restart

Spec == Init /\ [][Next]_vars

\* A goroutine that can go on does, and Go's mutex starves no one: a waiter
\* that finds swapMu free again and again gets it.
Fairness == \A p \in Panels : /\ WF_vars(Working(p))
                              /\ SF_vars(LockSwap(p) \/ LockUnset(p))

FairSpec == Spec /\ Fairness /\ WF_vars(Boot)

-----------------------------------------------------------------------------
TypeOK ==
    /\ store \subseteq Devices
    /\ rows \in [Devices -> Roles]
    /\ client \in Devices \cup {NoDevice}
    /\ personal \subseteq Devices
    /\ role \in [Devices -> Roles]
    /\ running \in [Devices -> Nat]
    /\ swapMu \in Panels \cup {NoThread}
    /\ thread \in [Threads -> Thread]
    /\ everPaired \subseteq Devices
    /\ wanted \subseteq Devices
    /\ leftovers \subseteq Devices

\* No two devices are marked shared, in memory or in the database, at any
\* moment of a promotion ("the '0 or 1 shared' invariant holds under
\* concurrency"; countShared: "must be 0 or 1").
OneShared == \A d, e \in Devices : \/ /\ role[d] = "shared" => role[e] # "shared"
                                      /\ rows[d] = "shared" => rows[e] # "shared"
                                   \/ d = e

\* Both records of the roles, the rows and the map in memory, are books in the
\* sense of RoleBook at every step: nobody is promoted before the incumbent was
\* demoted there, and a demoted account stays on as a personal device, also
\* when the process restarts in the middle of it (SetSharedDevice: "Any current
\* shared device is demoted to a personal device").
Rows == INSTANCE RoleBook WITH book <- rows, Volatile <- FALSE
RolesInMemory == INSTANCE RoleBook WITH book <- role, Volatile <- TRUE
BooksKept == Rows!Spec /\ RolesInMemory!Spec

\* Once no request is under way, the client pointer, the map of personal
\* devices, the role map and the rows tell the same story of every device but
\* those that were removed while they were offline.
AgreeAtRest ==
    AtRest => \A d \in Devices \ leftovers :
                                /\ client = d <=> role[d] = "shared"
                                /\ d \in personal <=> role[d] = "personal"
                                /\ rows[d] = role[d]

\* Once no request is under way, every device that has a session and a role
\* is served, and by one client object: a second one would answer each
\* message twice.  (Leftovers may be started again as the legacy fallback.)
ServedOnce ==
    AtRest => \A d \in Devices \ leftovers :
                running[d] = IF d \in store /\ rows[d] # "none" THEN 1 ELSE 0

\* A device is the shared account only because somebody asked for it: none
\* gets there by a restart, by another device's removal or by its position in
\* the store ("a personal device must not become the shared account just for
\* coming first in the store").  The exception is a device removed while it
\* was offline: the store keeps it, its row is gone, and the fallback for
\* legacy installations may pick it.
SharedOnlyIfWanted ==
    AtRest /\ client # NoDevice => client \in wanted \cup leftovers

\* Every request comes to an end: swapMu is released on every path, and
\* nobody waits for it for ever.
RequestsReturn == \A p \in Panels : ~At(p, "idle") ~> At(p, "idle")

=============================================================================
