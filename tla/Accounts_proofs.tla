---------------------------- MODULE Accounts_proofs ----------------------------
(***************************************************************************)
(* Proofs about the WhatsApp accounts: at most one is marked as shared, in *)
(* memory and in the database, both records change as the book of RoleBook *)
(* may, and at rest all places agree.  This needs the panel left alone     *)
(* during the boot, removals apart from other requests, and no crash while *)
(* a device comes or goes (Scope): without each of these some of it fails. *)
(*                                                                         *)
(* The argument: every shared mark is the client pointer's device.  What   *)
(* moves the pointer without swapMu is alone (Exclusive); what moves it    *)
(* under swapMu first leaves no mark anywhere (Swapping).                  *)
(***************************************************************************)
EXTENDS Accounts, TLAPS

Scope == /\ ~PanelDuringBoot
         /\ RemovesAlone
         /\ Restarts # "any"

Pc(t) == thread[t].pc
Dev(t) == thread[t].dev
Cur(t) == thread[t].cur

\* The steps made with swapMu held.
Held == SwapSteps \ {"lock", "unsetLock"}

\* Which thread can be where: panel goroutines never boot, and each boot
\* goroutine keeps to its own steps.
StarterSteps == {"idle", "seedList", "seed", "connect", "tagRead", "tagRow", "tagRole"}
BooterSteps == {"idle", "list", "look", "start", "startMap"}

Kinds == /\ \A p \in Panels : Pc(p) \notin BootSteps
         /\ Pc(Starter) \in StarterSteps
         /\ Pc(Booter) \in BooterSteps

\* A swap has the mutex, a removal has the panel, the boot has everything.
Exclusive ==
    /\ \A p \in Panels : Pc(p) \in Held <=> swapMu = p
    /\ \A p \in Panels : Pc(p) \in RemoveSteps =>
                            \A u \in Threads : u = p \/ Pc(u) = "idle"
    /\ Booting => \A p \in Panels : Pc(p) = "idle"

\* Demoted, but still the client pointer's device.
Demoting == {"demoteRole", "leaveMap", "point", "unsetRole", "unsetPoint"}

\* Where devices are: only paired devices are stored, only stored ones serve,
\* and the shared account is not a personal one, but while it is demoted.
Places == /\ personal \subseteq store
          /\ store \subseteq everPaired
          /\ client \in store \cup {NoDevice} \/ \E p \in Panels : Pc(p) = "clear"
          /\ client \notin personal \/ \E p \in Panels : Pc(p) \in Demoting

NoRow == \A d \in Devices : rows[d] # "shared"
NoRole == \A d \in Devices : role[d] # "shared"

\* Every mark is the shared account's, or that of one being removed.
Leaving(d, steps) == /\ client = NoDevice
                     /\ \E p \in Panels : Pc(p) \in steps /\ Dev(p) = d

Marks == \A d \in Devices :
            /\ rows[d] = "shared" => client = d \/ Leaving(d, {"forget", "deleteRow"})
            /\ role[d] = "shared" => client = d \/ Leaving(d, {"forget"})

\* What a promotion or a demotion has seen and done at each of its steps.
Swapping(p) ==
    /\ Pc(p) \in {"incumbent", "demoteRow", "demoteMap", "demoteRole", "leaveMap"} =>
          Dev(p) \in personal
    /\ Pc(p) \in {"demoteRow", "demoteMap", "demoteRole", "unsetRow", "unsetMap", "unsetRole"} =>
          Cur(p) = client /\ client \in store
    /\ Pc(p) = "point" => Dev(p) \in store \ personal
    /\ Pc(p) \in {"promoteRow", "promoteRole"} => client = Dev(p)
    /\ Pc(p) \in {"demoteMap", "demoteRole", "leaveMap", "point", "promoteRow",
                  "unsetMap", "unsetRole", "unsetPoint"} => NoRow
    /\ Pc(p) \in {"leaveMap", "point", "promoteRow", "promoteRole", "unsetPoint"} => NoRole

\* A device being registered is nobody else's yet.
Pairing(p) ==
    Pc(p) \in PairSteps =>
       /\ Dev(p) \in store \ personal
       /\ Dev(p) # client
       /\ \A u \in Panels : Pc(u) \in PairSteps \cup {"point"} /\ Dev(u) = Dev(p) => u = p

Removing(p) ==
    /\ Pc(p) \in {"logoutShared", "clear"} => Cur(p) = client /\ Dev(p) = client
    /\ Pc(p) = "logoutShared" => client \in store
    /\ Pc(p) = "logoutPersonal" => /\ Cur(p) = Dev(p)
                                  /\ Dev(p) \in store \ (personal \cup {client})
    /\ Pc(p) = "removeRead" => Dev(p) \in Devices
    /\ Pc(p) = "leave" => Dev(p) \in Devices \ {client}

\* What the boot goroutines have seen still holds: nobody else is at work.
Starting ==
    /\ Pc(Starter) \in {"seedList", "seed"} => NoRole
    /\ Pc(Starter) = "seed" => \A d \in Devices :
                                  thread[Starter].seen[d] = "shared" => client = d
    /\ Pc(Starter) \in {"tagRow", "tagRole"} => Cur(Starter) = client /\ client \in store
    /\ Pc(Booter) \in {"start", "startMap"} =>
          thread[Booter].todo \subseteq store \ {client}
    /\ Pc(Booter) = "startMap" => Dev(Booter) \in store \ {client}

Locals == \A p \in Panels : Swapping(p) /\ Pairing(p) /\ Removing(p)

\* The inductive invariant.
IInv == TypeOK /\ Kinds /\ Exclusive /\ Places /\ Marks /\ Locals /\ Starting

-----------------------------------------------------------------------------
(* Types *)

\* Fields of the state but the threads.
Recorded == /\ store \subseteq Devices
            /\ rows \in [Devices -> Roles]
            /\ client \in Devices \cup {NoDevice}
            /\ personal \subseteq Devices
            /\ role \in [Devices -> Roles]
            /\ running \in [Devices -> Nat]
            /\ swapMu \in Panels \cup {NoThread}
            /\ everPaired \subseteq Devices
            /\ wanted \subseteq Devices
            /\ leftovers \subseteq Devices

Threaded == thread \in [Threads -> Thread]

\* The types are those of the places and of the threads.
LEMMA TypeParts == TypeOK <=> Recorded /\ Threaded
BY DEF TypeOK, Recorded, Threaded

\* What a thread has at hand is a device, or nothing.
LEMMA Fields ==
    ASSUME TypeOK
    PROVE  \A t \in Threads : /\ thread[t].dev \in Devices \cup {NoDevice}
                              /\ thread[t].cur \in Devices \cup {NoDevice}
                              /\ thread[t].seen \in [Devices -> Roles]
                              /\ thread[t].todo \subseteq Devices
BY DEF TypeOK, Thread

\* A role may be entered anywhere, also for no device: nothing changes then.
LEMMA EntryTyped ==
    ASSUME NEW f \in [Devices -> Roles], NEW d, NEW r \in Roles
    PROVE  [f EXCEPT ![d] = r] \in [Devices -> Roles]
OBVIOUS

\* A thread at rest is a thread.
LEMMA IdleTyped == IdleThread \in Thread
BY DEF IdleThread, Thread, Steps, Roles

\* The threads' records stay records: after Return ...
LEMMA ReturnTyped ==
    ASSUME TypeOK, NEW t \in Threads, Return(t)
    PROVE  Threaded'
BY IdleTyped DEF Return, TypeOK, Threaded

\* ... after Go, and below after Go with one more field.
LEMMA GoTyped ==
    ASSUME TypeOK, NEW t \in Threads, NEW step \in Steps, Go(t, step)
    PROVE  Threaded'
BY DEF Go, TypeOK, Thread, Threaded

\* Go, with a device put in hand.
LEMMA DevTyped ==
    ASSUME TypeOK, NEW t \in Threads, NEW step \in Steps, NEW d \in Devices
    PROVE  [thread EXCEPT ![t].pc = step, ![t].dev = d] \in [Threads -> Thread]
BY DEF TypeOK, Thread

\* A field for whether a pairing shares.
LEMMA ShareTyped ==
    ASSUME NEW f \in [Threads -> Thread], NEW t \in Threads, NEW s \in BOOLEAN
    PROVE  [f EXCEPT ![t].share = s] \in [Threads -> Thread]
BY Zenon DEF Thread

\* Go, with the roles the boot has read.
LEMMA SeenTyped ==
    ASSUME TypeOK, NEW t \in Threads, NEW step \in Steps, NEW seen \in [Devices -> Roles]
    PROVE  [thread EXCEPT ![t].pc = step, ![t].seen = seen] \in [Threads -> Thread]
BY DEF TypeOK, Thread

\* Go, with the devices the boot starts.
LEMMA TodoTyped ==
    ASSUME TypeOK, NEW t \in Threads, NEW step \in Steps, NEW todo \in SUBSET Devices
    PROVE  [thread EXCEPT ![t].pc = step, ![t].todo = todo] \in [Threads -> Thread]
BY DEF TypeOK, Thread

\* A panel goroutine writes only roles and devices to the places.
LEMMA WorkingRecords ==
    ASSUME TypeOK, NEW p \in Panels, Working(p)
    PROVE  Recorded'
<1> USE AccountsAssumption, SMTT(20) DEF Recorded, Roles, Threads, BootThreads, NoThread,
   storedVars,
          serviceVars, historyVars
<1>1. CASE LockSwap(p)
  BY <1>1, EntryTyped, Fields, TypeParts DEF LockSwap
<1>2. CASE SetTarget(p)
  BY <1>2, EntryTyped, Fields, TypeParts DEF SetTarget
<1>3. CASE SetIncumbent(p)
  BY <1>3, EntryTyped, Fields, TypeParts DEF SetIncumbent
<1>4. CASE DemoteRow(p)
  BY <1>4, EntryTyped, Fields, TypeParts DEF DemoteRow
<1>5. CASE DemoteMap(p)
  BY <1>5, EntryTyped, Fields, TypeParts DEF DemoteMap
<1>6. CASE DemoteRole(p)
  BY <1>6, EntryTyped, Fields, TypeParts DEF DemoteRole
<1>7. CASE LeaveMap(p)
  BY <1>7, EntryTyped, Fields, TypeParts DEF LeaveMap
<1>8. CASE Point(p)
  BY <1>8, EntryTyped, Fields, TypeParts DEF Point
<1>9. CASE PromoteRow(p)
  BY <1>9, EntryTyped, Fields, TypeParts DEF PromoteRow
<1>10. CASE PromoteRole(p)
  BY <1>10, EntryTyped, Fields, TypeParts DEF PromoteRole
<1>11. CASE LockUnset(p)
  BY <1>11, EntryTyped, Fields, TypeParts DEF LockUnset
<1>12. CASE UnsetRead(p)
  BY <1>12, EntryTyped, Fields, TypeParts DEF UnsetRead
<1>13. CASE UnsetRow(p)
  BY <1>13, EntryTyped, Fields, TypeParts DEF UnsetRow
<1>14. CASE UnsetMap(p)
  BY <1>14, EntryTyped, Fields, TypeParts DEF UnsetMap
<1>15. CASE UnsetRole(p)
  BY <1>15, EntryTyped, Fields, TypeParts DEF UnsetRole
<1>16. CASE UnsetPoint(p)
  BY <1>16, EntryTyped, Fields, TypeParts DEF UnsetPoint
<1>17. CASE PairRow(p)
  BY <1>17, EntryTyped, Fields, TypeParts DEF PairRow
<1>18. CASE PairRole(p)
  BY <1>18, EntryTyped, Fields, TypeParts DEF PairRole
<1>19. CASE PairMap(p)
  BY <1>19, EntryTyped, Fields, TypeParts DEF PairMap
<1>20. CASE RemoveRead(p)
  BY <1>20, EntryTyped, Fields, TypeParts DEF RemoveRead
<1>21. CASE Leave(p)
  BY <1>21, EntryTyped, Fields, TypeParts DEF Leave
<1>22. CASE DisconnectRead(p)
  BY <1>22, EntryTyped, Fields, TypeParts DEF DisconnectRead
<1>23. CASE Logout(p)
  BY <1>23, EntryTyped, Fields, TypeParts DEF Logout, StopClient
<1>24. CASE Clear(p)
  BY <1>24, EntryTyped, Fields, TypeParts DEF Clear
<1>25. CASE Forget(p)
  BY <1>25, EntryTyped, Fields, TypeParts DEF Forget
<1>26. CASE DeleteRow(p)
  BY <1>26, EntryTyped, Fields, TypeParts DEF DeleteRow
<1> QED
  BY <1>1, <1>2, <1>3, <1>4, <1>5, <1>6, <1>7, <1>8, <1>9, <1>10, <1>11, <1>12, <1>13,
     <1>14, <1>15, <1>16, <1>17, <1>18, <1>19, <1>20, <1>21, <1>22, <1>23, <1>24, <1>25,
     <1>26 DEF Working, SetShared, UnsetShared, FinalizePairing, Remove

\* A panel goroutine is always at one of its steps, with devices at hand.
LEMMA WorkingThreads ==
    ASSUME TypeOK, NEW p \in Panels, Working(p)
    PROVE  Threaded'
<1> USE AccountsAssumption, SMTT(20) DEF Threaded, TypeOK, Threads, BootThreads, Steps,
   SwapSteps, PairSteps,
          RemoveSteps, BootSteps
<1>1. CASE LockSwap(p)
  BY <1>1, GoTyped, ReturnTyped DEF LockSwap, Thread, Roles
<1>2. CASE SetTarget(p)
  BY <1>2, GoTyped, ReturnTyped DEF SetTarget, Thread, Roles
<1>3. CASE SetIncumbent(p)
  BY <1>3, GoTyped, ReturnTyped DEF SetIncumbent, Thread, Roles
<1>4. CASE DemoteRow(p)
  BY <1>4, GoTyped, ReturnTyped DEF DemoteRow, Thread, Roles
<1>5. CASE DemoteMap(p)
  BY <1>5, GoTyped, ReturnTyped DEF DemoteMap, Thread, Roles
<1>6. CASE DemoteRole(p)
  BY <1>6, GoTyped, ReturnTyped DEF DemoteRole, Thread, Roles
<1>7. CASE LeaveMap(p)
  BY <1>7, GoTyped, ReturnTyped DEF LeaveMap, Thread, Roles
<1>8. CASE Point(p)
  BY <1>8, GoTyped, ReturnTyped DEF Point, Thread, Roles
<1>9. CASE PromoteRow(p)
  BY <1>9, GoTyped, ReturnTyped DEF PromoteRow, Thread, Roles
<1>10. CASE PromoteRole(p)
  BY <1>10, GoTyped, ReturnTyped DEF PromoteRole, Thread, Roles
<1>11. CASE LockUnset(p)
  BY <1>11, GoTyped, ReturnTyped DEF LockUnset, Thread, Roles
<1>12. CASE UnsetRead(p)
  BY <1>12, GoTyped, ReturnTyped DEF UnsetRead, Thread, Roles
<1>13. CASE UnsetRow(p)
  BY <1>13, GoTyped, ReturnTyped DEF UnsetRow, Thread, Roles
<1>14. CASE UnsetMap(p)
  BY <1>14, GoTyped, ReturnTyped DEF UnsetMap, Thread, Roles
<1>15. CASE UnsetRole(p)
  BY <1>15, GoTyped, ReturnTyped DEF UnsetRole, Thread, Roles
<1>16. CASE UnsetPoint(p)
  BY <1>16, GoTyped, ReturnTyped DEF UnsetPoint, Thread, Roles
<1>17. CASE PairRow(p)
  BY <1>17, GoTyped, ReturnTyped DEF PairRow, Thread, Roles
<1>18. CASE PairRole(p)
  BY <1>18, GoTyped, ReturnTyped DEF PairRole, Thread, Roles
<1>19. CASE PairMap(p)
  BY <1>19, GoTyped, ReturnTyped DEF PairMap, Thread, Roles
<1>20. CASE RemoveRead(p)
  BY <1>20, GoTyped, ReturnTyped DEF RemoveRead, Thread, Roles
<1>21. CASE Leave(p)
  BY <1>21, GoTyped, ReturnTyped DEF Leave, Thread, Roles
<1>22. CASE DisconnectRead(p)
  BY <1>22, GoTyped, ReturnTyped DEF DisconnectRead, Thread, Roles
<1>23. CASE Logout(p)
  BY <1>23, GoTyped, ReturnTyped DEF Logout, StopClient, Thread, Roles
<1>24. CASE Clear(p)
  BY <1>24, GoTyped, ReturnTyped DEF Clear, Thread, Roles
<1>25. CASE Forget(p)
  BY <1>25, GoTyped, ReturnTyped DEF Forget, Thread, Roles
<1>26. CASE DeleteRow(p)
  BY <1>26, GoTyped, ReturnTyped DEF DeleteRow, Thread, Roles
<1> QED
  BY <1>1, <1>2, <1>3, <1>4, <1>5, <1>6, <1>7, <1>8, <1>9, <1>10, <1>11, <1>12, <1>13,
     <1>14, <1>15, <1>16, <1>17, <1>18, <1>19, <1>20, <1>21, <1>22, <1>23, <1>24, <1>25,
     <1>26 DEF Working, SetShared, UnsetShared, FinalizePairing, Remove

\* The boot goroutines write only roles and devices to the places.
LEMMA BootRecords ==
    ASSUME TypeOK, Boot
    PROVE  Recorded'
<1> USE AccountsAssumption, SMTT(20) DEF Recorded, Roles, Threads, BootThreads, NoThread,
   storedVars,
          serviceVars, historyVars
<1>1. CASE SeedList
  BY <1>1, EntryTyped, Fields, TypeParts DEF SeedList
<1>2. CASE Seed
  BY <1>2, EntryTyped, Fields, TypeParts DEF Seed
<1>3. CASE Connect
  BY <1>3, EntryTyped, Fields, TypeParts DEF Connect
<1>4. CASE TagRead
  BY <1>4, EntryTyped, Fields, TypeParts DEF TagRead
<1>5. CASE TagRow
  BY <1>5, EntryTyped, Fields, TypeParts DEF TagRow
<1>6. CASE TagRole
  BY <1>6, EntryTyped, Fields, TypeParts DEF TagRole
<1>7. CASE ListRows
  BY <1>7, EntryTyped, Fields, TypeParts DEF ListRows
<1>8. CASE Look
  BY <1>8, EntryTyped, Fields, TypeParts DEF Look
<1>9. CASE StartPersonal
  BY <1>9, EntryTyped, Fields, TypeParts DEF StartPersonal
<1>10. CASE StartMap
  BY <1>10, EntryTyped, Fields, TypeParts DEF StartMap
<1>11. CASE Started
  BY <1>11, EntryTyped, Fields, TypeParts DEF Started
<1> QED
  BY <1>1, <1>2, <1>3, <1>4, <1>5, <1>6, <1>7, <1>8, <1>9, <1>10, <1>11 DEF Boot

\* The boot goroutines are always at one of their steps.
LEMMA BootThreadsTyped ==
    ASSUME TypeOK, Boot
    PROVE  Threaded'
<1> USE AccountsAssumption, SMTT(20) DEF Threaded, TypeOK, Threads, BootThreads, Steps,
   SwapSteps, PairSteps,
          RemoveSteps, BootSteps
<1>1. CASE SeedList
  <2>1. thread' = [thread EXCEPT ![Starter].pc = "seed", ![Starter].seen = rows]
    BY <1>1, Zenon DEF SeedList
  <2>2. Starter \in Threads /\ "seed" \in Steps /\ rows \in [Devices -> Roles]
    OBVIOUS
  <2> QED
    BY <2>1, <2>2, SeenTyped, Zenon
<1>2. CASE Seed
  BY <1>2, GoTyped, ReturnTyped DEF Seed, Thread, Roles
<1>3. CASE Connect
  BY <1>3, GoTyped, ReturnTyped DEF Connect, Thread, Roles
<1>4. CASE TagRead
  BY <1>4, GoTyped, ReturnTyped DEF TagRead, Thread, Roles
<1>5. CASE TagRow
  BY <1>5, GoTyped, ReturnTyped DEF TagRow, Thread, Roles
<1>6. CASE TagRole
  BY <1>6, GoTyped, ReturnTyped DEF TagRole, Thread, Roles
<1>7. CASE ListRows
  <2>1. Booter \in Threads /\ "look" \in Steps /\ rows \in [Devices -> Roles]
    OBVIOUS
  <2>2. CASE Return(Booter)
    BY <2>1, <2>2, ReturnTyped, Zenon
  <2>3. CASE thread' = [thread EXCEPT ![Booter].pc = "look", ![Booter].seen = rows]
    BY <2>1, <2>3, SeenTyped, Zenon
  <2> QED
    BY <1>7, <2>2, <2>3, Zenon DEF ListRows
<1>8. CASE Look
  <2> DEFINE todo == {d \in store : d # client /\ thread[Booter].seen[d] = "personal"}
  <2>1. todo \in SUBSET Devices
    OBVIOUS
  <2>2. thread' = [thread EXCEPT ![Booter].pc = "start", ![Booter].todo = todo]
    BY <1>8, Zenon DEF Look
  <2>3. Booter \in Threads /\ "start" \in Steps
    OBVIOUS
  <2> HIDE DEF todo
  <2> QED
    BY <2>1, <2>2, <2>3, TodoTyped, Zenon
<1>9. CASE StartPersonal
  BY <1>9 DEF StartPersonal, Thread, Roles
<1>10. CASE StartMap
  BY <1>10, GoTyped, ReturnTyped DEF StartMap, Thread, Roles
<1>11. CASE Started
  BY <1>11, GoTyped, ReturnTyped DEF Started, Thread, Roles
<1> QED
  BY <1>1, <1>2, <1>3, <1>4, <1>5, <1>6, <1>7, <1>8, <1>9, <1>10, <1>11 DEF Boot

\* A request starts at a step, with the device it names.
LEMMA RequestTyped ==
    ASSUME TypeOK, NEW p \in Panels, PanelRequest(p)
    PROVE  TypeOK'
<1>0. p \in Threads
  BY DEF Threads
<1>1. Recorded'
  BY TypeParts DEF PanelRequest, RequestPair, RequestSet, RequestRemove, RequestUnset,
     RequestDisconnect, Recorded, storedVars, serviceVars, historyVars
<1>2. ASSUME NEW d \in Devices, RequestPair(p, d)
      PROVE  Threaded'
  <2>1. PICK s \in BOOLEAN :
           thread' = [thread EXCEPT ![p].pc = "pairRow", ![p].dev = d, ![p].share = s]
    BY <1>2 DEF RequestPair
  <2> DEFINE f == [thread EXCEPT ![p].pc = "pairRow", ![p].dev = d]
  <2>2. f \in [Threads -> Thread]
    BY <1>0, DevTyped DEF Steps, PairSteps
  <2>3. thread' = [f EXCEPT ![p].share = s]
    BY <2>1
  <2> HIDE DEF f
  <2> QED
    BY <1>0, <2>2, <2>3, ShareTyped DEF Threaded
<1>3. ASSUME NEW d \in Devices, RequestSet(p, d)
      PROVE  Threaded'
  BY <1>0, <1>3, DevTyped DEF RequestSet, Threaded, Steps, SwapSteps
<1>4. ASSUME NEW d \in Devices, RequestRemove(p, d)
      PROVE  Threaded'
  <2>1. thread' = [thread EXCEPT ![p].pc = "removeRead", ![p].dev = d]
    BY <1>4 DEF RequestRemove
  <2>2. "removeRead" \in Steps
    BY DEF Steps, RemoveSteps
  <2> QED
    BY <1>0, <2>1, <2>2, DevTyped DEF Threaded
<1>5. ASSUME RequestUnset(p) \/ RequestDisconnect(p)
      PROVE  Threaded'
  BY <1>0, <1>5, GoTyped DEF RequestUnset, RequestDisconnect, Steps, SwapSteps, RemoveSteps
<1> QED
  BY <1>1, <1>2, <1>3, <1>4, <1>5 DEF PanelRequest, TypeOK, Recorded, Threaded

\* A new process starts with idle panels and the boot at its first steps.
LEMMA RestartTyped ==
    ASSUME TypeOK, Restart
    PROVE  TypeOK'
<1>1. Recorded'
  BY TypeParts DEF Restart, PickShared, Recorded, Roles, storedVars, historyVars, NoThread
<1>2. BootThread \in [Threads -> Thread]
  BY IdleTyped, AccountsAssumption DEF BootThread, Threads, BootThreads, Thread, Steps,
     BootSteps
<1> QED
  BY <1>1, <1>2 DEF Restart, Threaded, TypeOK, Recorded

\* TypeOK is inductive by itself.
LEMMA NextTyped ==
    ASSUME TypeOK, [Next]_vars
    PROVE  TypeOK'
<1>1. CASE Next
  BY <1>1, WorkingRecords, WorkingThreads, BootRecords, BootThreadsTyped, RequestTyped,
     RestartTyped DEF Next, TypeOK, Recorded, Threaded
<1>2. CASE UNCHANGED vars
  BY <1>2 DEF TypeOK, vars, storedVars, serviceVars, historyVars
<1> QED
  BY <1>1, <1>2

\* Every place holds devices and roles, whatever the scope.
THEOREM TypeCorrect == Spec => []TypeOK
<1>1. Init => TypeOK
  <2> SUFFICES ASSUME Init PROVE TypeOK
    OBVIOUS
  <2>1. BootThread \in [Threads -> Thread]
    BY IdleTyped, AccountsAssumption DEF BootThread, Threads, BootThreads, Thread, Steps,
       BootSteps
  <2> QED
    BY <2>1 DEF Init, TypeOK, Roles
<1>2. TypeOK /\ [Next]_vars => TypeOK'
  BY NextTyped
<1> QED
  BY <1>1, <1>2, PTL DEF Spec

-----------------------------------------------------------------------------
(* At most one shared account *)

\* The inductive invariant but its types.
Safe == Kinds /\ Exclusive /\ Places /\ Marks /\ Locals /\ Starting

\* SetSharedDevice: the incumbent loses its marks before the pointer moves.
LEMMA SwapSafe ==
    ASSUME Scope, IInv, NEW p \in Panels, SetShared(p)
    PROVE  Safe'
<1> USE AccountsAssumption, SMTT(20) DEF TypeOK, Thread, Roles, NoThread, Threads,
   BootThreads, Steps,
          SwapSteps, PairSteps, RemoveSteps, BootSteps, storedVars,
          serviceVars, historyVars, Pc, Dev, Cur, At, Go, Return, HasId,
          IdleThread, Kinds, StarterSteps, BooterSteps, Held, Exclusive,
          Booting, Places, Demoting, Marks, Leaving, NoRow, NoRole, Locals,
          Swapping, Pairing, Removing, Starting, Scope, IInv, Safe
<1>1. CASE LockSwap(p)
  BY <1>1 DEF LockSwap
<1>2. CASE SetTarget(p)
  BY <1>2 DEF SetTarget
<1>3. CASE SetIncumbent(p)
  BY <1>3 DEF SetIncumbent
<1>4. CASE DemoteRow(p)
  BY <1>4 DEF DemoteRow
<1>5. CASE DemoteMap(p)
  BY <1>5 DEF DemoteMap
<1>6. CASE DemoteRole(p)
  BY <1>6 DEF DemoteRole
<1>7. CASE LeaveMap(p)
  BY <1>7 DEF LeaveMap
<1>8. CASE Point(p)
  <2>1. Kinds'
    BY <1>8 DEF Point
  <2>2. Exclusive'
    BY <1>8 DEF Point
  <2>3. Places'
    BY <1>8 DEF Point
  <2>4. Marks'
    BY <1>8 DEF Point
  <2>5. Locals'
    BY <1>8 DEF Point
  <2>6. Starting'
    BY <1>8 DEF Point
  <2> QED
    BY <2>1, <2>2, <2>3, <2>4, <2>5, <2>6
<1>9. CASE PromoteRow(p)
  BY <1>9 DEF PromoteRow
<1>10. CASE PromoteRole(p)
  BY <1>10 DEF PromoteRole
<1> QED
  BY <1>1, <1>2, <1>3, <1>4, <1>5, <1>6, <1>7, <1>8, <1>9, <1>10 DEF SetShared

\* UnsetSharedDevice: the same, and the pointer is cleared.
LEMMA UnsetSafe ==
    ASSUME Scope, IInv, NEW p \in Panels, UnsetShared(p)
    PROVE  Safe'
<1> USE AccountsAssumption, SMTT(20) DEF TypeOK, Thread, Roles, NoThread, Threads,
   BootThreads, Steps,
          SwapSteps, PairSteps, RemoveSteps, BootSteps, storedVars,
          serviceVars, historyVars, Pc, Dev, Cur, At, Go, Return, HasId,
          IdleThread, Kinds, StarterSteps, BooterSteps, Held, Exclusive,
          Booting, Places, Demoting, Marks, Leaving, NoRow, NoRole, Locals,
          Swapping, Pairing, Removing, Starting, Scope, IInv, Safe
<1>1. CASE LockUnset(p)
  BY <1>1 DEF LockUnset
<1>2. CASE UnsetRead(p)
  BY <1>2 DEF UnsetRead
<1>3. CASE UnsetRow(p)
  BY <1>3 DEF UnsetRow
<1>4. CASE UnsetMap(p)
  BY <1>4 DEF UnsetMap
<1>5. CASE UnsetRole(p)
  BY <1>5 DEF UnsetRole
<1>6. CASE UnsetPoint(p)
  BY <1>6 DEF UnsetPoint
<1> QED
  BY <1>1, <1>2, <1>3, <1>4, <1>5, <1>6 DEF UnsetShared

\* A pairing writes personal roles of a device that is nobody else's.
LEMMA PairingSafe ==
    ASSUME Scope, IInv, NEW p \in Panels, FinalizePairing(p)
    PROVE  Safe'
<1> USE AccountsAssumption, SMTT(20) DEF TypeOK, Thread, Roles, NoThread, Threads,
   BootThreads, Steps,
          SwapSteps, PairSteps, RemoveSteps, BootSteps, storedVars,
          serviceVars, historyVars, Pc, Dev, Cur, At, Go, Return, HasId,
          IdleThread, Kinds, StarterSteps, BooterSteps, Held, Exclusive,
          Booting, Places, Demoting, Marks, Leaving, NoRow, NoRole, Locals,
          Swapping, Pairing, Removing, Starting, Scope, IInv, Safe
<1>1. CASE PairRow(p)
  BY <1>1 DEF PairRow
<1>2. CASE PairRole(p)
  BY <1>2 DEF PairRole
<1>3. CASE PairMap(p)
  <2>1. Kinds'
    BY <1>3 DEF PairMap
  <2>2. Exclusive'
    BY <1>3 DEF PairMap
  <2>3. Places'
    BY <1>3 DEF PairMap
  <2>4. Marks'
    BY <1>3 DEF PairMap
  <2>5. Locals'
    BY <1>3 DEF PairMap
  <2>6. Starting'
    BY <1>3 DEF PairMap
  <2> QED
    BY <2>1, <2>2, <2>3, <2>4, <2>5, <2>6
<1> QED
  BY <1>1, <1>2, <1>3 DEF FinalizePairing

\* A removal is alone, so the pointer it read is the pointer it clears.
LEMMA RemovalSafe ==
    ASSUME Scope, IInv, NEW p \in Panels, Remove(p)
    PROVE  Safe'
<1> USE AccountsAssumption, SMTT(20) DEF TypeOK, Thread, Roles, NoThread, Threads,
   BootThreads, Steps,
          SwapSteps, PairSteps, RemoveSteps, BootSteps, storedVars,
          serviceVars, historyVars, Pc, Dev, Cur, At, Go, Return, HasId,
          IdleThread, Kinds, StarterSteps, BooterSteps, Held, Exclusive,
          Booting, Places, Demoting, Marks, Leaving, NoRow, NoRole, Locals,
          Swapping, Pairing, Removing, Starting, Scope, IInv, Safe
<1>1. CASE RemoveRead(p)
  <2>1. Kinds'
    BY <1>1 DEF RemoveRead
  <2>2. Exclusive'
    BY <1>1 DEF RemoveRead
  <2>3. Places'
    BY <1>1 DEF RemoveRead
  <2>4. Marks'
    BY <1>1 DEF RemoveRead
  <2>5. Starting'
    BY <1>1 DEF RemoveRead
  <2>6. ASSUME NEW q \in Panels
        PROVE  (Swapping(q) /\ Pairing(q) /\ Removing(q))'
    <3>1. \A u \in Threads : u = p \/ thread[u].pc = "idle"
      BY <1>1 DEF RemoveRead
    <3>2. client \in store \cup {NoDevice}
      BY <3>1, <1>1 DEF RemoveRead
    <3>3. CASE q = p
      BY <3>2, <3>3, <1>1 DEF RemoveRead
    <3>4. CASE q # p
      BY <3>1, <3>4, <1>1 DEF RemoveRead
    <3> QED
      BY <3>3, <3>4
  <2>7. Locals'
    BY <2>6 DEF Locals
  <2> QED
    BY <2>1, <2>2, <2>3, <2>4, <2>5, <2>7 DEF Safe

<1>2. CASE Leave(p)
  BY <1>2 DEF Leave
<1>3. CASE DisconnectRead(p)
  BY <1>3 DEF DisconnectRead
<1>4. CASE Logout(p)
  <2>1. Kinds'
    BY <1>4 DEF Logout, StopClient
  <2>2. Exclusive'
    BY <1>4 DEF Logout, StopClient
  <2>3. Places'
    BY <1>4 DEF Logout, StopClient
  <2>4. Marks'
    BY <1>4 DEF Logout, StopClient
  <2>5. Locals'
    BY <1>4 DEF Logout, StopClient
  <2>6. Starting'
    BY <1>4 DEF Logout, StopClient
  <2> QED
    BY <2>1, <2>2, <2>3, <2>4, <2>5, <2>6
<1>5. CASE Clear(p)
  BY <1>5 DEF Clear
<1>6. CASE Forget(p)
  BY <1>6 DEF Forget
<1>7. CASE DeleteRow(p)
  BY <1>7 DEF DeleteRow
<1> QED
  BY <1>1, <1>2, <1>3, <1>4, <1>5, <1>6, <1>7 DEF Remove

\* Requests wait for the boot, and for a removal, to be over.
LEMMA RequestSafe ==
    ASSUME Scope, IInv, NEW p \in Panels, PanelRequest(p)
    PROVE  Safe'
<1> USE AccountsAssumption, SMTT(20) DEF TypeOK, Thread, Roles, NoThread, Threads,
   BootThreads, Steps,
          SwapSteps, PairSteps, RemoveSteps, BootSteps, storedVars,
          serviceVars, historyVars, Pc, Dev, Cur, At, Go, Return, HasId,
          IdleThread, Kinds, StarterSteps, BooterSteps, Held, Exclusive,
          Booting, Places, Demoting, Marks, Leaving, NoRow, NoRole, Locals,
          Swapping, Pairing, Removing, Starting, Scope, IInv, Safe,
          Request, Undisturbed
<1>1. ASSUME NEW d \in Devices, RequestPair(p, d)
      PROVE  Safe'
  BY <1>1 DEF RequestPair
<1>2. ASSUME NEW d \in Devices, RequestSet(p, d)
      PROVE  Safe'
  BY <1>2 DEF RequestSet
<1>3. ASSUME NEW d \in Devices, RequestRemove(p, d)
      PROVE  Safe'
  <2>1. Undisturbed({"idle"})
    BY <1>3 DEF RequestRemove
  <2>2. /\ Kinds'
        /\ Exclusive'
        /\ Starting'
    BY <1>3 DEF RequestRemove
  <2>3. Places' /\ Marks'
    BY <1>3, <2>1 DEF RequestRemove
  <2>4. Locals'
    BY <1>3, <2>1 DEF RequestRemove
  <2> QED
    BY <2>2, <2>3, <2>4
<1>4. CASE RequestUnset(p)
  BY <1>4 DEF RequestUnset
<1>5. CASE RequestDisconnect(p)
  BY <1>5 DEF RequestDisconnect
<1> QED
  BY <1>1, <1>2, <1>3, <1>4, <1>5 DEF PanelRequest

\* The boot marks only the device the pointer was set to.
LEMMA BootSafe ==
    ASSUME Scope, IInv, Boot
    PROVE  Safe'
<1> USE AccountsAssumption, SMTT(20) DEF TypeOK, Thread, Roles, NoThread, Threads,
   BootThreads, Steps,
          SwapSteps, PairSteps, RemoveSteps, BootSteps, storedVars,
          serviceVars, historyVars, Pc, Dev, Cur, At, Go, Return, HasId,
          IdleThread, Kinds, StarterSteps, BooterSteps, Held, Exclusive,
          Booting, Places, Demoting, Marks, Leaving, NoRow, NoRole, Locals,
          Swapping, Pairing, Removing, Starting, Scope, IInv, Safe
<1>1. CASE SeedList
  BY <1>1 DEF SeedList
<1>2. CASE Seed
  BY <1>2 DEF Seed
<1>3. CASE Connect
  BY <1>3 DEF Connect
<1>4. CASE TagRead
  BY <1>4 DEF TagRead
<1>5. CASE TagRow
  BY <1>5 DEF TagRow
<1>6. CASE TagRole
  BY <1>6 DEF TagRole
<1>7. CASE ListRows
  BY <1>7 DEF ListRows
<1>8. CASE Look
  BY <1>8 DEF Look
<1>9. CASE StartPersonal
  BY <1>9 DEF StartPersonal
<1>10. CASE StartMap
  BY <1>10 DEF StartMap
<1>11. CASE Started
  BY <1>11 DEF Started
<1> QED
  BY <1>1, <1>2, <1>3, <1>4, <1>5, <1>6, <1>7, <1>8, <1>9, <1>10, <1>11 DEF Boot

\* A marked device is stored, so the boot picks it.
LEMMA RestartSafe ==
    ASSUME Scope, IInv, Restart
    PROVE  Safe'
BY AccountsAssumption, SMTT(20)
   DEF Restart, BootThread, PickShared, Undisturbed,
          TypeOK, Thread, Roles, NoThread, Threads, BootThreads, Steps,
          SwapSteps, PairSteps, RemoveSteps, BootSteps, storedVars,
          serviceVars, historyVars, Pc, Dev, Cur, At, Go, Return, HasId,
          IdleThread, Kinds, StarterSteps, BooterSteps, Held, Exclusive,
          Booting, Places, Demoting, Marks, Leaving, NoRow, NoRole, Locals,
          Swapping, Pairing, Removing, Starting, Scope, IInv, Safe

\* A fresh installation has no device and no mark.
LEMMA InitSafe ==
    ASSUME Init
    PROVE  IInv
<1>1. BootThread \in [Threads -> Thread]
  BY IdleTyped, AccountsAssumption DEF BootThread, Threads, BootThreads, Thread, Steps,
     BootSteps
<1>2. TypeOK
  BY <1>1 DEF Init, TypeOK, Roles
<1>3. /\ thread[Starter].pc = "seedList"
      /\ thread[Booter].pc = "list"
      /\ \A p \in Panels : thread[p].pc = "idle"
  BY AccountsAssumption DEF Init, BootThread, IdleThread, Threads, BootThreads
<1>4. /\ Kinds
      /\ Exclusive
  BY <1>3, AccountsAssumption DEF Init, Kinds, Exclusive, Booting, BootThreads, Held, Pc,
     At,
     StarterSteps, BooterSteps, BootSteps, SwapSteps, RemoveSteps, NoThread
<1>5. /\ Places
      /\ Marks
      /\ Starting
  BY <1>3 DEF Init, Places, Marks, Starting, NoRole, Pc, NoThread
<1>6. Locals
  BY <1>3 DEF Locals, Swapping, Pairing, Removing, Pc, PairSteps
<1> QED
  BY <1>2, <1>4, <1>5, <1>6 DEF IInv

\* Every step preserves the invariant.
LEMMA NextSafe ==
    ASSUME Scope, IInv, [Next]_vars
    PROVE  IInv'
<1>1. TypeOK'
  BY NextTyped DEF IInv
<1>2. CASE Next
  <2>1. Safe'
    BY <1>2, SwapSafe, UnsetSafe, PairingSafe, RemovalSafe, RequestSafe, BootSafe,
       RestartSafe
       DEF Next, Working
  <2> QED
    BY <1>1, <2>1 DEF IInv, Safe
<1>3. CASE UNCHANGED vars
  BY <1>1, <1>3 DEF vars,
          TypeOK, Thread, Roles, NoThread, Threads, BootThreads, Steps,
          SwapSteps, PairSteps, RemoveSteps, BootSteps, storedVars,
          serviceVars, historyVars, Pc, Dev, Cur, At, Go, Return, HasId,
          IdleThread, Kinds, StarterSteps, BooterSteps, Held, Exclusive,
          Booting, Places, Demoting, Marks, Leaving, NoRow, NoRole, Locals,
          Swapping, Pairing, Removing, Starting, Scope, IInv, Safe
<1> QED
  BY <1>2, <1>3

\* In the scope, the pointer's device is the only one marked, at every step.
THEOREM InvariantHolds == ASSUME Scope PROVE Spec => []IInv
<1>1. Init => IInv
  BY InitSafe
<1>2. IInv /\ [Next]_vars => IInv'
  BY NextSafe
<1> QED
  BY <1>1, <1>2, PTL DEF Spec

\* At most one device is marked shared, in memory and in the database, at any
\* moment of a promotion, a demotion, a pairing, a removal or a boot.
THEOREM AtMostOneShared == ASSUME Scope PROVE Spec => []OneShared
<1>1. IInv => OneShared
  BY AccountsAssumption DEF IInv, TypeOK, Marks, Leaving, Exclusive, Threads, Thread, Pc,
     Dev, RemoveSteps, OneShared
<1> QED
  BY <1>1, InvariantHolds, PTL

-----------------------------------------------------------------------------
(* The rows and the role map are books of RoleBook. *)

\* Any entry may be made in a book but a second shared one.
LEMMA RowEntered ==
    ASSUME NEW d \in Devices \cup {NoDevice}, NEW r \in Roles, rows \in [Devices -> Roles],
           rows' = [rows EXCEPT ![d] = r],
           r = "shared" => NoRow \/ rows[d] = "shared"
    PROVE  [Rows!Next]_rows
<1>1. CASE rows' = rows
  BY <1>1
<1>2. CASE rows' # rows
  <2>1. d \in Devices /\ rows[d] # r
    BY <1>2
  <2>2. CASE r = "none"
    BY <2>1, <2>2 DEF Rows!Next, Rows!Remove, Rows!Enter
  <2>3. CASE r = "personal"
    BY <2>1, <2>3 DEF Rows!Next, Rows!Register, Rows!Demote, Rows!Enter, Roles
  <2>4. CASE r = "shared"
    BY <2>1, <2>4 DEF Rows!Next, Rows!Promote, Rows!Adopt, Rows!Enter, Rows!Vacant, NoRow,
       Roles
  <2> QED
    BY <2>2, <2>3, <2>4 DEF Roles
<1> QED
  BY <1>1, <1>2

\* The same of the role map.
LEMMA RoleEntered ==
    ASSUME NEW d \in Devices \cup {NoDevice}, NEW r \in Roles, role \in [Devices -> Roles],
           role' = [role EXCEPT ![d] = r],
           r = "shared" => NoRole \/ role[d] = "shared"
    PROVE  [RolesInMemory!Next]_role
<1>1. CASE role' = role
  BY <1>1
<1>2. CASE role' # role
  <2>1. d \in Devices /\ role[d] # r
    BY <1>2
  <2>2. CASE r = "none"
    BY <2>1, <2>2 DEF RolesInMemory!Next, RolesInMemory!Remove, RolesInMemory!Enter
  <2>3. CASE r = "personal"
    BY <2>1, <2>3 DEF RolesInMemory!Next, RolesInMemory!Register, RolesInMemory!Demote,
       RolesInMemory!Enter, Roles
  <2>4. CASE r = "shared"
    BY <2>1, <2>4 DEF RolesInMemory!Next, RolesInMemory!Promote, RolesInMemory!Adopt,
       RolesInMemory!Enter, RolesInMemory!Vacant, NoRole, Roles
  <2> QED
    BY <2>2, <2>3, <2>4 DEF Roles
<1> QED
  BY <1>1, <1>2

\* One step enters one role in the rows, or none.
LEMMA RowStep ==
    ASSUME Scope, IInv, Next
    PROVE  \/ UNCHANGED rows
           \/ \E d \in Devices \cup {NoDevice}, r \in Roles :
                 /\ rows' = [rows EXCEPT ![d] = r]
                 /\ r = "shared" => NoRow \/ rows[d] = "shared"
<1>1. TypeOK
  BY DEF IInv
<1>2. ASSUME NEW p \in Panels, PanelRequest(p)
      PROVE  UNCHANGED rows
  BY <1>2 DEF PanelRequest, RequestPair, RequestSet, RequestRemove, RequestUnset,
     RequestDisconnect, storedVars
<1>3. ASSUME NEW p \in Panels, PromoteRow(p)
      PROVE  NoRow
  BY <1>3 DEF IInv, Locals, Swapping, PromoteRow, At, Pc
<1>4. ASSUME TagRow
      PROVE  NoRow \/ rows[thread[Starter].cur] = "shared"
  <2>1. thread[Starter].cur = client /\ client \in store
    BY <1>4 DEF IInv, Starting, TagRow, At, Pc, Cur
  <2>2. \A d \in Devices : rows[d] = "shared" => d = client
    BY <2>1, <1>1, AccountsAssumption DEF IInv, Marks, Leaving, TypeOK
  <2> QED
    BY <2>1, <2>2 DEF NoRow
<1>5. ASSUME NEW p \in Panels, Working(p)
      PROVE  \/ UNCHANGED rows
             \/ \E d \in Devices \cup {NoDevice}, r \in Roles :
                   /\ rows' = [rows EXCEPT ![d] = r]
                   /\ r = "shared" => NoRow \/ rows[d] = "shared"
  <2>1. /\ thread[p].dev \in Devices \cup {NoDevice}
        /\ thread[p].cur \in Devices \cup {NoDevice}
        /\ {"none", "personal", "shared"} \subseteq Roles
    BY <1>1, Fields DEF Threads, Roles
  <2>2. CASE DemoteRow(p) \/ UnsetRow(p)
    BY <2>1, <2>2 DEF DemoteRow, UnsetRow
  <2>3. CASE PromoteRow(p)
    BY <2>1, <2>3, <1>3 DEF PromoteRow
  <2>4. CASE PairRow(p) \/ DeleteRow(p)
    BY <2>1, <2>4 DEF PairRow, DeleteRow
  <2>5. CASE ~(DemoteRow(p) \/ UnsetRow(p) \/ PromoteRow(p) \/ PairRow(p) \/ DeleteRow(p))
    BY <1>5, <2>5 DEF Working, SetShared, UnsetShared, FinalizePairing, Remove,
       LockSwap, SetTarget, SetIncumbent, DemoteRow, DemoteMap, DemoteRole,
       LeaveMap, Point, PromoteRow, PromoteRole, LockUnset, UnsetRead,
       UnsetRow, UnsetMap, UnsetRole, UnsetPoint, PairRow, PairRole, PairMap,
       RemoveRead, Leave, DisconnectRead, Logout, Clear, Forget, DeleteRow, storedVars,
          serviceVars, historyVars, StopClient
  <2> QED
    BY <2>2, <2>3, <2>4, <2>5
<1>6. ASSUME Boot
      PROVE  \/ UNCHANGED rows
             \/ \E d \in Devices \cup {NoDevice}, r \in Roles :
                   /\ rows' = [rows EXCEPT ![d] = r]
                   /\ r = "shared" => NoRow \/ rows[d] = "shared"
  <2>1. CASE TagRow
    <3>1. thread[Starter].cur \in Devices \cup {NoDevice} /\ "shared" \in Roles
      BY <1>1, Fields DEF Threads, BootThreads, Roles
    <3> QED
      BY <2>1, <3>1, <1>4 DEF TagRow
  <2>2. CASE ~TagRow
    BY <1>6, <2>2 DEF Boot, SeedList, Seed, Connect, TagRead, TagRow, TagRole, ListRows,
       Look,
       StartPersonal, StartMap, Started, storedVars
  <2> QED
    BY <2>1, <2>2
<1>7. Restart => UNCHANGED rows
  BY DEF Restart, storedVars
<1> QED
  BY <1>2, <1>5, <1>6, <1>7 DEF Next

\* One step enters one role in memory, loads the rows, or loses everything.
LEMMA RoleStep ==
    ASSUME Scope, IInv, Next
    PROVE  \/ UNCHANGED role
           \/ RolesInMemory!Lose
           \/ RolesInMemory!Load
           \/ \E d \in Devices \cup {NoDevice}, r \in Roles :
                 /\ role' = [role EXCEPT ![d] = r]
                 /\ r = "shared" => NoRole \/ role[d] = "shared"
<1>1. TypeOK
  BY DEF IInv
<1>2. ASSUME NEW p \in Panels, PanelRequest(p)
      PROVE  UNCHANGED role
  BY <1>2 DEF PanelRequest, RequestPair, RequestSet, RequestRemove, RequestUnset,
     RequestDisconnect, serviceVars
<1>3. ASSUME NEW p \in Panels, PromoteRole(p)
      PROVE  NoRole
  BY <1>3 DEF IInv, Locals, Swapping, PromoteRole, At, Pc
<1>4. ASSUME TagRole
      PROVE  NoRole \/ role[thread[Starter].cur] = "shared"
  <2>1. thread[Starter].cur = client /\ client \in store
    BY <1>4 DEF IInv, Starting, TagRole, At, Pc, Cur
  <2>2. \A d \in Devices : role[d] = "shared" => d = client
    BY <2>1, <1>1, AccountsAssumption DEF IInv, Marks, Leaving, TypeOK
  <2> QED
    BY <2>1, <2>2 DEF NoRole
<1>5. Seed => RolesInMemory!Load
  <2> SUFFICES ASSUME Seed PROVE RolesInMemory!Load
    OBVIOUS
  <2> DEFINE seen == thread[Starter].seen
  <2>1. seen \in [Devices -> Roles]
    BY <1>1, Fields DEF Threads, BootThreads
  <2>2. NoRole /\ \A d \in Devices : seen[d] = "shared" => client = d
    BY DEF Seed, IInv, Starting, At, Pc
  <2>3. role' = [d \in Devices |-> IF seen[d] = "none" THEN role[d] ELSE seen[d]]
    BY DEF Seed
  <2> HIDE DEF seen
  <2> QED
    BY <2>1, <2>2, <2>3 DEF RolesInMemory!Load, RolesInMemory!Vacant,
       RolesInMemory!AtMostOneShared, NoRole, Roles
<1>6. ASSUME NEW p \in Panels, Working(p)
      PROVE  \/ UNCHANGED role
             \/ \E d \in Devices \cup {NoDevice}, r \in Roles :
                   /\ role' = [role EXCEPT ![d] = r]
                   /\ r = "shared" => NoRole \/ role[d] = "shared"
  <2>1. /\ thread[p].dev \in Devices \cup {NoDevice}
        /\ thread[p].cur \in Devices \cup {NoDevice}
        /\ {"none", "personal", "shared"} \subseteq Roles
    BY <1>1, Fields DEF Threads, Roles
  <2>2. CASE DemoteRole(p) \/ UnsetRole(p)
    BY <2>1, <2>2 DEF DemoteRole, UnsetRole
  <2>3. CASE PromoteRole(p)
    BY <2>1, <2>3, <1>3 DEF PromoteRole
  <2>4. CASE PairRole(p) \/ Forget(p)
    BY <2>1, <2>4 DEF PairRole, Forget
  <2>5. CASE ~(DemoteRole(p) \/ UnsetRole(p) \/ PromoteRole(p) \/ PairRole(p) \/ Forget(p))
    BY <1>6, <2>5 DEF Working, SetShared, UnsetShared, FinalizePairing, Remove,
       LockSwap, SetTarget, SetIncumbent, DemoteRow, DemoteMap, DemoteRole,
       LeaveMap, Point, PromoteRow, PromoteRole, LockUnset, UnsetRead,
       UnsetRow, UnsetMap, UnsetRole, UnsetPoint, PairRow, PairRole, PairMap,
       RemoveRead, Leave, DisconnectRead, Logout, Clear, Forget, DeleteRow, storedVars,
          serviceVars, historyVars, StopClient
  <2> QED
    BY <2>2, <2>3, <2>4, <2>5
<1>7. ASSUME Boot
      PROVE  \/ UNCHANGED role
             \/ RolesInMemory!Load
             \/ \E d \in Devices \cup {NoDevice}, r \in Roles :
                   /\ role' = [role EXCEPT ![d] = r]
                   /\ r = "shared" => NoRole \/ role[d] = "shared"
  <2>1. CASE TagRole
    <3>1. thread[Starter].cur \in Devices \cup {NoDevice} /\ "shared" \in Roles
      BY <1>1, Fields DEF Threads, BootThreads, Roles
    <3> QED
      BY <2>1, <3>1, <1>4 DEF TagRole
  <2>2. CASE Seed
    BY <2>2, <1>5
  <2>3. CASE StartPersonal
    <3>1. PICK d \in thread[Booter].todo : role' = [role EXCEPT ![d] = "personal"]
      BY <2>3 DEF StartPersonal
    <3>2. d \in Devices /\ "personal" \in Roles
      BY <1>1, Fields DEF Threads, BootThreads, Roles
    <3> QED
      BY <3>1, <3>2
  <2>4. CASE ~(TagRole \/ Seed \/ StartPersonal)
    BY <1>7, <2>4 DEF Boot, SeedList, Seed, Connect, TagRead, TagRow, TagRole, ListRows,
       Look,
       StartPersonal, StartMap, Started, serviceVars
  <2> QED
    BY <2>1, <2>2, <2>3, <2>4
<1>8. Restart => RolesInMemory!Lose
  BY DEF Restart, RolesInMemory!Lose
<1> QED
  BY <1>2, <1>6, <1>7, <1>8 DEF Next

\* The rows and the role map each implement RoleBook: nobody is promoted there
\* before the incumbent was demoted, and a demoted device stays a personal one.
THEOREM RolesAreBooks == ASSUME Scope PROVE Spec => BooksKept
<1>1. Init => Rows!Init /\ RolesInMemory!Init
  BY DEF Init, Rows!Init, RolesInMemory!Init
<1>2. IInv /\ [Next]_vars => [Rows!Next]_rows
  <2> SUFFICES ASSUME IInv, [Next]_vars PROVE [Rows!Next]_rows
    OBVIOUS
  <2>1. rows \in [Devices -> Roles]
    BY DEF IInv, TypeOK
  <2>2. CASE Next
    BY <2>1, <2>2, RowStep, RowEntered
  <2>3. CASE UNCHANGED vars
    BY <2>3 DEF vars, storedVars
  <2> QED
    BY <2>2, <2>3
<1>3. IInv /\ [Next]_vars => [RolesInMemory!Next]_role
  <2> SUFFICES ASSUME IInv, [Next]_vars PROVE [RolesInMemory!Next]_role
    OBVIOUS
  <2>1. role \in [Devices -> Roles]
    BY DEF IInv, TypeOK
  <2>2. CASE Next
    BY <2>1, <2>2, RoleStep, RoleEntered DEF RolesInMemory!Next
  <2>3. CASE UNCHANGED vars
    BY <2>3 DEF vars, serviceVars
  <2> QED
    BY <2>2, <2>3
<1> QED
  BY <1>1, <1>2, <1>3, InvariantHolds, PTL DEF Spec, BooksKept, Rows!Spec,
     RolesInMemory!Spec


-----------------------------------------------------------------------------
(* The four places agree.  Devices removed while they were offline are left *)
(* out (leftovers): the store keeps them, and nothing else knows of them.   *)

Handled(d, steps) == \E p \in Panels : Pc(p) \in steps /\ Dev(p) = d
Demoted(d, steps) == \E p \in Panels : Pc(p) \in steps /\ Cur(p) = d
Somebody(steps) == \E p \in Panels : Pc(p) \in steps

\* Devices the boot has not started, or not registered, yet.
Awaited(d) == \/ Pc(Booter) \in {"list", "look"} /\ d \in store /\ rows[d] = "personal"
              \/ Pc(Booter) \in {"start", "startMap"} /\ d \in thread[Booter].todo
Registering(d) == Pc(Booter) = "startMap" /\ Dev(Booter) = d

\* A stored device serves somebody, unless a thread is about to see to it.
Serves(d) == d \in store => \/ d \in personal \cup {client}
                            \/ Handled(d, PairSteps \cup {"point", "logoutPersonal"})
                            \/ Awaited(d) \/ Registering(d)

\* What was logged out is gone.
Gone(d) == Handled(d, {"clear", "forget", "deleteRow"}) => d \notin store

\* The row says where the device is.
RowKnows(d) ==
    /\ d \in store /\ rows[d] = "none" => Handled(d, {"pairRow"})
    /\ d \notin everPaired => rows[d] = "none"
    /\ d \in personal => rows[d] = "personal"
    /\ rows[d] = "personal" =>
          \/ d \in personal \/ Awaited(d) \/ Registering(d)
          \/ Handled(d, {"pairRole", "pairMap", "point", "promoteRow", "logoutPersonal",
                         "forget", "deleteRow"})
          \/ Demoted(d, {"demoteMap", "unsetMap"})
    /\ client = d => \/ rows[d] = "shared"
                     \/ Somebody({"demoteMap", "demoteRole", "leaveMap", "point",
                                  "promoteRow", "unsetMap", "unsetRole", "unsetPoint"})

\* The role map is the rows, but between the two writes and before the boot
\* has read the rows.
Unseeded == Pc(Starter) \in {"seedList", "seed"}
RoleKnows(d) ==
    /\ ~Unseeded => \/ role[d] = rows[d]
                    \/ Handled(d, {"pairRole", "promoteRole", "deleteRow"})
                    \/ Demoted(d, {"demoteMap", "demoteRole", "unsetMap", "unsetRole"})
    /\ Handled(d, {"deleteRow"}) => role[d] = "none"
    /\ Unseeded => /\ role[d] \in {"none", rows[d]}
                   /\ d \in personal \/ Registering(d) => role[d] = "personal"
    /\ Registering(d) => rows[d] = "personal"
    /\ Pc(Booter) \in {"start", "startMap"} /\ d \in thread[Booter].todo => rows[d] = "personal"
    /\ Pc(Starter) = "seed" => thread[Starter].seen[d] = rows[d]
    /\ Pc(Booter) = "look" => (thread[Booter].seen[d] = "personal" <=> rows[d] = "personal")

\* Whoever is shared was asked for, until a request undoes it.
Asked(d) ==
    /\ rows[d] = "shared" => d \in wanted \/ Handled(d, RemoveSteps)
    /\ client = d => \/ d \in wanted
                     \/ Handled(d, RemoveSteps)
                     \/ Somebody({"leaveMap", "point", "unsetPoint"})

\* One client object serves a stored device once it has been started.
Unstarted(d) == \/ Handled(d, {"pairRow", "pairRole"})
                \/ client = d /\ Pc(Starter) \in {"seedList", "seed", "connect"}
                \/ Awaited(d)
Running(d) == running[d] = IF d \in store /\ ~Unstarted(d) THEN 1 ELSE 0

Agrees(d) == Serves(d) /\ Gone(d) /\ RowKnows(d) /\ RoleKnows(d) /\ Asked(d) /\ Running(d)

Agreement == /\ leftovers \subseteq everPaired
             /\ \A d \in Devices \ leftovers : Agrees(d)

-----------------------------------------------------------------------------
(* How a step of one panel goroutine is seen by the predicates on threads. *)

Others(t) == \A u \in Threads : u # t => thread'[u] = thread[u]

HandledElse(p, d, steps) == \E q \in Panels \ {p} : Pc(q) \in steps /\ Dev(q) = d
DemotedElse(p, d, steps) == \E q \in Panels \ {p} : Pc(q) \in steps /\ Cur(q) = d
SomebodyElse(p, steps) == \E q \in Panels \ {p} : Pc(q) \in steps

\* Each is about this goroutine or about another one, before the step ...
LEMMA Before ==
    ASSUME NEW p \in Panels, NEW d
    PROVE  \A S : /\ Handled(d, S) <=> (Pc(p) \in S /\ Dev(p) = d) \/ HandledElse(p, d, S)
                  /\ Demoted(d, S) <=> (Pc(p) \in S /\ Cur(p) = d) \/ DemotedElse(p, d, S)
                  /\ Somebody(S) <=> (Pc(p) \in S) \/ SomebodyElse(p, S)
BY DEF Handled, Demoted, Somebody, HandledElse, DemotedElse, SomebodyElse

\* ... and after it, when the others are where they were.
LEMMA After ==
    ASSUME NEW p \in Panels, Others(p), NEW d
    PROVE  \A S : /\ Handled(d, S)' <=> (Pc(p)' \in S /\ Dev(p)' = d) \/ HandledElse(p, d, S)
                  /\ Demoted(d, S)' <=> (Pc(p)' \in S /\ Cur(p)' = d) \/ DemotedElse(p, d, S)
                  /\ Somebody(S)' <=> (Pc(p)' \in S) \/ SomebodyElse(p, S)
BY DEF Handled, Demoted, Somebody, HandledElse, DemotedElse, SomebodyElse, Others,
   Threads, Pc, Dev, Cur

\* The boot goroutines are among the others.
LEMMA BootSame ==
    ASSUME NEW p \in Panels, Others(p)
    PROVE  /\ thread'[Starter] = thread[Starter] /\ thread'[Booter] = thread[Booter]
           /\ Pc(Starter)' = Pc(Starter)
           /\ Pc(Booter)' = Pc(Booter)
           /\ Unseeded' = Unseeded
           /\ \A d : Registering(d)' = Registering(d)
BY AccountsAssumption DEF Others, Threads, BootThreads, Unseeded, Registering, Pc, Dev

\* Panels work when the boot is over.
LEMMA Booted ==
    ASSUME IInv, NEW p \in Panels, Pc(p) # "idle" \/ ~Booting, Others(p)
    PROVE  /\ ~Unseeded /\ ~Unseeded'
           /\ \A d : ~Awaited(d) /\ ~Awaited(d)' /\ ~Registering(d) /\ ~Registering(d)'
           /\ Pc(Starter) = "idle" /\ Pc(Booter) = "idle"
           /\ Pc(Starter)' = "idle" /\ Pc(Booter)' = "idle"
<1>1. Pc(Starter) = "idle" /\ Pc(Booter) = "idle"
   BY DEF IInv, Exclusive, Booting, BootThreads, At, Pc
<1>2. Pc(Starter)' = "idle" /\ Pc(Booter)' = "idle"
  BY <1>1, BootSame
<1> QED
  BY <1>1, <1>2 DEF Unseeded, Awaited, Registering

\* What Go and Return leave at hand.
LEMMA GoMoves ==
    ASSUME TypeOK, NEW t \in Threads, NEW step, Go(t, step)
    PROVE  Others(t) /\ Pc(t)' = step /\ Dev(t)' = Dev(t) /\ Cur(t)' = Cur(t)
BY DEF Go, TypeOK, Thread, Others, Pc, Dev, Cur

\* A return leaves nothing at hand, and the other threads alone.
LEMMA ReturnMoves ==
    ASSUME TypeOK, NEW t \in Threads, Return(t)
    PROVE  Others(t) /\ Pc(t)' = "idle" /\ Dev(t)' = NoDevice /\ Cur(t)' = NoDevice
BY DEF Return, TypeOK, Thread, Others, Pc, Dev, Cur, IdleThread

\* A demoted account is a personal device before the pointer leaves it.
LEMMA StillServes ==
    ASSUME IInv, Agreement, NEW p \in Panels, Pc(p) \in {"point", "unsetPoint"},
           client \in Devices \ leftovers, Pc(p) = "point" => client # Dev(p)
    PROVE  client \in personal
<1>1. Agrees(client) /\ NoRow
  BY DEF Agreement, IInv, Locals, Swapping
<1>2. \A q \in Panels : /\ Pc(q) \notin RemoveSteps
                        /\ Pc(q) \in Held => q = p
  BY DEF IInv, Exclusive, Held, SwapSteps, RemoveSteps, Threads
<1>3. client \in store
  BY <1>2, AccountsAssumption DEF IInv, Places, RemoveSteps
<1>4. \A q \in Panels : Pc(q) \in PairSteps => Dev(q) # client
  BY DEF IInv, Locals, Pairing
<1>5. rows[client] = "personal"
  BY <1>1, <1>3, <1>4 DEF Agrees, RowKnows, Handled, NoRow, IInv, TypeOK, Roles, PairSteps
<1>6. ~Awaited(client) /\ ~Registering(client)
  BY DEF IInv, Exclusive, Booting, BootThreads, At, Pc, Awaited, Registering
<1> QED
  BY <1>1, <1>2, <1>4, <1>5, <1>6 DEF Agrees, RowKnows, Handled, Demoted, Held, SwapSteps,
     PairSteps, RemoveSteps

\* A removal meets nobody.
LEMMA Lone ==
    ASSUME IInv, NEW p \in Panels, Pc(p) \in RemoveSteps, NEW d
    PROVE  /\ \A S : "idle" \notin S => /\ ~HandledElse(p, d, S)
                                        /\ ~DemotedElse(p, d, S)
                                        /\ ~SomebodyElse(p, S)
           /\ client \in store \cup {NoDevice} \/ Pc(p) = "clear"
           /\ \A q \in Panels : q # p => Pc(q) = "idle"
<1>1. \A q \in Panels : q # p => Pc(q) = "idle"
  BY DEF IInv, Exclusive, Threads
<1>2. client \in store \cup {NoDevice} \/ Pc(p) = "clear"
  BY <1>1 DEF IInv, Places
<1> QED
  BY <1>1, <1>2 DEF HandledElse, DemotedElse, SomebodyElse

-----------------------------------------------------------------------------
\* SetSharedDevice moves one device from place to place, and then the other.
LEMMA SwapAgrees ==
    ASSUME Scope, IInv, Agreement, NEW p \in Panels, SetShared(p),
           NEW e \in Devices \ leftovers'
    PROVE  Agrees(e)'
<1>0. TypeOK /\ p \in Threads
  BY DEF IInv, Threads
<1> DEFINE Kept == UNCHANGED <<store, rows, client, personal, role, running, everPaired,
                             wanted, leftovers>>
<1>1. CASE SetTarget(p)
  <2>1. /\ Pc(p) = "target" /\ Pc(p)' \in {"incumbent", "idle"} /\ Others(p)
        /\ Kept
    BY <1>1, <1>0, GoMoves, ReturnMoves, Zenon DEF SetTarget, At, Pc, storedVars,
       serviceVars, historyVars
  <2>2. Agrees(e)
    BY <2>1 DEF Agreement
  <2> QED
    BY <2>1, <2>2, Before, After, Booted DEF Agrees, Serves, Gone, RowKnows, RoleKnows,
       Asked, Running, Unstarted, PairSteps, RemoveSteps
<1>2. CASE SetIncumbent(p)
  <2>1. /\ Pc(p) = "incumbent" /\ Pc(p)' \in {"demoteRow", "leaveMap"} /\ Others(p)
        /\ Kept
    <3>1. CASE Go(p, "leaveMap")
      BY <1>2, <1>0, <3>1, GoMoves, Zenon DEF SetIncumbent, At, Pc, storedVars,
         serviceVars, historyVars
    <3>2. CASE thread' = [thread EXCEPT ![p].pc = "demoteRow", ![p].cur = client]
      BY <1>2, <1>0, <3>2 DEF SetIncumbent, At, Pc, storedVars, serviceVars, historyVars,
         TypeOK, Others, Thread
    <3> QED
      BY <1>2, <3>1, <3>2 DEF SetIncumbent
  <2>2. Agrees(e)
    BY <2>1 DEF Agreement
  <2> QED
    BY <2>1, <2>2, Before, After, Booted DEF Agrees, Serves, Gone, RowKnows, RoleKnows,
       Asked, Running, Unstarted, PairSteps, RemoveSteps
<1>3. CASE Point(p)
  <2>1. /\ Pc(p) = "point" /\ Pc(p)' = "promoteRow" /\ Others(p)
        /\ Dev(p)' = Dev(p) /\ Cur(p)' = Cur(p)
        /\ client' = Dev(p) /\ wanted' = wanted \cup {Dev(p)}
        /\ UNCHANGED <<store, rows, personal, role, running, everPaired, leftovers>>
    BY <1>3, <1>0, GoMoves, Zenon DEF Point, At, Pc, Dev, storedVars
  <2>2. Agrees(e)
    BY <2>1 DEF Agreement
  <2>3. client # e \/ e \in personal \/ e = Dev(p)
    BY <2>1, StillServes
  <2> QED
    BY <2>1, <2>2, <2>3, Before, After, Booted DEF Agrees, Serves, Gone, RowKnows,
       RoleKnows, Asked, Running, Unstarted, PairSteps, RemoveSteps
<1>4. CASE PromoteRow(p)
  <2>1. /\ Pc(p) = "promoteRow" /\ Pc(p)' = "promoteRole" /\ Others(p)
        /\ Dev(p)' = Dev(p) /\ Cur(p)' = Cur(p)
        /\ rows' = [rows EXCEPT ![Dev(p)] = "shared"]
        /\ UNCHANGED <<store, client, personal, role, running, everPaired, wanted, leftovers>>
    BY <1>4, <1>0, GoMoves, Zenon DEF PromoteRow, At, Pc, Dev, serviceVars, historyVars
  <2>2. Agrees(e) /\ rows \in [Devices -> Roles]
    BY <2>1, <1>0 DEF Agreement, TypeOK
  <2>3. \A q \in Panels : /\ Pc(q) \notin RemoveSteps
                          /\ Pc(q) \in Held => q = p
    BY <2>1 DEF IInv, Exclusive, Held, SwapSteps, RemoveSteps, Threads
  <2>4. client = Dev(p) /\ client \notin personal /\ (client = e => e \in everPaired)
    BY <2>1, <2>3, AccountsAssumption DEF IInv, Locals, Swapping, Places, Held, SwapSteps,
       Demoting, RemoveSteps
  <2>5. ~SomebodyElse(p, {"leaveMap", "point", "unsetPoint"})
    BY <2>3 DEF SomebodyElse, Held, SwapSteps
  <2> USE <2>1, <2>2, <2>3, <2>4, <2>5, Before, After, Booted DEF PairSteps, RemoveSteps
  <2>6. Serves(e)' /\ Gone(e)' /\ Asked(e)'
    <3>1. Serves(e)' /\ Gone(e)'
      BY DEF Agrees, Serves, Gone
    <3>2. Asked(e)'
      BY DEF Agrees, Asked
    <3> QED
      BY <3>1, <3>2
  <2>7. RowKnows(e)'
    <3>1. CASE e = Dev(p)
      BY <3>1 DEF Agrees, RowKnows
    <3>2. CASE e # Dev(p)
      BY <3>2 DEF Agrees, RowKnows
    <3> QED
      BY <3>1, <3>2
  <2>8. RoleKnows(e)'
    BY DEF Agrees, RoleKnows
  <2>9. Running(e)'
    BY DEF Agrees, Running, Unstarted
  <2> QED
    BY <2>6, <2>7, <2>8, <2>9 DEF Agrees
<1>5. CASE LockSwap(p) \/ DemoteRow(p) \/ DemoteMap(p) \/ DemoteRole(p) \/ LeaveMap(p) \/
   PromoteRole(p)
  <2> USE AccountsAssumption, SMTT(20) DEF TypeOK, Thread, Roles, NoThread, Threads,
     BootThreads, SwapSteps,
          PairSteps, RemoveSteps, BootSteps, storedVars, serviceVars,
          historyVars, Pc, Dev, Cur, At, Go, Return, HasId, IdleThread, Kinds,
          StarterSteps, BooterSteps, Held, Exclusive, Booting, Places,
          Demoting, Marks, Leaving, NoRow, NoRole, Locals, Swapping, Pairing,
          Removing, Starting, Agreement, Agrees, Handled, Demoted, Somebody,
          Awaited, Registering, Serves, Gone, RowKnows, RoleKnows, Unseeded,
          Asked, Unstarted, Running, Scope, IInv
  <2>1. CASE LockSwap(p)
    BY <2>1 DEF LockSwap
  <2>2. CASE DemoteRow(p)
    BY <2>2 DEF DemoteRow
  <2>3. CASE DemoteMap(p)
    BY <2>3 DEF DemoteMap
  <2>4. CASE DemoteRole(p)
    BY <2>4 DEF DemoteRole
  <2>5. CASE LeaveMap(p)
    BY <2>5 DEF LeaveMap
  <2>6. CASE PromoteRole(p)
    BY <2>6 DEF PromoteRole
  <2> QED
    BY <1>5, <2>1, <2>2, <2>3, <2>4, <2>5, <2>6, Zenon
<1> QED
  BY <1>1, <1>2, <1>3, <1>4, <1>5, Zenon DEF SetShared

\* UnsetSharedDevice moves the shared account to the personal devices.
LEMMA UnsetAgrees ==
    ASSUME Scope, IInv, Agreement, NEW p \in Panels, UnsetShared(p),
           NEW e \in Devices \ leftovers'
    PROVE  Agrees(e)'
<1>0. TypeOK /\ p \in Threads
  BY DEF IInv, Threads
<1> DEFINE Kept == UNCHANGED <<store, rows, client, personal, role, running, everPaired,
                             wanted, leftovers>>
<1>1. CASE UnsetRead(p)
  <2>1. /\ Pc(p) = "unsetRead" /\ Pc(p)' \in {"unsetRow", "idle"} /\ Others(p)
        /\ Kept
    <3>1. CASE Return(p)
      BY <1>1, <1>0, <3>1, ReturnMoves, Zenon DEF UnsetRead, At, Pc, storedVars,
         serviceVars, historyVars
    <3>2. CASE thread' = [thread EXCEPT ![p].pc = "unsetRow", ![p].cur = client]
      BY <1>1, <1>0, <3>2 DEF UnsetRead, At, Pc, storedVars, serviceVars, historyVars,
         TypeOK, Others, Thread
    <3> QED
      BY <1>1, <3>1, <3>2 DEF UnsetRead
  <2>2. Agrees(e)
    BY <2>1 DEF Agreement
  <2> QED
    BY <2>1, <2>2, Before, After, Booted DEF Agrees, Serves, Gone, RowKnows, RoleKnows,
       Asked, Running, Unstarted, PairSteps, RemoveSteps
<1>2. CASE UnsetPoint(p)
  <2>1. /\ Pc(p) = "unsetPoint" /\ Pc(p)' = "idle" /\ Others(p)
        /\ client' = NoDevice
        /\ UNCHANGED <<store, rows, personal, role, running, everPaired, wanted, leftovers>>
    BY <1>2, <1>0, ReturnMoves, Zenon DEF UnsetPoint, At, Pc, Dev, storedVars, historyVars
  <2>2. Agrees(e)
    BY <2>1 DEF Agreement
  <2>3. client # e \/ e \in personal
    BY <2>1, StillServes
  <2> QED
    BY <2>1, <2>2, <2>3, Before, After, Booted, AccountsAssumption DEF Agrees, Serves,
       Gone, RowKnows, RoleKnows, Asked, Running, Unstarted, PairSteps, RemoveSteps
<1>3. CASE LockUnset(p) \/ UnsetRow(p) \/ UnsetMap(p) \/ UnsetRole(p)
  <2> USE AccountsAssumption, SMTT(20) DEF TypeOK, Thread, Roles, NoThread, Threads,
     BootThreads, SwapSteps,
          PairSteps, RemoveSteps, BootSteps, storedVars, serviceVars,
          historyVars, Pc, Dev, Cur, At, Go, Return, HasId, IdleThread, Kinds,
          StarterSteps, BooterSteps, Held, Exclusive, Booting, Places,
          Demoting, Marks, Leaving, NoRow, NoRole, Locals, Swapping, Pairing,
          Removing, Starting, Agreement, Agrees, Handled, Demoted, Somebody,
          Awaited, Registering, Serves, Gone, RowKnows, RoleKnows, Unseeded,
          Asked, Unstarted, Running, Scope, IInv
  <2>1. CASE LockUnset(p)
    BY <2>1 DEF LockUnset
  <2>2. CASE UnsetRow(p)
    BY <2>2 DEF UnsetRow
  <2>3. CASE UnsetMap(p)
    BY <2>3 DEF UnsetMap
  <2>4. CASE UnsetRole(p)
    BY <2>4 DEF UnsetRole
  <2> QED
    BY <1>3, <2>1, <2>2, <2>3, <2>4, Zenon
<1> QED
  BY <1>1, <1>2, <1>3, Zenon DEF UnsetShared

\* A pairing adds its device to one place after the other.
LEMMA PairingAgrees ==
    ASSUME Scope, IInv, Agreement, NEW p \in Panels, FinalizePairing(p),
           NEW e \in Devices \ leftovers'
    PROVE  Agrees(e)'
<1>0. TypeOK /\ p \in Threads
  BY DEF IInv, Threads
<1>1. CASE PairMap(p)
  <2>1. /\ Pc(p) = "pairMap"
        /\ personal' = personal \cup {Dev(p)}
        /\ UNCHANGED <<store, rows, client, role, running, everPaired, wanted, leftovers>>
    BY <1>1 DEF PairMap, At, Pc, Dev, storedVars, historyVars
  <2>2. Pc(p)' \in {"lock", "idle"} /\ Others(p)
    BY <1>1, <1>0, GoMoves, ReturnMoves, Zenon DEF PairMap
  <2>3. Agrees(e)
    BY <2>1 DEF Agreement
  <2>4. e = Dev(p) => rows[e] = "personal"
    <3>1. e = Dev(p) => e \in store /\ e # client /\ ~HandledElse(p, e, {"pairRow"})
      BY <2>1 DEF IInv, Locals, Pairing, HandledElse, PairSteps
    <3>2. e = Dev(p) => rows[e] # "none"
      BY <2>1, <2>3, <3>1, Before DEF Agrees, RowKnows
    <3>3. e = Dev(p) => rows[e] # "shared"
      BY <2>1, <3>1 DEF IInv, Marks, Leaving, Exclusive, Threads, Pc, RemoveSteps
    <3> QED
      BY <3>2, <3>3 DEF IInv, TypeOK, Roles
  <2> USE <2>1, <2>2, <2>3, <2>4, Before, After, Booted DEF PairSteps, RemoveSteps
  <2>5. Serves(e)' /\ Gone(e)' /\ Asked(e)'
    BY DEF Agrees, Serves, Gone, Asked
  <2>6. RowKnows(e)' /\ RoleKnows(e)'
    BY DEF Agrees, RowKnows, RoleKnows
  <2>7. Running(e)'
    BY DEF Agrees, Running, Unstarted
  <2> QED
    BY <2>5, <2>6, <2>7 DEF Agrees
<1>2. CASE PairRow(p) \/ PairRole(p)
  <2> USE AccountsAssumption, SMTT(20) DEF TypeOK, Thread, Roles, NoThread, Threads,
     BootThreads, SwapSteps,
          PairSteps, RemoveSteps, BootSteps, storedVars, serviceVars,
          historyVars, Pc, Dev, Cur, At, Go, Return, HasId, IdleThread, Kinds,
          StarterSteps, BooterSteps, Held, Exclusive, Booting, Places,
          Demoting, Marks, Leaving, NoRow, NoRole, Locals, Swapping, Pairing,
          Removing, Starting, Agreement, Agrees, Handled, Demoted, Somebody,
          Awaited, Registering, Serves, Gone, RowKnows, RoleKnows, Unseeded,
          Asked, Unstarted, Running, Scope, IInv
  <2>1. CASE PairRow(p)
    BY <2>1 DEF PairRow
  <2>2. CASE PairRole(p)
    BY <2>2 DEF PairRole
  <2> QED
    BY <1>2, <2>1, <2>2, Zenon
<1> QED
  BY <1>1, <1>2, Zenon DEF FinalizePairing

\* A removal takes its device out of one place after the other.
LEMMA RemovalAgrees ==
    ASSUME Scope, IInv, Agreement, NEW p \in Panels, Remove(p),
           NEW e \in Devices \ leftovers'
    PROVE  Agrees(e)'
<1>0. TypeOK /\ p \in Threads
  BY DEF IInv, Threads
<1> DEFINE Same == UNCHANGED <<store, rows, role, running, everPaired, leftovers>>
<1>1. CASE RemoveRead(p)
  <2>1. /\ Pc(p) = "removeRead" /\ Pc(p)' \in {"logoutShared", "leave"} /\ Others(p)
        /\ Dev(p)' = Dev(p)
        /\ UNCHANGED <<client, personal, wanted>> /\ Same
    <3>1. CASE Go(p, "leave")
      BY <1>1, <1>0, <3>1, GoMoves, Zenon DEF RemoveRead, At, Pc, storedVars, serviceVars,
         historyVars
    <3>2. CASE thread' = [thread EXCEPT ![p].pc = "logoutShared", ![p].cur = client]
      BY <1>1, <1>0, <3>2 DEF RemoveRead, At, Pc, Dev, storedVars, serviceVars,
         historyVars, TypeOK, Others, Thread
    <3> QED
      BY <1>1, <3>1, <3>2 DEF RemoveRead
  <2>2. Agrees(e)
    BY <2>1 DEF Agreement
  <2> QED
    BY <2>1, <2>2, Lone, Before, After, Booted DEF Agrees, Serves, Gone, RowKnows,
       RoleKnows, Asked, Running, Unstarted, PairSteps, RemoveSteps
<1>2. CASE Leave(p)
  <2>1. /\ Pc(p) = "leave" /\ Others(p)
        /\ Pc(p)' = IF Dev(p) \in personal THEN "logoutPersonal" ELSE "forget"
        /\ Dev(p)' = Dev(p)
        /\ personal' = personal \ {Dev(p)}
        /\ UNCHANGED <<client, wanted>> /\ Same
    <3>1. CASE Dev(p) \in personal
      BY <1>2, <1>0, <3>1 DEF Leave, At, Pc, Dev, storedVars, historyVars, TypeOK, Others,
         Thread
    <3>2. CASE Dev(p) \notin personal
      BY <1>2, <1>0, <3>2, GoMoves, Zenon DEF Leave, At, Pc, Dev, storedVars, historyVars
    <3> QED
      BY <3>1, <3>2
  <2>2. Agrees(e) /\ Dev(p) # client
    BY <2>1 DEF Agreement, IInv, Locals, Removing
  <2>3. Serves(e)' /\ Gone(e)' /\ Asked(e)'
    BY <2>1, <2>2, Lone, Before, After, Booted DEF Agrees, Serves, Gone, Asked, PairSteps,
       RemoveSteps
  <2>4. RowKnows(e)' /\ RoleKnows(e)'
    BY <2>1, <2>2, Lone, Before, After, Booted DEF Agrees, RowKnows, RoleKnows, PairSteps,
       RemoveSteps
  <2>5. Running(e)'
    BY <2>1, <2>2, Lone, Before, After, Booted DEF Agrees, Running, Unstarted, PairSteps,
       RemoveSteps
  <2> QED
    BY <2>3, <2>4, <2>5 DEF Agrees
<1>3. CASE DisconnectRead(p)
  <2>1. /\ Pc(p) = "disconnectRead" /\ Others(p)
        /\ wanted' = wanted \ {client}
        /\ UNCHANGED <<client, personal>> /\ Same
    <3>1. CASE client = NoDevice
      BY <1>3, <1>0, <3>1, ReturnMoves, Zenon DEF DisconnectRead, At, Pc, Dev, storedVars,
         serviceVars
    <3>2. CASE client # NoDevice
      BY <1>3, <1>0, <3>2 DEF DisconnectRead, At, Pc, Dev, storedVars, serviceVars,
         TypeOK, Others, Thread
    <3> QED
      BY <3>1, <3>2
  <2>2. client \in store \cup {NoDevice}
    BY <2>1, Lone DEF RemoveSteps
  <2>3. Pc(p)' = IF client = NoDevice THEN "idle" ELSE "logoutShared"
    <3>1. CASE client = NoDevice
      BY <1>3, <1>0, <3>1, ReturnMoves, Zenon DEF DisconnectRead
    <3>2. CASE client # NoDevice
      BY <1>3, <1>0, <3>2 DEF DisconnectRead, Pc, TypeOK, Thread
    <3> QED
      BY <3>1, <3>2
  <2>4. client # NoDevice => Dev(p)' = client
    BY <1>3, <1>0, <2>2 DEF DisconnectRead, Dev, TypeOK, Thread, HasId
  <2>5. Agrees(e) /\ (rows[e] = "shared" => client = e)
    <3>1. Agrees(e)
      BY <2>1 DEF Agreement
    <3> QED
      BY <2>1, <3>1, Lone DEF IInv, Marks, Leaving, RemoveSteps
  <2>6. Serves(e)' /\ Gone(e)' /\ Asked(e)'
    BY <2>1, <2>2, <2>3, <2>4, <2>5, Lone, Before, After, Booted, AccountsAssumption
       DEF Agrees, Serves, Gone, Asked, PairSteps, RemoveSteps
  <2>7. RowKnows(e)' /\ RoleKnows(e)'
    BY <2>1, <2>2, <2>3, <2>4, <2>5, Lone, Before, After, Booted, AccountsAssumption
       DEF Agrees, RowKnows, RoleKnows, PairSteps, RemoveSteps
  <2>8. Running(e)'
    BY <2>1, <2>2, <2>3, <2>4, <2>5, Lone, Before, After, Booted, AccountsAssumption
       DEF Agrees, Running, Unstarted, PairSteps, RemoveSteps
  <2> QED
    BY <2>6, <2>7, <2>8 DEF Agrees
<1>4. CASE Logout(p)
  <2>1. /\ Pc(p) \in {"logoutShared", "logoutPersonal"} /\ Others(p)
        /\ Pc(p)' = IF Pc(p) = "logoutShared" THEN "clear" ELSE "forget"
        /\ Dev(p)' = Dev(p)
        /\ UNCHANGED <<client, personal, rows, role, everPaired, wanted>>
    <3>1. CASE At(p, "logoutShared") /\ Go(p, "clear")
      BY <1>4, <1>0, <3>1, GoMoves, Zenon DEF Logout, At, Pc
    <3>2. CASE At(p, "logoutPersonal") /\ Go(p, "forget")
      <4>1. Pc(p) = "logoutPersonal" /\ "logoutPersonal" # "logoutShared"
         BY <3>2 DEF At, Pc
      <4> QED
        BY <1>4, <1>0, <3>2, <4>1, GoMoves, Zenon DEF Logout
    <3> QED
      BY <1>4, <3>1, <3>2 DEF Logout
  <2>2. /\ running' = [running EXCEPT ![Cur(p)] = IF @ > 0 THEN @ - 1 ELSE 0]
        /\ \/ store' = store \ {Cur(p)} /\ leftovers' = leftovers
           \/ leftovers' = leftovers \cup {Cur(p)} /\ store' = store
    BY <1>4 DEF Logout, StopClient, Cur
  <2>3. Agrees(e) /\ Cur(p) = Dev(p) /\ Dev(p) \in store
    BY <2>1, <2>2, Lone DEF Agreement, IInv, Locals, Removing, RemoveSteps
  <2>4. running'[e] = IF e = Dev(p) THEN IF running[e] > 0 THEN running[e] - 1 ELSE 0
                                     ELSE running[e]
    BY <1>0, <2>2, <2>3 DEF TypeOK
  <2>5. Pc(p) = "logoutPersonal" => Dev(p) \notin personal \cup {client}
    BY DEF IInv, Locals, Removing
  <2>6. e \in store' => e \in store /\ e # Dev(p)
    BY <2>2, <2>3
  <2>7. e \in store => e \in store' \/ e = Dev(p)
    BY <2>2, <2>3
  <2>8. Pc(p) = "logoutShared" => Dev(p) = client
    BY DEF IInv, Locals, Removing
  <2>10. Serves(e)' /\ Gone(e)' /\ Asked(e)'
    BY <2>1, <2>3, <2>5, <2>6, <2>7, <2>8, Lone, Before, After, Booted DEF Agrees, Serves,
       Gone, Asked, PairSteps, RemoveSteps
  <2>11. RowKnows(e)' /\ RoleKnows(e)'
    BY <2>1, <2>3, <2>5, <2>6, <2>7, <2>8, Lone, Before, After, Booted DEF Agrees,
       RowKnows, RoleKnows, PairSteps, RemoveSteps
  <2>12. Running(e)'
    BY <2>1, <2>3, <2>4, <2>5, <2>6, <2>7, <2>8, Lone, Before, After, Booted DEF Agrees,
       Running, Unstarted, PairSteps, RemoveSteps
  <2> QED
    BY <2>10, <2>11, <2>12 DEF Agrees
<1>5. CASE Clear(p)
  <2>1. /\ Pc(p) = "clear" /\ Others(p)
        /\ client' = NoDevice
        /\ UNCHANGED <<personal, wanted>> /\ Same
    BY <1>5, <1>0, ReturnMoves, GoMoves, Zenon DEF Clear, At, Pc, storedVars, historyVars
  <2>2. Agrees(e) /\ Dev(p) = client
    BY <2>1 DEF Agreement, IInv, Locals, Removing
  <2>3. \/ Pc(p)' = "forget" /\ Dev(p)' = Dev(p)
        \/ Pc(p)' = "idle" /\ Dev(p) = NoDevice
    BY <1>5, <1>0, ReturnMoves, GoMoves, Zenon DEF Clear, Dev
  <2> QED
    BY <2>1, <2>2, <2>3, Lone, Before, After, Booted, AccountsAssumption DEF Agrees,
       Serves, Gone, RowKnows, RoleKnows, Asked, Running, Unstarted, PairSteps,
       RemoveSteps
<1>6. CASE Forget(p) \/ DeleteRow(p)
  <2> USE AccountsAssumption, SMTT(20) DEF TypeOK, Thread, Roles, NoThread, Threads,
     BootThreads, SwapSteps,
          PairSteps, RemoveSteps, BootSteps, storedVars, serviceVars,
          historyVars, Pc, Dev, Cur, At, Go, Return, HasId, IdleThread, Kinds,
          StarterSteps, BooterSteps, Held, Exclusive, Booting, Places,
          Demoting, Marks, Leaving, NoRow, NoRole, Locals, Swapping, Pairing,
          Removing, Starting, Agreement, Agrees, Handled, Demoted, Somebody,
          Awaited, Registering, Serves, Gone, RowKnows, RoleKnows, Unseeded,
          Asked, Unstarted, Running, Scope, IInv
  <2>1. CASE Forget(p)
    BY <2>1 DEF Forget
  <2>2. CASE DeleteRow(p)
    BY <2>2 DEF DeleteRow
  <2> QED
    BY <1>6, <2>1, <2>2, Zenon
<1> QED
  BY <1>1, <1>2, <1>3, <1>4, <1>5, <1>6, Zenon DEF Remove

\* A request finds a settled state, or other requests but removals.
LEMMA RequestAgrees ==
    ASSUME Scope, IInv, Agreement, NEW p \in Panels, PanelRequest(p), NEW e \in Devices \
       leftovers'
    PROVE  Agrees(e)'
<1>0. TypeOK /\ p \in Threads
  BY DEF IInv, Threads
<1>1. /\ Pc(p) = "idle" /\ ~Booting
      /\ \A q \in Panels : Pc(q) \notin RemoveSteps
      /\ UNCHANGED <<rows, client, personal, role, running, leftovers>>
  BY DEF PanelRequest, RequestPair, RequestSet, RequestRemove, RequestUnset,
     RequestDisconnect,
     Request, Scope, Undisturbed, At, Pc, storedVars, serviceVars, historyVars, Threads,
        RemoveSteps
<1>2. client \in store \cup {NoDevice}
  BY <1>1 DEF IInv, Places, RemoveSteps
<1>3. Agrees(e)
  BY <1>1 DEF Agreement
<1>4. ASSUME NEW d \in Devices, RequestPair(p, d) PROVE Agrees(e)'
  <2>1. /\ Others(p) /\ Pc(p)' = "pairRow" /\ Dev(p)' = d
    BY <1>4, <1>0 DEF RequestPair, Pc, Dev, Others, TypeOK, Thread
  <2>2. /\ d \notin everPaired
        /\ everPaired' = everPaired \cup {d}
        /\ store' = store \cup {d}
        /\ wanted \subseteq wanted'
    BY <1>4 DEF RequestPair
  <2>3. d \notin store \cup personal \cup {client}
    BY <1>2, <2>2, AccountsAssumption DEF IInv, Places
  <2>4. Serves(e)'
    BY <1>1, <1>3, <2>1, <2>2, <2>3, Before, After, Booted DEF Agrees, Serves, PairSteps
  <2>5. Gone(e)'
    BY <1>1, <1>3, <2>1, <2>2, <2>3, After, Booted DEF Gone, HandledElse, RemoveSteps
  <2>6. RowKnows(e)'
    BY <1>1, <1>3, <2>1, <2>2, <2>3, Before, After, Booted DEF Agrees, RowKnows
  <2>7. RoleKnows(e)'
    BY <1>1, <1>3, <2>1, <2>2, <2>3, Before, After, Booted DEF Agrees, RoleKnows
  <2>8. Asked(e)'
    BY <1>1, <1>3, <2>1, <2>2, <2>3, Before, After, Booted DEF Agrees, Asked, RemoveSteps
  <2>9. Running(e)'
    BY <1>1, <1>3, <2>1, <2>2, <2>3, Before, After, Booted DEF Agrees, Running, Unstarted
  <2> QED
    BY <2>4, <2>5, <2>6, <2>7, <2>8, <2>9 DEF Agrees
<1>5. ASSUME NEW d \in Devices, RequestSet(p, d) PROVE Agrees(e)'
  <2>1. /\ Others(p) /\ Pc(p)' = "lock"
        /\ UNCHANGED <<store, everPaired, wanted>>
    BY <1>5, <1>0 DEF RequestSet, Pc, Others, TypeOK, Thread, storedVars, historyVars
  <2> QED
    BY <1>1, <1>3, <2>1, Before, After, Booted DEF Agrees, Serves, Gone, RowKnows,
       RoleKnows, Asked, Running, Unstarted, PairSteps, RemoveSteps
<1>6. ASSUME NEW d \in Devices, RequestRemove(p, d) PROVE Agrees(e)'
  <2>1. /\ Others(p) /\ Pc(p)' = "removeRead" /\ Dev(p)' = d
        /\ wanted' = wanted \ {d}
        /\ UNCHANGED <<store, everPaired>>
    BY <1>6, <1>0 DEF RequestRemove, Pc, Dev, Others, TypeOK, Thread, storedVars
  <2> QED
    BY <1>1, <1>3, <2>1, Before, After, Booted DEF Agrees, Serves, Gone, RowKnows,
       RoleKnows, Asked, Running, Unstarted, PairSteps, RemoveSteps
<1>7. ASSUME RequestUnset(p) \/ RequestDisconnect(p) PROVE Agrees(e)'
  <2>1. /\ Others(p) /\ Pc(p)' \in {"unsetLock", "disconnectRead"}
        /\ UNCHANGED <<store, everPaired, wanted>>
    BY <1>7, <1>0, GoMoves DEF RequestUnset, RequestDisconnect, storedVars, historyVars
  <2> QED
    BY <1>1, <1>3, <2>1, Before, After, Booted DEF Agrees, Serves, Gone, RowKnows,
       RoleKnows, Asked, Running, Unstarted, PairSteps, RemoveSteps
<1> QED
  BY <1>4, <1>5, <1>6, <1>7 DEF PanelRequest

\* The boot brings every stored device to where its row says.
LEMMA BootAgrees ==
    ASSUME Scope, IInv, Agreement, Boot,
           NEW e \in Devices \ leftovers'
    PROVE  Agrees(e)'
<1> USE AccountsAssumption, SMTT(20) DEF TypeOK, Thread, Roles, NoThread, Threads,
   BootThreads, SwapSteps,
          PairSteps, RemoveSteps, BootSteps, storedVars, serviceVars,
          historyVars, Pc, Dev, Cur, At, Go, Return, HasId, IdleThread, Kinds,
          StarterSteps, BooterSteps, Held, Exclusive, Booting, Places,
          Demoting, Marks, Leaving, NoRow, NoRole, Locals, Swapping, Pairing,
          Removing, Starting, Agreement, Agrees, Handled, Demoted, Somebody,
          Awaited, Registering, Serves, Gone, RowKnows, RoleKnows, Unseeded,
          Asked, Unstarted, Running, Scope, IInv
<1>1. CASE SeedList
  BY <1>1 DEF SeedList
<1>2. CASE Seed
  BY <1>2 DEF Seed
<1>3. CASE Connect
  BY <1>3 DEF Connect
<1>4. CASE TagRead
  BY <1>4 DEF TagRead
<1>5. CASE TagRow
  BY <1>5 DEF TagRow
<1>6. CASE TagRole
  BY <1>6 DEF TagRole
<1>7. CASE ListRows
  BY <1>7 DEF ListRows
<1>8. CASE Look
  <2>1. Serves(e)' /\ Gone(e)'
    BY <1>8 DEF Look
  <2>2. Running(e)'
    BY <1>8 DEF Look
  <2>3. RowKnows(e)'
    BY <1>8 DEF Look
  <2>4. RoleKnows(e)'
    BY <1>8 DEF Look
  <2>5. Asked(e)'
    BY <1>8 DEF Look
  <2> QED
    BY <2>1, <2>2, <2>3, <2>4, <2>5 DEF Agrees
<1>9. CASE StartPersonal
  BY <1>9 DEF StartPersonal
<1>10. CASE StartMap
  BY <1>10 DEF StartMap
<1>11. CASE Started
  BY <1>11 DEF Started
<1> QED
  BY <1>1, <1>2, <1>3, <1>4, <1>5, <1>6, <1>7, <1>8, <1>9, <1>10, <1>11 DEF Boot

\* A restart keeps the rows, and the boot has everything still to do.
LEMMA RestartAgrees ==
    ASSUME Scope, IInv, Agreement, Restart,
           NEW e \in Devices \ leftovers'
    PROVE  Agrees(e)'
BY AccountsAssumption, SMTT(30) DEF Restart, BootThread, PickShared, Undisturbed,
          TypeOK, Thread, Roles, NoThread, Threads, BootThreads, SwapSteps,
          PairSteps, RemoveSteps, BootSteps, storedVars, serviceVars,
          historyVars, Pc, Dev, Cur, At, Go, Return, HasId, IdleThread, Kinds,
          StarterSteps, BooterSteps, Held, Exclusive, Booting, Places,
          Demoting, Marks, Leaving, NoRow, NoRole, Locals, Swapping, Pairing,
          Removing, Starting, Agreement, Agrees, Handled, Demoted, Somebody,
          Awaited, Registering, Serves, Gone, RowKnows, RoleKnows, Unseeded,
          Asked, Unstarted, Running, Scope, IInv

\* Only devices that were paired are left over.
LEMMA LeftoversPaired ==
    ASSUME Scope, IInv, Agreement, Next
    PROVE  (leftovers \subseteq everPaired)'
<1>1. everPaired \subseteq everPaired'
  BY DEF Next, Working, SetShared, UnsetShared, FinalizePairing, Remove, PanelRequest,
     RequestPair,
     RequestSet, RequestRemove, RequestUnset, RequestDisconnect, Restart, historyVars,
     LockSwap, SetTarget, SetIncumbent, DemoteRow, DemoteMap, DemoteRole,
     LeaveMap, Point, PromoteRow, PromoteRole, LockUnset, UnsetRead, UnsetRow,
     UnsetMap, UnsetRole, UnsetPoint, PairRow, PairRole, PairMap, RemoveRead,
     Leave, DisconnectRead, Logout, Clear, Forget, DeleteRow, StopClient, Boot,
     SeedList, Seed, Connect, TagRead, TagRow, TagRole, ListRows, Look,
     StartPersonal, StartMap, Started
<1>2. ASSUME NEW p \in Panels, Logout(p)
      PROVE  leftovers' \subseteq leftovers \cup everPaired
  <2>1. Cur(p) \in store
    BY <1>2 DEF Logout, IInv, Locals, Removing, At, Pc
  <2> QED
    BY <1>2, <2>1 DEF Logout, StopClient, IInv, Places, Cur
<1>3. (\A p \in Panels : ~Logout(p)) => leftovers' = leftovers
  BY DEF Next, Working, SetShared, UnsetShared, FinalizePairing, Remove, PanelRequest,
     RequestPair,
     RequestSet, RequestRemove, RequestUnset, RequestDisconnect, Restart, historyVars,
     LockSwap, SetTarget, SetIncumbent, DemoteRow, DemoteMap, DemoteRole,
     LeaveMap, Point, PromoteRow, PromoteRole, LockUnset, UnsetRead, UnsetRow,
     UnsetMap, UnsetRole, UnsetPoint, PairRow, PairRole, PairMap, RemoveRead,
     Leave, DisconnectRead, Clear, Forget, DeleteRow, Boot, SeedList, Seed,
     Connect, TagRead, TagRow, TagRole, ListRows, Look, StartPersonal,
     StartMap, Started
<1> QED
  BY <1>1, <1>2, <1>3 DEF Agreement

\* Nothing is paired: nothing to agree on.
LEMMA InitAgrees ==
    ASSUME Init
    PROVE  Agreement
<1>1. /\ thread[Starter].pc = "seedList"
      /\ thread[Booter].pc = "list"
      /\ \A p \in Panels : thread[p].pc = "idle"
  BY AccountsAssumption DEF Init, BootThread, IdleThread, Threads, BootThreads
<1> QED
  BY <1>1, AccountsAssumption DEF Init, Agreement, Agrees, Serves, Gone, RowKnows,
     RoleKnows,
     Asked, Running, Unstarted, Unseeded, Handled, Demoted, Somebody, Awaited,
        Registering, Pc,
     RemoveSteps

\* Every step preserves the agreement.
LEMMA NextAgrees ==
    ASSUME Scope, IInv, Agreement, [Next]_vars
    PROVE  Agreement'
<1>1. CASE Next
  <2>1. ASSUME NEW e \in Devices \ leftovers'
        PROVE  Agrees(e)'
    BY <1>1, <2>1, SwapAgrees, UnsetAgrees, PairingAgrees, RemovalAgrees, RequestAgrees,
       BootAgrees, RestartAgrees DEF Next, Working
  <2> QED
    BY <1>1, <2>1, LeftoversPaired DEF Agreement
<1>2. CASE UNCHANGED vars
  BY <1>2 DEF vars,
          TypeOK, Thread, Roles, NoThread, Threads, BootThreads, SwapSteps,
          PairSteps, RemoveSteps, BootSteps, storedVars, serviceVars,
          historyVars, Pc, Dev, Cur, At, Go, Return, HasId, IdleThread, Kinds,
          StarterSteps, BooterSteps, Held, Exclusive, Booting, Places,
          Demoting, Marks, Leaving, NoRow, NoRole, Locals, Swapping, Pairing,
          Removing, Starting, Agreement, Agrees, Handled, Demoted, Somebody,
          Awaited, Registering, Serves, Gone, RowKnows, RoleKnows, Unseeded,
          Asked, Unstarted, Running, Scope, IInv
<1> QED
  BY <1>1, <1>2

\* The places agree up to what the threads at work have still to do.
THEOREM AgreementHolds == ASSUME Scope PROVE Spec => []Agreement
<1>1. Init => Agreement
  BY InitAgrees
<1>2. IInv /\ Agreement /\ [Next]_vars => Agreement'
  BY NextAgrees
<1> QED
  BY <1>1, <1>2, InvariantHolds, PTL DEF Spec

\* Nobody at work: no device is handled, awaited or being demoted.
LEMMA Rest ==
    ASSUME AtRest, NEW d
    PROVE  /\ \A S : "idle" \notin S => ~Handled(d, S) /\ ~Demoted(d, S) /\ ~Somebody(S)
           /\ ~Awaited(d) /\ ~Registering(d) /\ ~Unseeded
           /\ Pc(Starter) = "idle"
BY DEF AtRest, Undisturbed, Threads, BootThreads, Handled, Demoted, Somebody, Awaited,
   Registering, Unseeded, Pc

\* At rest the client pointer, the map, the role map and the rows agree on
\* every device but those removed while they were offline.
THEOREM PlacesAgree == ASSUME Scope PROVE Spec => []AgreeAtRest
<1>1. IInv /\ Agreement => AgreeAtRest
  <2> SUFFICES ASSUME IInv, Agreement, AtRest, NEW d \in Devices \ leftovers
               PROVE  /\ client = d <=> role[d] = "shared"
                      /\ d \in personal <=> role[d] = "personal"
                      /\ rows[d] = role[d]
    BY DEF AgreeAtRest
  <2>1. RowKnows(d) /\ RoleKnows(d)
    BY DEF Agreement, Agrees
  <2>2. rows[d] = role[d]
    BY <2>1, Rest DEF RoleKnows
  <2>3. client = d => rows[d] = "shared"
    BY <2>1, Rest DEF RowKnows
  <2>4. role[d] = "shared" => client = d
    BY DEF IInv, Marks, Leaving, AtRest, Undisturbed, Threads, Pc
  <2>5. d \in personal <=> rows[d] = "personal"
    BY <2>1, Rest DEF RowKnows
  <2> QED
    BY <2>2, <2>3, <2>4, <2>5
<1> QED
  BY <1>1, InvariantHolds, AgreementHolds, PTL

\* At rest every stored device with a role is served, by one client object.
THEOREM OneClientEach == ASSUME Scope PROVE Spec => []ServedOnce
<1>1. IInv /\ Agreement => ServedOnce
  <2> SUFFICES ASSUME IInv, Agreement, AtRest, NEW d \in Devices \ leftovers
               PROVE  running[d] = IF d \in store /\ rows[d] # "none" THEN 1 ELSE 0
    BY DEF ServedOnce
  <2>1. RowKnows(d) /\ Running(d)
    BY DEF Agreement, Agrees
  <2>2. d \in store => rows[d] # "none"
    BY <2>1, Rest DEF RowKnows
  <2>3. ~Unstarted(d)
    BY Rest DEF Unstarted
  <2> QED
    BY <2>1, <2>2, <2>3 DEF Running
<1> QED
  BY <1>1, InvariantHolds, AgreementHolds, PTL

\* At rest whoever is the shared account was asked for, or is a leftover.
THEOREM SharedIsAskedFor == ASSUME Scope PROVE Spec => []SharedOnlyIfWanted
<1>1. IInv /\ Agreement => SharedOnlyIfWanted
  <2> SUFFICES ASSUME IInv, Agreement, AtRest, client # NoDevice, client \notin leftovers
               PROVE  client \in wanted
    BY DEF SharedOnlyIfWanted
  <2>1. Asked(client)
    BY DEF Agreement, Agrees, IInv, TypeOK
  <2> QED
    BY <2>1, Rest DEF Asked, RemoveSteps
<1> QED
  BY <1>1, InvariantHolds, AgreementHolds, PTL

=============================================================================
