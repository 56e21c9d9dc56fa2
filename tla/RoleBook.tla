------------------------------ MODULE RoleBook ------------------------------
(***************************************************************************)
(* What the WhatsApp accounts promise about roles, whatever locks and      *)
(* statements it takes to keep it: a book with one entry for each device,  *)
(* changed one device at a time.  A device becomes the shared account only *)
(* when nobody is; whoever is must be demoted or removed first, and a      *)
(* demoted device goes on as a personal one.                               *)
(*                                                                         *)
(* Two books are kept by internal/service/client_multi.go: the rows of     *)
(* DeviceRepository, which survive everything, and roleByJID, which is     *)
(* lost with the process and loaded again.                                 *)
(***************************************************************************)
CONSTANTS Devices, Volatile
VARIABLE book

Vacant(b) == \A d \in Devices : b[d] # "shared"
Enter(d, r) == book' = [book EXCEPT ![d] = r]

\* DeviceRepository and pickSharedDevice expect at most one.
AtMostOneShared(b) ==
    \A d, e \in Devices : b[d] = "shared" /\ b[e] = "shared" => d = e

Init == book = [d \in Devices |-> "none"]

\* A pairing, or the start of a device that nobody had recorded.
Register(d) == book[d] = "none" /\ Enter(d, "personal")

Promote(d) == Vacant(book) /\ book[d] = "personal" /\ Enter(d, "shared")

Demote(d) == book[d] = "shared" /\ Enter(d, "personal")

Remove(d) == Enter(d, "none")

\* The boot marks the device it picked, which had no mark.
Adopt(d) == Vacant(book) /\ book[d] = "none" /\ Enter(d, "shared")

\* A new process knows nobody, and loads what has been recorded.
Lose == Volatile /\ book' = [d \in Devices |-> "none"]

Load == /\ Volatile
        /\ Vacant(book)
        /\ \E loaded \in [Devices -> {"none", "personal", "shared"}] :
              /\ AtMostOneShared(loaded)
              /\ book' = [d \in Devices |-> IF loaded[d] = "none" THEN book[d] ELSE loaded[d]]

Next == \/ \E d \in Devices : \/ Register(d) \/ Promote(d) \/ Demote(d)
                              \/ Remove(d) \/ Adopt(d)
        \/ Lose
        \/ Load

Spec == Init /\ [][Next]_book
=============================================================================
