----------------------------- MODULE KeyDelivery -----------------------------
(***************************************************************************)
(* What the attestation server and client promise together, free of every  *)
(* request, retry and fault: the VM receives at most one disk encryption   *)
(* key, and it is the key of a guest owner whose run has approved this VM, *)
(* that is, has accepted its attestation report.                           *)
(***************************************************************************)
CONSTANTS
    Client,     \* the client runs that may be under way at the same time
    None        \* "no client"

VARIABLES
    phase,      \* "open", "delivered", or "lost" when the server has died
    approved,   \* the runs that have approved the VM and not yet delivered
    owner       \* the run whose key the VM received

kdvars == <<phase, approved, owner>>

Init ==
    /\ phase = "open"
    /\ approved = {}
    /\ owner = None

\* A run accepts the VM's report.
Approve(c) ==
    /\ c \notin approved
    /\ approved' = approved \cup {c}
    /\ UNCHANGED <<phase, owner>>

\* A run ends without delivering, or its key is turned down.
Withdraw(c) ==
    /\ approved' = approved \ {c}
    /\ UNCHANGED <<phase, owner>>

\* The VM receives the key of a run that approved it.
Deliver(c) ==
    /\ phase = "open"
    /\ c \in approved
    /\ phase' = "delivered"
    /\ approved' = approved \ {c}
    /\ owner' = c

\* The server dies before any key was delivered; a run's key may die with it.
Lose ==
    /\ phase = "open"
    /\ phase' = "lost"
    /\ \E gone \in {{}} \cup {{c} : c \in Client} : approved' = approved \ gone
    /\ UNCHANGED owner

Next ==
    \/ Lose
    \/ \E c \in Client : Approve(c) \/ Withdraw(c) \/ Deliver(c)

Spec == Init /\ [][Next]_kdvars
==============================================================================
