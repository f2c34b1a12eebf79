------------------------------- MODULE Lease -------------------------------
(***************************************************************************)
(* What a Redis lock of the journal promises (celery_workers/cache.py:     *)
(* claim_lock is SET NX EX with the owner's token, release_lock deletes    *)
(* the key only if it still holds that token).  A client that enters holds *)
(* the lease; the lease may lapse while the client is still inside, and a  *)
(* client that dies leaves the lease behind until it lapses.  Exclusion is *)
(* promised until a lease lapses under a client that is still inside, and  *)
(* never after: "lapsed" remembers that it did.                            *)
(***************************************************************************)
EXTENDS FiniteSets

CONSTANTS Clients,      \* the tokens that may own the lock
          Free          \* the value of a key that does not exist

VARIABLES holder,       \* the token under the key, or Free
          inside,       \* the clients between a successful claim and their release
          lapsed        \* has a lease ever ended under a client still inside?

leaseVars == <<holder, inside, lapsed>>

LeaseInit ==
    /\ holder = Free
    /\ inside = {}
    /\ lapsed = FALSE

\* claim_lock: the key is written only if it does not exist.
Enter(c) ==
    /\ holder = Free
    /\ c \notin inside
    /\ holder' = c
    /\ inside' = inside \cup {c}
    /\ UNCHANGED lapsed

\* release_lock: the key is deleted only if it still holds the token.
Leave(c) ==
    /\ c \in inside
    /\ inside' = inside \ {c}
    /\ holder' = IF holder = c THEN Free ELSE holder
    /\ UNCHANGED lapsed

\* The client ends without releasing: it crashed, or Redis did not answer.
Abandon(c) ==
    /\ c \in inside
    /\ inside' = inside \ {c}
    /\ UNCHANGED <<holder, lapsed>>

\* The key expires.
Lapse ==
    /\ holder # Free
    /\ holder' = Free
    /\ lapsed' = (lapsed \/ holder \in inside)
    /\ UNCHANGED inside

LeaseNext ==
    \/ \E c \in Clients : Enter(c) \/ Leave(c) \/ Abandon(c)
    \/ Lapse

LeaseSpec == LeaseInit /\ [][LeaseNext]_leaseVars
-----------------------------------------------------------------------------
LeaseTypeOK ==
    /\ holder \in Clients \cup {Free}
    /\ inside \subseteq Clients
    /\ lapsed \in BOOLEAN

\* Two clients are inside together only after a lease lapsed under one that
\* was still inside: what acquire_mt5_global_lock (cache.py:377) is for.
Exclusive == lapsed \/ \A a, b \in inside : a = b

\* The inductive form: while no lease lapsed, whoever is inside holds it.
LeaseInv == lapsed \/ inside \subseteq {holder}
=============================================================================
