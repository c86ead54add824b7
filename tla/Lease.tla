------------------------------- MODULE Lease -------------------------------
(***************************************************************************)
(* What leader election promises: a lease.  It is granted for Duration     *)
(* from the time since, to a new owner only when that of the old one is    *)
(* over, and it is renewed by its owner, never shortened.  A client acts   *)
(* only as the owner, and has stopped when the lease ends: time does not   *)
(* reach the end of a lease under which somebody acts.                     *)
(***************************************************************************)
EXTENDS Integers

CONSTANTS Clients, Nobody, Duration

VARIABLES
    now,
    owner,      \* the last client the lease was granted to
    since,      \* the time it counts from
    acting      \* the clients that act as leader

vars == <<now, owner, since, acting>>

Init ==
    /\ now = 0 /\ since = 0
    /\ owner = Nobody
    /\ acting = {}

Over == now >= since + Duration

Pass ==
    /\ acting # {} => now + 1 < since + Duration
    /\ now' = now + 1
    /\ UNCHANGED <<owner, since, acting>>

Grant(c) ==
    /\ owner \in {Nobody, c} \/ Over
    /\ owner' = c
    /\ since' \in since..now
    /\ UNCHANGED <<now, acting>>

Begin(c) ==
    /\ owner = c /\ ~Over
    /\ acting' = acting \cup {c}
    /\ UNCHANGED <<now, owner, since>>

End(c) ==
    /\ c \in acting
    /\ acting' = acting \ {c}
    /\ UNCHANGED <<now, owner, since>>

Next ==
    \/ Pass
    \/ \E c \in Clients : Grant(c) \/ Begin(c) \/ End(c)

Spec == Init /\ [][Next]_vars

-----------------------------------------------------------------------------
\* Whoever acts does so as the owner, before the end of the lease, and so alone.
Exclusive == \A c \in acting : owner = c /\ ~Over
=============================================================================
