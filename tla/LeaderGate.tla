------------------------------ MODULE LeaderGate ------------------------------
(* What the loops of the backend can rely on of leader election              *)
(* (internal/server/leader): whose IsLeader() may say yes.  At most one      *)
(* replica holds the lease; the flag of one that gave it up, or lost it,     *)
(* falls a little late.  LeaderElection implements this with clocks;         *)
(* JobQueue runs under it.                                                   *)
CONSTANTS
    Replicas,
    Nobody   \* nobody holds the lease

VARIABLES
    holder,      \* the replica that holds the lease and may renew it
    leading,     \* replicas whose flag is up, or about to go up
    campaigning  \* replicas whose elector has not returned

vars == <<holder, leading, campaigning>>

Init ==
    /\ holder = Nobody
    /\ leading = {}
    /\ campaigning = Replicas

\* onStartedLeading: the elector of r wins a lease nobody holds.
Win(r) ==
    /\ holder = Nobody
    /\ r \in campaigning
    /\ holder' = r
    /\ leading' = leading \cup {r}
    /\ UNCHANGED campaigning

\* r could not renew in time, or is told to stop, and gives the lease up
\* (ReleaseOnCancel).  LeaseLeader.Run returns, and main starts it once: r does
\* not campaign again before a restart.
Lose(r) ==
    /\ holder = r
    /\ holder' = Nobody
    /\ campaigning' = campaigning \ {r}
    /\ UNCHANGED leading

\* onStoppedLeading: the flag falls after the lease is given up, maybe after
\* another replica has won it.
Fall(r) ==
    /\ r \in leading
    /\ holder # r
    /\ leading' = leading \ {r}
    /\ UNCHANGED <<holder, campaigning>>

\* The process of r is lost and started anew.
Restart(r) ==
    /\ holder' = IF holder = r THEN Nobody ELSE holder
    /\ leading' = leading \ {r}
    /\ campaigning' = campaigning \cup {r}

Next == \E r \in Replicas : Win(r) \/ Lose(r) \/ Fall(r) \/ Restart(r)

Spec == Init /\ [][Next]_vars
=============================================================================
