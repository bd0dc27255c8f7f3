-------------------------- MODULE LeaderElection --------------------------
(* The leader gate of the backend (internal/server/leader, cmd/server): one  *)
(* Lease object that replicas acquire, renew and give up through client-go's *)
(* elector, and the flag of each replica that IsLeader() reads.  The elector *)
(* is not part of the repository; it is modelled as LeaseLeader configures   *)
(* and calls it.                                                             *)
(*                                                                           *)
(* Time is a counter all clocks agree on.  It does not run past a deadline,  *)
(* nor past a callback that is due: replicas are assumed to run in time.     *)
EXTENDS Integers

CONSTANTS
    Replicas,
    Nobody,
    LeaseDuration,  \* a lease not renewed for so long is free (15 s)
    Patience,       \* a holder that could not renew for so long gives up:
                    \* RenewDeadline plus one RetryPeriod (10 s + 2 s)
    MaxTime         \* bound on time

ASSUME ConstantsAssumption ==
    /\ Nobody \notin Replicas
    /\ LeaseDuration \in Nat
    /\ Patience \in Nat \ {0}
    /\ Patience < LeaseDuration
    /\ MaxTime \in Nat

VARIABLES
    now,
    holder,      \* spec.holderIdentity
    renewed,     \* spec.renewTime
    phase,       \* phase[r]: where LeaseLeader.Run of r is
    last,        \* last[r]: when r last renewed
    starting,    \* replicas whose onStartedLeading goroutine has not run yet
    leading,     \* replicas whose flag is set
    terminating  \* replicas whose context is cancelled (SIGTERM)

lease == <<holder, renewed>>
vars  == <<now, lease, phase, last, starting, leading, terminating>>

TypeOK ==
    /\ now \in Nat
    /\ holder \in Replicas \cup {Nobody}
    /\ renewed \in Nat
    /\ phase \in [Replicas -> {"acquiring", "renewing", "stopping", "returned", "down"}]
    /\ last \in [Replicas -> Nat]
    /\ starting \in SUBSET Replicas
    /\ leading \in SUBSET Replicas
    /\ terminating \in SUBSET Replicas

Init ==
    /\ now = 0
    /\ holder = Nobody
    /\ renewed = 0
    /\ phase = [r \in Replicas |-> "acquiring"]
    /\ last = [r \in Replicas |-> 0]
    /\ starting = {}
    /\ leading = {}
    /\ terminating = {}

Move(r, next) == phase' = [phase EXCEPT ![r] = next]

-----------------------------------------------------------------------------
\* Nobody holds the lease, or its holder has let it expire.  The identity is
\* new with every start of a process, so no replica finds its old lease.
Free(r) == holder = Nobody \/ now >= renewed + LeaseDuration

\* The elector of r wins, and starts a goroutine for onStartedLeading.
Acquire(r) ==
    /\ phase[r] = "acquiring"
    /\ Free(r)
    /\ holder' = r
    /\ renewed' = now
    /\ last' = [last EXCEPT ![r] = now]
    /\ starting' = starting \cup {r}
    /\ Move(r, "renewing")
    /\ UNCHANGED <<now, leading, terminating>>

\* A renewal succeeds.  One that fails changes nothing until patience is out.
Renew(r) ==
    /\ phase[r] = "renewing"
    /\ holder = r
    /\ last[r] # now
    /\ renewed' = now
    /\ last' = [last EXCEPT ![r] = now]
    /\ UNCHANGED <<now, holder, phase, starting, leading, terminating>>

\* ReleaseOnCancel: the elector leaves its loop and tries to give the lease up.
Release(r) ==
    /\ \/ holder = r /\ holder' = Nobody
       \/ UNCHANGED holder
    /\ Move(r, "stopping")
    /\ UNCHANGED <<now, renewed, last, starting, leading>>

OutOfPatience(r) == phase[r] = "renewing" /\ now >= last[r] + Patience

LoseLease(r) ==
    /\ OutOfPatience(r)
    /\ Release(r)
    /\ UNCHANGED terminating

\* SIGTERM: the drain cancels the context of Run.
Cancel(r) ==
    /\ phase[r] = "renewing"
    /\ Release(r)
    /\ terminating' = terminating \cup {r}

OnStartedLeading(r) ==
    /\ r \in starting
    /\ starting' = starting \ {r}
    /\ leading' = leading \cup {r}
    /\ UNCHANGED <<now, lease, phase, last, terminating>>

\* Mutant: the flag stays up.
KeepsFlag(r) ==
    /\ phase[r] = "stopping"
    /\ Move(r, "returned")
    /\ UNCHANGED <<now, lease, last, starting, leading, terminating>>

\* Run returns after it; main does not call it again.
OnStoppedLeading(r) ==
    /\ phase[r] = "stopping"
    /\ leading' = leading \ {r}
    /\ Move(r, "returned")
    /\ UNCHANGED <<now, lease, last, starting, terminating>>

\* The process ends, by itself or killed; the lease stays until it expires.
Exit(r) ==
    /\ phase[r] # "down"
    /\ Move(r, "down")
    /\ starting' = starting \ {r}
    /\ leading' = leading \ {r}
    /\ terminating' = terminating \ {r}
    /\ UNCHANGED <<now, lease, last>>

Restart(r) ==
    /\ phase[r] = "down"
    /\ Move(r, "acquiring")
    /\ UNCHANGED <<now, lease, last, starting, leading, terminating>>

Tick ==
    /\ now < MaxTime
    /\ starting = {}
    /\ \A r \in Replicas : phase[r] # "stopping" /\ ~OutOfPatience(r)
    /\ now' = now + 1
    /\ UNCHANGED <<lease, phase, last, starting, leading, terminating>>

Next ==
    \/ Tick
    \/ \E r \in Replicas :
          \/ Acquire(r) \/ Renew(r) \/ LoseLease(r) \/ Cancel(r)
          \/ OnStartedLeading(r) \/ OnStoppedLeading(r) \/ Exit(r) \/ Restart(r)

Spec == Init /\ [][Next]_vars

\* Electors and callbacks run; a terminating process ends.
Fairness ==
    /\ WF_vars(Tick)
    /\ \A r \in Replicas :
          /\ WF_vars(Acquire(r)) /\ WF_vars(LoseLease(r))
          /\ WF_vars(OnStartedLeading(r)) /\ WF_vars(OnStoppedLeading(r))
          /\ WF_vars(Exit(r) /\ r \in terminating) /\ WF_vars(Restart(r))

FairSpec == Spec /\ Fairness

-----------------------------------------------------------------------------
(* Safety.                                                                   *)

\* At most one replica is in the renewing loop, however time, restarts and
\* failed renewals mix: a holder runs out of patience before its lease expires.
SoleRenewer ==
    \A r, s \in Replicas : phase[r] = "renewing" /\ phase[s] = "renewing" => r = s

\* Two flags are up at once only while one of the two replicas is leaving: it
\* gave the lease up before its flag fell, or it was told to stop before the
\* goroutine that raises the flag had run.
OverlapOnlyWhenLeaving ==
    \A r, s \in leading : r # s =>
        \E q \in {r, s} : phase[q] = "stopping" \/ q \in terminating

\* A replica that lost the lease in time, not by SIGTERM, ends with its flag
\* down: time does not pass over a flag without a lease.
NoStaleFlagOverTime ==
    [][now' # now => \A r \in leading : phase[r] = "renewing" \/ r \in terminating]_vars

-----------------------------------------------------------------------------
\* The election implements what LeaderGate promises to the loops: without time,
\* expiry or terminating replicas, and with a flag that counts as up from the
\* moment the goroutine that raises it has started.
Gate == INSTANCE LeaderGate WITH
    holder      <- IF \E r \in Replicas : r = holder /\ phase[r] = "renewing" THEN holder ELSE Nobody,
    leading     <- leading \cup starting,
    campaigning <- {r \in Replicas : phase[r] \notin {"stopping", "returned"}}

ImplementsGate == Gate!Spec
=============================================================================
