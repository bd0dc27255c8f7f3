------------------------ MODULE LeaderLoopsProofs ------------------------
(* Proofs about the election, for any replicas and any timings in which      *)
(* patience is shorter than the lease, and about the two loops: the budget   *)
(* of POSTs and the notice of the outbox, for any team, events, dispatchers  *)
(* and faults, and the ends of the ledger, for any pods and any clock.       *)
EXTENDS LeaderLoops, FiniteSetTheorems, TLAPS

\* A renewing replica holds the lease, renewed it last, and is not overdue.
RenewersHoldTheLease ==
    \A r \in Replicas : phase[r] = "renewing" =>
        holder = r /\ renewed = last[r] /\ now <= last[r] + Patience

\* A flag is up, or about to go up, for a reason.
FlagsHaveReasons ==
    /\ \A r \in leading : phase[r] \in {"renewing", "stopping"} \/ r \in terminating
    /\ \A r \in starting : (phase[r] = "renewing" /\ now = last[r]) \/ r \in terminating

\* The inductive invariant.
IInv == TypeOK /\ RenewersHoldTheLease /\ FlagsHaveReasons

LEMMA InitEstablishes == Init => IInv
BY ConstantsAssumption DEF Init, IInv, TypeOK, RenewersHoldTheLease, FlagsHaveReasons

\* Nobody renews a lease that is free.
LEMMA FreeMeansNoRenewer ==
    ASSUME IInv, NEW r \in Replicas, Free(r), NEW s \in Replicas
    PROVE  phase[s] # "renewing"
BY ConstantsAssumption DEF IInv, TypeOK, RenewersHoldTheLease, Free

LEMMA NextPreserves == IInv /\ [Next]_vars => IInv'
<1> SUFFICES ASSUME IInv, [Next]_vars PROVE IInv'
  OBVIOUS
<1> USE ConstantsAssumption DEF IInv, TypeOK, RenewersHoldTheLease, FlagsHaveReasons, Move
<1>1. CASE Tick
  BY <1>1 DEF Tick, lease, OutOfPatience
<1>2. ASSUME NEW r \in Replicas, Acquire(r) PROVE IInv'
  <2>1. /\ \A s \in Replicas : phase[s] # "renewing"
        /\ phase[r] = "acquiring"
    BY <1>2, FreeMeansNoRenewer DEF Acquire
  <2>2. /\ phase' = [phase EXCEPT ![r] = "renewing"]
        /\ last' = [last EXCEPT ![r] = now]
        /\ holder' = r /\ renewed' = now
        /\ starting' = starting \cup {r}
        /\ UNCHANGED <<now, leading, terminating>>
    BY <1>2 DEF Acquire
  <2>. QED
    BY <2>1, <2>2
<1>3. ASSUME NEW r \in Replicas, Renew(r) PROVE IInv'
  BY <1>3 DEF Renew
<1>4. ASSUME NEW r \in Replicas, LoseLease(r) PROVE IInv'
  <2>1. /\ phase[r] = "renewing"
        /\ r \notin starting \/ r \in terminating
    BY <1>4 DEF LoseLease, OutOfPatience
  <2>. QED
    BY <1>4, <2>1 DEF LoseLease, Release
<1>5. ASSUME NEW r \in Replicas, Cancel(r) PROVE IInv'
  BY <1>5 DEF Cancel, Release
<1>6. ASSUME NEW r \in Replicas, OnStartedLeading(r) PROVE IInv'
  BY <1>6 DEF OnStartedLeading, lease
<1>7. ASSUME NEW r \in Replicas, OnStoppedLeading(r) PROVE IInv'
  BY <1>7 DEF OnStoppedLeading, lease
<1>8. ASSUME NEW r \in Replicas, Exit(r) PROVE IInv'
  BY <1>8 DEF Exit, lease
<1>9. ASSUME NEW r \in Replicas, Restart(r) PROVE IInv'
  BY <1>9 DEF Restart, lease
<1>10. CASE UNCHANGED vars
  BY <1>10 DEF vars, lease
<1>. QED
  BY <1>1, <1>2, <1>3, <1>4, <1>5, <1>6, <1>7, <1>8, <1>9, <1>10 DEF Next

\* The inductive invariant holds in every reachable state.
THEOREM InductiveInvariant == Spec => []IInv
BY InitEstablishes, NextPreserves, PTL DEF Spec

\* At most one replica renews the lease.
THEOREM MutualExclusion == Spec => []SoleRenewer
<1>1. IInv => SoleRenewer
  BY DEF IInv, RenewersHoldTheLease, SoleRenewer
<1>. QED
  BY InductiveInvariant, <1>1, PTL

\* Two flags are up at once only while one of the two replicas is leaving.
THEOREM Overlap == Spec => []OverlapOnlyWhenLeaving
<1>1. IInv => OverlapOnlyWhenLeaving
  BY DEF IInv, TypeOK, RenewersHoldTheLease, FlagsHaveReasons, OverlapOnlyWhenLeaving
<1>. QED
  BY InductiveInvariant, <1>1, PTL

\* Time does not pass over the flag of a replica that lost the lease.
THEOREM FlagsFallInTime == Spec => NoStaleFlagOverTime
<1>1. ASSUME IInv, [Next]_vars, now' # now
      PROVE  \A r \in leading : phase[r] = "renewing" \/ r \in terminating
  <2>1. Tick
    BY <1>1 DEF Next, vars, Acquire, Renew, LoseLease, Cancel, Release,
                OnStartedLeading, OnStoppedLeading, Exit, Restart
  <2>. QED
    BY <1>1, <2>1 DEF IInv, TypeOK, FlagsHaveReasons, Tick
<1>2. IInv /\ [Next]_vars =>
        [now' # now => \A r \in leading : phase[r] = "renewing" \/ r \in terminating]_vars
  BY <1>1
<1>. QED
  BY InductiveInvariant, <1>2, PTL DEF Spec, NoStaleFlagOverTime

-----------------------------------------------------------------------------
(* The election implements LeaderGate.                                       *)

\* The refinement mapping.
Holding     == IF \E r \in Replicas : r = holder /\ phase[r] = "renewing" THEN holder ELSE Nobody
Flagged     == leading \cup starting
Campaigning == {r \in Replicas : phase[r] \notin {"stopping", "returned"}}

\* A replica holds the gate if and only if it is in the renewing loop.
LEMMA HoldingIsRenewing ==
    ASSUME IInv
    PROVE  /\ Holding \in Replicas \cup {Nobody}
           /\ \A r \in Replicas : Holding = r <=> phase[r] = "renewing"
BY ConstantsAssumption DEF IInv, RenewersHoldTheLease, Holding

\* What the phases say of who holds the gate, they say after a step too.
LEMMA HoldingMoves ==
    ASSUME IInv, IInv', NEW r \in Replicas,
           \A s \in Replicas : s # r => phase'[s] = phase[s]
    PROVE  /\ phase[r] # "renewing" /\ phase'[r] # "renewing" => Holding' = Holding
           /\ phase[r] = "renewing" /\ phase'[r] = "renewing" => Holding' = Holding
           /\ phase[r] = "renewing" => Holding = r
           /\ phase'[r] = "renewing" => Holding' = r
           /\ phase[r] = "renewing" /\ phase'[r] # "renewing" => Holding' = Nobody
           /\ phase[r] # "renewing" => Holding # r
           /\ (\A s \in Replicas : phase[s] # "renewing") => Holding = Nobody
<1>1. /\ Holding \in Replicas \cup {Nobody}
      /\ \A s \in Replicas : Holding = s <=> phase[s] = "renewing"
  BY HoldingIsRenewing
<1>2. /\ Holding' \in Replicas \cup {Nobody}
      /\ \A s \in Replicas : Holding' = s <=> phase'[s] = "renewing"
  BY ConstantsAssumption DEF IInv, RenewersHoldTheLease, Holding
<1>. QED
  BY <1>1, <1>2, ConstantsAssumption

LEMMA ElectionStepRefines ==
    ASSUME IInv, IInv', [Next]_vars
    PROVE  [Gate!Next]_(Gate!vars)
<1>0. ASSUME UNCHANGED <<Holding, Flagged, Campaigning>> PROVE UNCHANGED Gate!vars
  BY <1>0 DEF Gate!vars, Holding, Flagged, Campaigning
<1>1. CASE Tick \/ UNCHANGED vars
  BY <1>0, <1>1 DEF Tick, vars, lease, Holding, Flagged, Campaigning
<1>2. ASSUME NEW r \in Replicas, Acquire(r) PROVE Gate!Win(r)
  <2>1. /\ \A s \in Replicas : phase[s] # "renewing"
        /\ phase[r] = "acquiring" /\ phase'[r] = "renewing"
        /\ \A s \in Replicas : s # r => phase'[s] = phase[s]
        /\ Flagged' = Flagged \cup {r}
    BY <1>2, FreeMeansNoRenewer DEF Acquire, Move, IInv, TypeOK, Flagged
  <2>2. Holding = Nobody /\ Holding' = r
    BY <2>1, HoldingMoves
  <2>3. r \in Campaigning /\ Campaigning' = Campaigning
    BY <2>1 DEF Campaigning
  <2>. QED
    BY <2>1, <2>2, <2>3 DEF Gate!Win, Holding, Flagged, Campaigning
<1>3. ASSUME NEW r \in Replicas, Renew(r) PROVE UNCHANGED Gate!vars
  BY <1>0, <1>3 DEF Renew, Holding, Flagged, Campaigning
<1>4. ASSUME NEW r \in Replicas, LoseLease(r) \/ Cancel(r) PROVE Gate!Lose(r)
  <2>1. /\ phase[r] = "renewing" /\ phase'[r] = "stopping"
        /\ \A s \in Replicas : s # r => phase'[s] = phase[s]
        /\ Flagged' = Flagged
    BY <1>4 DEF LoseLease, Cancel, OutOfPatience, Release, Move, IInv, TypeOK, Flagged
  <2>2. Holding = r /\ Holding' = Nobody
    BY <2>1, HoldingMoves
  <2>3. Campaigning' = Campaigning \ {r}
    BY <2>1 DEF Campaigning
  <2>. QED
    BY <2>1, <2>2, <2>3 DEF Gate!Lose, Holding, Flagged, Campaigning
<1>5. ASSUME NEW r \in Replicas, OnStartedLeading(r) PROVE UNCHANGED Gate!vars
  BY <1>0, <1>5 DEF OnStartedLeading, lease, Holding, Flagged, Campaigning
<1>6. ASSUME NEW r \in Replicas, OnStoppedLeading(r) PROVE Gate!Fall(r) \/ UNCHANGED Gate!vars
  <2>1. /\ phase[r] = "stopping" /\ phase'[r] = "returned"
        /\ \A s \in Replicas : s # r => phase'[s] = phase[s]
        /\ leading' = leading \ {r} /\ starting' = starting
    BY <1>6 DEF OnStoppedLeading, Move, IInv, TypeOK
  <2>2. Holding' = Holding /\ Holding # r
    BY <2>1, HoldingMoves
  <2>3. Campaigning' = Campaigning
    BY <2>1 DEF Campaigning
  <2>4. CASE Flagged' = Flagged
    BY <1>0, <2>2, <2>3, <2>4
  <2>5. CASE Flagged' # Flagged
    <3>1. r \in Flagged /\ Flagged' = Flagged \ {r}
      BY <2>1, <2>5 DEF Flagged
    <3>. QED
      BY <2>2, <2>3, <3>1 DEF Gate!Fall, Holding, Flagged, Campaigning
  <2>. QED
    BY <2>4, <2>5
<1>7. ASSUME NEW r \in Replicas, Exit(r) PROVE Gate!Restart(r)
  <2>1. /\ phase'[r] = "down"
        /\ \A s \in Replicas : s # r => phase'[s] = phase[s]
        /\ Flagged' = Flagged \ {r}
    BY <1>7 DEF Exit, Move, IInv, TypeOK, Flagged
  <2>2. Holding' = IF Holding = r THEN Nobody ELSE Holding
    BY <2>1, HoldingMoves
  <2>3. Campaigning' = Campaigning \cup {r}
    BY <2>1 DEF Campaigning
  <2>. QED
    BY <2>1, <2>2, <2>3 DEF Gate!Restart, Holding, Flagged, Campaigning
<1>8. ASSUME NEW r \in Replicas, Restart(r) PROVE UNCHANGED Gate!vars
  <2>1. /\ phase[r] = "down" /\ phase'[r] = "acquiring"
        /\ \A s \in Replicas : s # r => phase'[s] = phase[s]
        /\ Flagged' = Flagged
    BY <1>8 DEF Restart, Move, IInv, TypeOK, Flagged
  <2>2. Holding' = Holding
    BY <2>1, HoldingMoves
  <2>3. Campaigning' = Campaigning
    BY <2>1 DEF Campaigning
  <2>. QED
    BY <1>0, <2>1, <2>2, <2>3
<1>. QED
  BY <1>1, <1>2, <1>3, <1>4, <1>5, <1>6, <1>7, <1>8 DEF Next, Gate!Next

\* The election, with its clocks, expiring leases, terminating replicas and
\* callbacks that come late, implements the gate the job queue runs under
\* (LeaseLeader.Run, onStartedLeading, onStoppedLeading).
THEOREM ElectionImplementsGate == Spec => ImplementsGate
<1>1. Init => Gate!Init
  BY ConstantsAssumption DEF Init, Gate!Init
<1>2. IInv /\ IInv' /\ [Next]_vars => [Gate!Next]_(Gate!vars)
  BY ElectionStepRefines
<1>. QED
  BY <1>1, <1>2, InductiveInvariant, PTL DEF Spec, ImplementsGate, Gate!Spec

-----------------------------------------------------------------------------
(* The outbox.                                                               *)

LEMMA OutboxInit == Notify!Init => Notify!TypeOK
BY OutboxAssumption DEF Notify!Init, Notify!TypeOK, Notify!Statuses, Notify!Places

\* The shape of a claim.
LEMMA ClaimFields ==
    /\ \A c \in Notify!Claims : c.key \in Notify!Rows /\ c.attempt \in Nat
    /\ \A k \in Notify!Rows, a \in Nat : [key |-> k, attempt |-> a] \in Notify!Claims
    /\ Notify!NoClaim.key = NoDelivery /\ Notify!NoClaim.attempt = 0
    /\ Notify!NoClaim \notin Notify!Claims /\ NoDelivery \notin Notify!Rows
    /\ \A k \in Notify!Rows : Notify!SubOf(k) \in Subs /\ k[1] \in Events
BY OutboxAssumption DEF Notify!Claims, Notify!NoClaim, Notify!Rows, Notify!SubOf

\* Going on keeps the types of the dispatcher's variables.
LEMMA GoTypes ==
    ASSUME Notify!TypeOK, NEW w \in Senders, NEW place \in Notify!Places, Notify!Go(w, place)
    PROVE  /\ nPc' \in [Senders -> Notify!Places]
           /\ nBatch' \in [Senders -> SUBSET Notify!Claims]
           /\ nRow' \in [Senders -> Notify!Claims \cup {Notify!NoClaim}]
BY DEF Notify!TypeOK, Notify!Go

\* So does a write of an outcome, and so do a fault and the lack of one.
LEMMA WriteTypes ==
    ASSUME Notify!TypeOK, NEW w \in Senders, nRow[w].key \in Notify!Rows,
           NEW outcome \in Notify!Statuses, NEW tries \in Nat,
           \/ Notify!Write(w, outcome, tries)
           \/ UNCHANGED Notify!rowVars
    PROVE  /\ nStatus' \in [Notify!Rows -> Notify!Statuses]
           /\ nAttempt' \in [Notify!Rows -> Nat]
           /\ nDue' \in [Notify!Rows -> BOOLEAN]
<1>1. CASE Notify!Write(w, outcome, tries)
  BY <1>1 DEF Notify!TypeOK, Notify!Write
<1>2. CASE UNCHANGED Notify!rowVars
  BY <1>2 DEF Notify!TypeOK, Notify!rowVars
<1>. QED
  BY <1>1, <1>2

LEMMA Increment ==
    ASSUME NEW S, NEW f \in [S -> Nat], NEW x \in S
    PROVE  [f EXCEPT ![x] = @ + 1] \in [S -> Nat]
OBVIOUS

LEMMA FaultTypes ==
    ASSUME Notify!TypeOK, Notify!Fault \/ UNCHANGED nFaults
    PROVE  nFaults' \in 0 .. OutboxFaults
BY OutboxAssumption DEF Notify!TypeOK, Notify!Fault

LEMMA OutboxTypes ==
    ASSUME Notify!TypeOK, Notify!HandsAreTidy, Notify!Next
    PROVE  Notify!TypeOK'
<1> USE OutboxAssumption, ClaimFields DEF Notify!TypeOK
<1>1. ASSUME NEW s \in Subs,
             Notify!PreviewCreate(s) \/ Notify!ConfirmCreate(s) \/ Notify!ConfirmDelete(s)
      PROVE  Notify!TypeOK'
  BY <1>1 DEF Notify!PreviewCreate, Notify!ConfirmCreate, Notify!ConfirmDelete,
              Notify!rowVars, Notify!countVars, Notify!senderVars
<1>2. ASSUME NEW e \in Events, Notify!Enqueue(e) PROVE Notify!TypeOK'
  <2>1. nFaults' \in 0 .. OutboxFaults
    BY <1>2, FaultTypes DEF Notify!Enqueue
  <2>2. nStatus' \in [Notify!Rows -> Notify!Statuses]
    BY <1>2 DEF Notify!Enqueue, Notify!Statuses
  <2>3. nDue' \in [Notify!Rows -> BOOLEAN]
    BY <1>2, Zenon DEF Notify!Enqueue
  <2>. QED
    BY <1>2, <2>1, <2>2, <2>3
       DEF Notify!Enqueue, Notify!subVars, Notify!countVars, Notify!senderVars
<1>3. ASSUME NEW k \in Notify!Rows, NEW c \in Copies, Notify!Redeliver(k, c)
      PROVE  Notify!TypeOK'
  BY <1>3 DEF Notify!Redeliver, Notify!subVars, Notify!countVars, Notify!senderVars,
              Notify!Statuses
<1>4. ASSUME NEW k \in Notify!Rows, Notify!Elapse(k) \/ Notify!Overrun(k)
      PROVE  Notify!TypeOK'
  <2>1. nFaults' \in 0 .. OutboxFaults
    BY <1>4, FaultTypes DEF Notify!Elapse, Notify!Overrun
  <2>2. nDue' \in [Notify!Rows -> BOOLEAN]
    BY <1>4 DEF Notify!Elapse, Notify!Overrun
  <2>. QED
    BY <1>4, <2>1, <2>2 DEF Notify!Elapse, Notify!Overrun, Notify!subVars, Notify!countVars,
              Notify!senderVars
<1>5. ASSUME NEW w \in Senders, Notify!ClaimDue(w) PROVE Notify!TypeOK'
  <2>1. PICK taken \in SUBSET Notify!Claimable :
          /\ nStatus' = [k \in Notify!Rows |-> IF k \in taken THEN "delivering" ELSE nStatus[k]]
          /\ nDue' = [k \in Notify!Rows |-> nDue[k] /\ k \notin taken]
          /\ nBatch' = [nBatch EXCEPT ![w] = {[key |-> k, attempt |-> nAttempt[k]] : k \in taken}]
          /\ nReclaims' = [k \in Notify!Rows |-> IF k \in taken /\ nStatus[k] = "delivering"
                                        THEN nReclaims[k] + 1 ELSE nReclaims[k]]
    BY <1>5 DEF Notify!ClaimDue
  <2>2. {[key |-> k, attempt |-> nAttempt[k]] : k \in taken} \in SUBSET Notify!Claims
    BY DEF Notify!Claimable
  <2>3. /\ nStatus' \in [Notify!Rows -> Notify!Statuses]
        /\ nReclaims' \in [Notify!Rows -> Nat]
        /\ nBatch' \in [Senders -> SUBSET Notify!Claims]
    BY <2>1, <2>2 DEF Notify!Statuses
  <2>4. nDue' \in [Notify!Rows -> BOOLEAN]
    BY <2>1
  <2>. QED
    BY <1>5, <2>3, <2>4 DEF Notify!ClaimDue, Notify!subVars, Notify!Places
<1>6. ASSUME NEW w \in Senders, Notify!LoadSubscription(w) PROVE Notify!TypeOK'
  BY <1>6 DEF Notify!LoadSubscription, Notify!subVars, Notify!rowVars, Notify!countVars,
              Notify!Fault, Notify!Places
<1>7. ASSUME NEW w \in Senders, Notify!TickDone(w) PROVE Notify!TypeOK'
  BY <1>7 DEF Notify!TickDone, Notify!subVars, Notify!rowVars, Notify!countVars, Notify!Places
<1>8. ASSUME NEW w \in Senders, Notify!Deliver(w) PROVE Notify!TypeOK'
  <2>1. PICK place \in {"succeed", "drop", "fail"} : Notify!Go(w, place)
    BY <1>8 DEF Notify!Deliver
  <2>2. place \in Notify!Places
    BY DEF Notify!Places
  <2>3. /\ nPosts' = [nPosts EXCEPT ![nRow[w].key] = @ + 1]
        /\ nHeard' \in {nHeard, [nHeard EXCEPT ![nRow[w].key] = @ + 1]}
    BY <1>8, Zenon DEF Notify!Deliver
  <2>4. /\ nPosts' \in [Notify!Rows -> Nat] /\ nHeard' \in [Notify!Rows -> Nat]
    <3>1. nRow[w].key \in Notify!Rows
      BY <1>8 DEF Notify!HandsAreTidy, Notify!Deliver
    <3>. QED
      BY <2>3, <3>1, Increment
  <2>. QED
    BY <1>8, <2>1, <2>2, <2>4, GoTypes DEF Notify!Deliver, Notify!subVars, Notify!rowVars
<1>9. ASSUME NEW w \in Senders,
             Notify!MarkSucceeded(w) \/ Notify!MarkDropped(w) \/ Notify!MarkFailed(w)
      PROVE  Notify!TypeOK'
  <2>1. nRow[w] \in Notify!Claims
    BY <1>9 DEF Notify!HandsAreTidy, Notify!MarkSucceeded, Notify!MarkDropped, Notify!MarkFailed
  <2>2. nRow[w].key \in Notify!Rows /\ nRow[w].attempt \in Nat
    BY <2>1
  <2>3. PICK place \in {"reset", "bump", "next"} : Notify!Go(w, place)
    BY <1>9 DEF Notify!MarkSucceeded, Notify!MarkDropped, Notify!MarkFailed
  <2>4. PICK outcome \in Notify!Finished \cup {"failed"},
             tries \in {nAttempt[nRow[w].key] + 1, nRow[w].attempt + 1} :
          \/ Notify!Write(w, outcome, tries)
          \/ UNCHANGED Notify!rowVars
    BY <1>9 DEF Notify!MarkSucceeded, Notify!MarkDropped, Notify!MarkFailed,
                Notify!BestEffort, Notify!Finished
  <2>5. place \in Notify!Places /\ outcome \in Notify!Statuses /\ tries \in Nat
    BY <2>2 DEF Notify!Places, Notify!Statuses, Notify!Finished
  <2>6. /\ Notify!Fault \/ UNCHANGED nFaults
        /\ UNCHANGED <<Notify!subVars, nAudited, Notify!countVars>>
    BY <1>9 DEF Notify!MarkSucceeded, Notify!MarkDropped, Notify!MarkFailed, Notify!BestEffort
  <2>7. nFaults' \in 0 .. OutboxFaults
    BY <2>6, FaultTypes
  <2>8. /\ nStatus' \in [Notify!Rows -> Notify!Statuses]
        /\ nAttempt' \in [Notify!Rows -> Nat]
        /\ nDue' \in [Notify!Rows -> BOOLEAN]
    BY <2>2, <2>4, <2>5, WriteTypes
  <2>9. /\ nPc' \in [Senders -> Notify!Places]
        /\ nBatch' \in [Senders -> SUBSET Notify!Claims]
        /\ nRow' \in [Senders -> Notify!Claims \cup {Notify!NoClaim}]
    BY <2>3, <2>5, GoTypes
  <2>. QED
    BY <2>6, <2>7, <2>8, <2>9 DEF Notify!subVars, Notify!countVars
<1>10. ASSUME NEW w \in Senders,
             Notify!ResetFailures(w) \/ Notify!BumpFailure(w) \/ Notify!MaybeBreak(w)
               \/ Notify!LogDisabled(w)
      PROVE  Notify!TypeOK'
  <2>1. PICK place \in {"break", "next", "notice"} : Notify!Go(w, place)
    BY <1>10 DEF Notify!ResetFailures, Notify!BumpFailure, Notify!MaybeBreak, Notify!LogDisabled
  <2>2. place \in Notify!Places
    BY DEF Notify!Places
  <2>3. Notify!Fault \/ UNCHANGED nFaults
    BY <1>10 DEF Notify!ResetFailures, Notify!BumpFailure, Notify!MaybeBreak, Notify!LogDisabled,
                 Notify!BestEffort
  <2>4. nFaults' \in 0 .. OutboxFaults
    BY <2>3, FaultTypes
  <2>5. /\ nSub' \in [Subs -> {"none", "previewed", "active", "disabled", "deleted"}]
        /\ nFailures' \in [Subs -> Nat] /\ nNotices' \in [Subs -> Nat]
    BY <1>10 DEF Notify!ResetFailures, Notify!BumpFailure, Notify!MaybeBreak, Notify!LogDisabled,
                 Notify!BestEffort
  <2>6. UNCHANGED <<nAudited, Notify!rowVars, Notify!countVars>>
    BY <1>10 DEF Notify!ResetFailures, Notify!BumpFailure, Notify!MaybeBreak, Notify!LogDisabled
  <2>7. /\ nPc' \in [Senders -> Notify!Places]
        /\ nBatch' \in [Senders -> SUBSET Notify!Claims]
        /\ nRow' \in [Senders -> Notify!Claims \cup {Notify!NoClaim}]
    BY <2>1, <2>2, GoTypes
  <2>. QED
    BY <2>4, <2>5, <2>6, <2>7 DEF Notify!rowVars, Notify!countVars
<1>11. ASSUME NEW w \in Senders, Notify!Crash(w) PROVE Notify!TypeOK'
  BY <1>11 DEF Notify!Crash, Notify!subVars, Notify!rowVars, Notify!countVars, Notify!Fault,
              Notify!Places
<1>. QED
  BY <1>1, <1>2, <1>3, <1>4, <1>5, <1>6, <1>7, <1>8, <1>9, <1>10, <1>11
     DEF Notify!Next, Notify!Step

\* The actions with which a dispatcher goes on with the row in hand.
Goes(w) ==
    \/ Notify!Deliver(w) \/ Notify!MarkSucceeded(w) \/ Notify!ResetFailures(w)
    \/ Notify!MarkDropped(w) \/ Notify!MarkFailed(w) \/ Notify!BumpFailure(w)
    \/ Notify!MaybeBreak(w) \/ Notify!LogDisabled(w)

LEMMA GoesOn ==
    ASSUME NEW w \in Senders, Goes(w)
    PROVE  /\ nPc[w] \in Notify!Places \ {"idle", "next"}
           /\ \E place \in Notify!Places \ {"idle", "post"} : Notify!Go(w, place)
<1>1. nPc[w] \in Notify!Places \ {"idle", "next"}
  BY DEF Goes, Notify!Deliver, Notify!MarkSucceeded, Notify!ResetFailures, Notify!MarkDropped,
         Notify!MarkFailed, Notify!BumpFailure, Notify!MaybeBreak, Notify!LogDisabled,
         Notify!Places
<1>2. \E place \in {"succeed", "drop", "fail", "reset", "next", "bump", "break", "notice"} :
         Notify!Go(w, place)
  BY DEF Goes, Notify!Deliver, Notify!MarkSucceeded, Notify!ResetFailures, Notify!MarkDropped,
         Notify!MarkFailed, Notify!BumpFailure, Notify!MaybeBreak, Notify!LogDisabled
<1>. QED
  BY <1>1, <1>2 DEF Notify!Places

\* Every step is one of the team's, of the outbox or of a dispatcher.
LEMMA OutboxSteps ==
    ASSUME Notify!Next
    PROVE  \/ UNCHANGED <<nPc, nBatch, nRow>>
           \/ \E w \in Senders : \/ Notify!ClaimDue(w) \/ Notify!LoadSubscription(w)
                                 \/ Notify!TickDone(w) \/ Goes(w) \/ Notify!Crash(w)
BY DEF Notify!Next, Notify!Step, Goes, Notify!PreviewCreate, Notify!ConfirmCreate,
       Notify!ConfirmDelete, Notify!Enqueue, Notify!Redeliver, Notify!Elapse, Notify!Overrun,
       Notify!senderVars

LEMMA OutboxHands ==
    ASSUME Notify!TypeOK, Notify!HandsAreTidy, Notify!Next
    PROVE  Notify!HandsAreTidy'
<1> USE ClaimFields DEF Notify!TypeOK, Notify!HandsAreTidy
<1>1. CASE UNCHANGED <<nPc, nBatch, nRow>>
  BY <1>1
<1>2. ASSUME NEW w \in Senders, Notify!ClaimDue(w) PROVE Notify!HandsAreTidy'
  <2>1. PICK taken \in SUBSET Notify!Claimable :
          nBatch' = [nBatch EXCEPT ![w] = {[key |-> k, attempt |-> nAttempt[k]] : k \in taken}]
    BY <1>2 DEF Notify!ClaimDue
  <2>2. /\ nPc[w] = "idle" /\ nPc' = [nPc EXCEPT ![w] = "next"] /\ nRow' = nRow
    BY <1>2 DEF Notify!ClaimDue
  <2>3. /\ \A c \in nBatch'[w] : c.key \in Notify!Rows
        /\ \A c, d \in nBatch'[w] : c.key = d.key => c = d
    BY <2>1 DEF Notify!Claimable
  <2>4. nRow[w].key = NoDelivery
    BY <2>2
  <2>. QED
    BY <2>1, <2>2, <2>3, <2>4
<1>3. ASSUME NEW w \in Senders, Notify!LoadSubscription(w) PROVE Notify!HandsAreTidy'
  <2>1. PICK c \in nBatch[w], place \in {"post", "inactive"} :
          /\ nRow' = [nRow EXCEPT ![w] = c]
          /\ nBatch' = [nBatch EXCEPT ![w] = @ \ {c}]
          /\ nPc' = [nPc EXCEPT ![w] = place]
    BY <1>3 DEF Notify!LoadSubscription
  <2>. QED
    BY <2>1
<1>4. ASSUME NEW w \in Senders, Notify!TickDone(w) PROVE Notify!HandsAreTidy'
  BY <1>4 DEF Notify!TickDone
<1>5. ASSUME NEW w \in Senders, Goes(w) PROVE Notify!HandsAreTidy'
  <2>1. nPc[w] \in Notify!Places \ {"idle", "next"}
    BY <1>5, GoesOn
  <2>2. PICK place \in Notify!Places \ {"idle", "post"} : Notify!Go(w, place)
    BY <1>5, GoesOn
  <2>3. CASE place = "next"
    <3>1. nRow' = [nRow EXCEPT ![w] = Notify!NoClaim]
      BY <2>2, <2>3 DEF Notify!Go
    <3>2. \A c \in nBatch[w] : c.key # Notify!NoClaim.key
      OBVIOUS
    <3>. QED
      BY <2>2, <2>3, <3>1, <3>2 DEF Notify!Go
  <2>4. CASE place # "next"
    BY <2>1, <2>2, <2>4 DEF Notify!Go
  <2>. QED
    BY <2>3, <2>4
<1>6. ASSUME NEW w \in Senders, Notify!Crash(w) PROVE Notify!HandsAreTidy'
  BY <1>6 DEF Notify!Crash
<1>. QED
  BY OutboxSteps, <1>1, <1>2, <1>3, <1>4, <1>5, <1>6

\* What a dispatcher holds after a step it held before, or it has just claimed it.
LEMMA Holds ==
    ASSUME Notify!TypeOK, Notify!HandsAreTidy, Notify!Next, NEW w \in Senders
    PROVE  /\ \A c \in nBatch'[w] : c \in nBatch[w] \/
                 /\ Notify!ClaimDue(w)
                 /\ \E k \in Notify!Claimable : c = [key |-> k, attempt |-> nAttempt[k]]
           /\ nRow'[w] # Notify!NoClaim => nRow'[w] = nRow[w] \/ nRow'[w] \in nBatch[w]
           /\ nPc'[w] = "post" =>
                 (nPc[w] = "post" /\ nRow'[w] = nRow[w]) \/ nRow'[w] \in nBatch[w]
<1> USE DEF Notify!TypeOK
<1>1. CASE UNCHANGED <<nPc, nBatch, nRow>>
  BY <1>1
<1>2. ASSUME NEW v \in Senders, Notify!ClaimDue(v)
      PROVE  /\ \A c \in nBatch'[w] : c \in nBatch[w] \/
                   (v = w /\ \E k \in Notify!Claimable : c = [key |-> k, attempt |-> nAttempt[k]])
             /\ nRow' = nRow /\ (nPc'[w] = "post" => nPc[w] = "post")
  BY <1>2 DEF Notify!ClaimDue
<1>3. ASSUME NEW v \in Senders, Notify!LoadSubscription(v)
      PROVE  /\ nBatch'[w] \subseteq nBatch[w]
             /\ v # w => nRow'[w] = nRow[w] /\ nPc'[w] = nPc[w]
             /\ v = w => nRow'[w] \in nBatch[w]
  BY <1>3 DEF Notify!LoadSubscription
<1>4. ASSUME NEW v \in Senders, Notify!TickDone(v)
      PROVE  nBatch' = nBatch /\ nRow' = nRow /\ (nPc'[w] = "post" => nPc[w] = "post")
  BY <1>4 DEF Notify!TickDone
<1>5. ASSUME NEW v \in Senders, Goes(v)
      PROVE  /\ nBatch' = nBatch /\ nRow'[w] \in {nRow[w], Notify!NoClaim}
             /\ v = w => nPc'[w] # "post"
             /\ v # w => nPc'[w] = nPc[w] /\ nRow'[w] = nRow[w]
  <2>1. PICK place \in Notify!Places \ {"idle", "post"} : Notify!Go(v, place)
    BY <1>5, GoesOn
  <2>. QED
    BY <2>1 DEF Notify!Go
<1>6. ASSUME NEW v \in Senders, Notify!Crash(v)
      PROVE  /\ nBatch'[w] \subseteq nBatch[w] /\ nRow'[w] \in {nRow[w], Notify!NoClaim}
             /\ nPc'[w] = "post" => nPc[w] = "post" /\ nRow'[w] = nRow[w]
  BY <1>6 DEF Notify!Crash
<1>. QED
  BY OutboxSteps, <1>1, <1>2, <1>3, <1>4, <1>5, <1>6

\* Only some steps touch the rows, and these are the statuses they write.
LEMMA RowSteps ==
    ASSUME Notify!TypeOK, Notify!HandsAreTidy, Notify!AbsentIsFresh, Notify!Next,
           NEW k \in Notify!Rows
    PROVE  \/ nStatus'[k] = nStatus[k] /\ nAttempt'[k] = nAttempt[k]
           \/ /\ nStatus[k] = "absent" /\ nStatus'[k] = "pending" /\ nAttempt'[k] = nAttempt[k]
              /\ k[1] \in nAudited'
           \/ /\ k \in Notify!Claimable /\ nStatus'[k] = "delivering"
              /\ nAttempt'[k] = nAttempt[k]
           \/ nStatus'[k] \in Notify!Finished /\ nStatus[k] # "absent"
           \/ \E w \in Senders : /\ Notify!MarkFailed(w) /\ nRow[w].key = k
                                 /\ nStatus'[k] = "failed" /\ nStatus[k] # "absent"
                                 /\ nAttempt'[k] = nRow[w].attempt + 1
<1> USE ClaimFields DEF Notify!TypeOK
<1>1. CASE UNCHANGED <<nStatus, nAttempt>>
  BY <1>1
<1>2. ASSUME NEW e \in Events, Notify!Enqueue(e)
      PROVE  \/ nStatus'[k] = nStatus[k] /\ nAttempt'[k] = nAttempt[k]
             \/ /\ nStatus[k] = "absent" /\ nStatus'[k] = "pending" /\ nAttempt'[k] = nAttempt[k]
                /\ k[1] \in nAudited'
  BY <1>2 DEF Notify!Enqueue, Notify!AbsentIsFresh
<1>3. ASSUME NEW j \in Notify!Rows, NEW c \in Copies, Notify!Redeliver(j, c)
      PROVE  \/ nStatus'[k] = nStatus[k] /\ nAttempt'[k] = nAttempt[k]
             \/ /\ nStatus[k] = "absent" /\ nStatus'[k] = "pending" /\ nAttempt'[k] = nAttempt[k]
                /\ k[1] \in nAudited'
  BY <1>3 DEF Notify!Redeliver, Notify!AbsentIsFresh
<1>4. ASSUME NEW w \in Senders, Notify!ClaimDue(w)
      PROVE  \/ nStatus'[k] = nStatus[k] /\ nAttempt'[k] = nAttempt[k]
             \/ k \in Notify!Claimable /\ nStatus'[k] = "delivering" /\ nAttempt'[k] = nAttempt[k]
  BY <1>4 DEF Notify!ClaimDue
<1>5. ASSUME NEW w \in Senders, Notify!MarkSucceeded(w) \/ Notify!MarkDropped(w)
      PROVE  \/ nStatus'[k] = nStatus[k] /\ nAttempt'[k] = nAttempt[k]
             \/ nStatus'[k] \in Notify!Finished /\ nStatus[k] # "absent"
  <2>1. nRow[w] \in Notify!Claims /\ nStatus[nRow[w].key] # "absent"
    BY <1>5 DEF Notify!MarkSucceeded, Notify!MarkDropped, Notify!HandsAreTidy,
                Notify!AbsentIsFresh
  <2>2. \/ UNCHANGED Notify!rowVars
        \/ \E outcome \in Notify!Finished : Notify!Write(w, outcome, nAttempt[nRow[w].key] + 1)
    BY <1>5 DEF Notify!MarkSucceeded, Notify!MarkDropped, Notify!BestEffort, Notify!Finished
  <2>. QED
    BY <2>1, <2>2 DEF Notify!Write, Notify!rowVars
<1>6. ASSUME NEW w \in Senders, Notify!MarkFailed(w)
      PROVE  \/ nStatus'[k] = nStatus[k] /\ nAttempt'[k] = nAttempt[k]
             \/ /\ nRow[w].key = k /\ nStatus'[k] = "failed" /\ nStatus[k] # "absent"
                /\ nAttempt'[k] = nRow[w].attempt + 1
  <2>1. nRow[w] \in Notify!Claims /\ nStatus[nRow[w].key] # "absent"
    BY <1>6 DEF Notify!MarkFailed, Notify!HandsAreTidy, Notify!AbsentIsFresh
  <2>2. \/ UNCHANGED Notify!rowVars
        \/ Notify!Write(w, "failed", nRow[w].attempt + 1)
    BY <1>6 DEF Notify!MarkFailed, Notify!BestEffort
  <2>. QED
    BY <2>1, <2>2 DEF Notify!Write, Notify!rowVars
<1>7. \/ UNCHANGED <<nStatus, nAttempt>>
      \/ \E e \in Events : Notify!Enqueue(e)
      \/ \E j \in Notify!Rows, c \in Copies : Notify!Redeliver(j, c)
      \/ \E w \in Senders : \/ Notify!ClaimDue(w) \/ Notify!MarkSucceeded(w)
                            \/ Notify!MarkDropped(w) \/ Notify!MarkFailed(w)
  BY DEF Notify!Next, Notify!Step, Notify!PreviewCreate, Notify!ConfirmCreate,
         Notify!ConfirmDelete, Notify!Elapse, Notify!Overrun, Notify!LoadSubscription,
         Notify!TickDone, Notify!Deliver, Notify!ResetFailures, Notify!BumpFailure,
         Notify!MaybeBreak, Notify!LogDisabled, Notify!Crash, Notify!rowVars
<1>. QED
  BY <1>1, <1>2, <1>3, <1>4, <1>5, <1>6, <1>7

\* A dispatcher that will write a failure has just made a POST with attempts left.
LEMMA FailSteps ==
    ASSUME Notify!TypeOK, Notify!Next, NEW w \in Senders, nPc'[w] = "fail"
    PROVE  \/ nPc[w] = "fail" /\ nRow'[w] = nRow[w]
           \/ Notify!Deliver(w) /\ nRow'[w] = nRow[w] /\ ~(nRow[w].attempt + 1 >= MaxAttempts)
<1> USE DEF Notify!TypeOK
<1>1. CASE UNCHANGED <<nPc, nBatch, nRow>>
  BY <1>1
<1>2. ASSUME NEW v \in Senders, \/ Notify!ClaimDue(v) \/ Notify!LoadSubscription(v)
                                \/ Notify!TickDone(v) \/ Notify!Crash(v)
      PROVE  nPc[w] = "fail" /\ nRow'[w] = nRow[w]
  BY <1>2 DEF Notify!ClaimDue, Notify!LoadSubscription, Notify!TickDone, Notify!Crash
<1>3. ASSUME NEW v \in Senders, Goes(v), v # w
      PROVE  nPc[w] = "fail" /\ nRow'[w] = nRow[w]
  BY <1>3, GoesOn DEF Notify!Go
<1>4. ASSUME Notify!Deliver(w)
      PROVE  nRow'[w] = nRow[w] /\ ~(nRow[w].attempt + 1 >= MaxAttempts)
  BY <1>4 DEF Notify!Deliver, Notify!Go
<1>5. ASSUME Goes(w), ~Notify!Deliver(w) PROVE FALSE
  BY <1>5 DEF Goes, Notify!MarkSucceeded, Notify!ResetFailures, Notify!MarkDropped,
        Notify!MarkFailed, Notify!BumpFailure, Notify!MaybeBreak, Notify!LogDisabled, Notify!Go
<1>. QED
  BY OutboxSteps, <1>1, <1>2, <1>3, <1>4, <1>5

LEMMA OutboxAttempts ==
    ASSUME Notify!TypeOK, Notify!HandsAreTidy, Notify!AbsentIsFresh, Notify!AttemptsAreLow,
           Notify!Next
    PROVE  Notify!AttemptsAreLow'
<1> USE OutboxAssumption, ClaimFields DEF Notify!TypeOK
<1>1. ASSUME NEW k \in Notify!Rows, nStatus'[k] \notin Notify!Finished
      PROVE  nAttempt'[k] < MaxAttempts
  BY <1>1, RowSteps DEF Notify!AttemptsAreLow, Notify!MarkFailed, Notify!Claimable,
                        Notify!Finished
<1>2. ASSUME NEW w \in Senders, NEW c \in Notify!InHand(w)'
      PROVE  c.attempt < MaxAttempts
  <2>1. c \in Notify!InHand(w) \/ \E k \in Notify!Claimable : c = [key |-> k, attempt |-> nAttempt[k]]
    BY <1>2, Holds DEF Notify!InHand
  <2>. QED
    BY <2>1 DEF Notify!AttemptsAreLow, Notify!Claimable, Notify!Finished
<1>3. ASSUME NEW w \in Senders, nPc'[w] = "fail"
      PROVE  nRow'[w].attempt + 1 < MaxAttempts
  <2>1. \/ nPc[w] = "fail" /\ nRow'[w] = nRow[w]
        \/ Notify!Deliver(w) /\ nRow'[w] = nRow[w] /\ ~(nRow[w].attempt + 1 >= MaxAttempts)
    BY <1>3, FailSteps
  <2>2. nRow[w].attempt \in Nat
    OBVIOUS
  <2>. QED
    BY <2>1, <2>2 DEF Notify!AttemptsAreLow
<1>. QED
  BY <1>1, <1>2, <1>3 DEF Notify!AttemptsAreLow

LEMMA OutboxFresh ==
    ASSUME Notify!TypeOK, Notify!HandsAreTidy, Notify!AbsentIsFresh, Notify!Next
    PROVE  Notify!AbsentIsFresh'
<1> USE ClaimFields DEF Notify!TypeOK, Notify!AbsentIsFresh
<1>1. nAudited \subseteq nAudited'
  BY DEF Notify!Next, Notify!Step, Notify!PreviewCreate, Notify!ConfirmCreate, Notify!Enqueue,
         Notify!Redeliver, Notify!ConfirmDelete, Notify!Elapse, Notify!Overrun,
         Notify!LoadSubscription, Notify!TickDone, Notify!Deliver, Notify!ResetFailures,
         Notify!BumpFailure, Notify!MaybeBreak, Notify!LogDisabled, Notify!Crash,
         Notify!ClaimDue, Notify!MarkSucceeded, Notify!MarkDropped, Notify!MarkFailed
<1>2. ASSUME NEW k \in Notify!Rows, nStatus[k] # "absent"
      PROVE  nStatus'[k] # "absent"
  BY <1>2, RowSteps DEF Notify!Finished
<1>3. ASSUME NEW k \in Notify!Rows, nStatus'[k] # "absent"
      PROVE  k[1] \in nAudited'
  <2>1. nStatus[k] # "absent" \/ k[1] \in nAudited'
    BY <1>3, RowSteps DEF Notify!Claimable
  <2>. QED
    BY <1>1, <2>1
<1>4. ASSUME NEW k \in Notify!Rows, nStatus'[k] = "absent"
      PROVE  nPosts'[k] = 0 /\ nHeard'[k] = 0
  <2>1. nStatus[k] = "absent"
    BY <1>2, <1>4
  <2>2. ASSUME NEW w \in Senders, Notify!Deliver(w)
        PROVE  nPosts'[k] = nPosts[k] /\ nHeard'[k] = nHeard[k]
    <3>1. nRow[w] # Notify!NoClaim
      BY <2>2 DEF Notify!Deliver, Notify!HandsAreTidy
    <3>. QED
      BY <2>1, <2>2, <3>1 DEF Notify!Deliver
  <2>3. UNCHANGED <<nPosts, nHeard>> \/ \E w \in Senders : Notify!Deliver(w)
    BY DEF Notify!Next, Notify!Step, Notify!PreviewCreate, Notify!ConfirmCreate, Notify!Enqueue,
         Notify!Redeliver, Notify!ConfirmDelete, Notify!Elapse, Notify!Overrun,
         Notify!LoadSubscription, Notify!TickDone, Notify!ResetFailures,
         Notify!BumpFailure, Notify!MaybeBreak, Notify!LogDisabled, Notify!Crash,
         Notify!ClaimDue, Notify!MarkSucceeded, Notify!MarkDropped, Notify!MarkFailed,
         Notify!countVars
  <2>. QED
    BY <2>1, <2>2, <2>3
<1>5. ASSUME NEW w \in Senders, NEW c \in nBatch'[w]
      PROVE  nStatus'[c.key] # "absent"
  <2>1. c \in nBatch[w] \/ \E k \in Notify!Claimable : c = [key |-> k, attempt |-> nAttempt[k]]
    BY Holds
  <2>. QED
    BY <1>2, <2>1 DEF Notify!Claimable
<1>6. ASSUME NEW w \in Senders, nRow'[w] # Notify!NoClaim
      PROVE  nStatus'[nRow'[w].key] # "absent"
  <2>1. nRow'[w] = nRow[w] \/ nRow'[w] \in nBatch[w]
    BY <1>6, Holds
  <2>2. nRow'[w].key \in Notify!Rows /\ nStatus[nRow'[w].key] # "absent"
    BY <1>6, <2>1
  <2>. QED
    BY <1>2, <2>2
<1>. QED
  BY <1>3, <1>4, <1>5, <1>6

\* Who announces a subscription announced it before, or has just disabled it.
LEMMA NoticeSteps ==
    ASSUME Notify!TypeOK, Notify!HandsAreTidy, Notify!Next, NEW s \in Subs
    PROVE  \/ /\ nNotices'[s] = nNotices[s]
              /\ \A w \in Senders : Notify!Announces(w, s)' => Notify!Announces(w, s)
              /\ nSub'[s] \notin {"disabled", "deleted"} => nSub[s] \notin {"disabled", "deleted"}
           \/ \E w \in Senders :
                 /\ nNotices'[s] = nNotices[s]
                 /\ nSub[s] = "active" /\ nSub'[s] = "disabled"
                 /\ \A v \in Senders : Notify!Announces(v, s)' => Notify!Announces(v, s) \/ v = w
           \/ \E w \in Senders :
                 /\ Notify!Announces(w, s) /\ nSub' = nSub
                 /\ nNotices'[s] = nNotices[s] + 1
                 /\ \A v \in Senders : Notify!Announces(v, s)' => Notify!Announces(v, s) /\ v # w
<1> USE ClaimFields DEF Notify!TypeOK, Notify!Announces
<1>1. CASE UNCHANGED <<nPc, nRow, nNotices, nSub>>
  BY <1>1
<1>2. ASSUME NEW t \in Subs,
             Notify!PreviewCreate(t) \/ Notify!ConfirmCreate(t) \/ Notify!ConfirmDelete(t)
      PROVE  /\ UNCHANGED <<nPc, nRow, nNotices>>
             /\ nSub'[s] \notin {"disabled", "deleted"} => nSub[s] \notin {"disabled", "deleted"}
  BY <1>2 DEF Notify!PreviewCreate, Notify!ConfirmCreate, Notify!ConfirmDelete,
              Notify!senderVars
<1>3. ASSUME NEW w \in Senders, \/ Notify!ClaimDue(w) \/ Notify!LoadSubscription(w)
                                \/ Notify!TickDone(w) \/ Notify!Crash(w)
      PROVE  /\ UNCHANGED <<nSub, nNotices>>
             /\ \A v \in Senders : Notify!Announces(v, s)' => Notify!Announces(v, s)
  BY <1>3 DEF Notify!ClaimDue, Notify!LoadSubscription, Notify!TickDone, Notify!Crash,
              Notify!subVars
<1>4. ASSUME NEW w \in Senders, NEW place \in Notify!Places \ {"notice"}, Notify!Go(w, place)
      PROVE  \A v \in Senders : Notify!Announces(v, s)' => Notify!Announces(v, s) /\ v # w
  BY <1>4 DEF Notify!Go
<1>5. ASSUME NEW w \in Senders,
             \/ Notify!Deliver(w) \/ Notify!MarkSucceeded(w) \/ Notify!ResetFailures(w)
             \/ Notify!MarkDropped(w) \/ Notify!MarkFailed(w) \/ Notify!BumpFailure(w)
      PROVE  /\ UNCHANGED <<nSub, nNotices>>
             /\ \E place \in Notify!Places \ {"notice"} : Notify!Go(w, place)
  <2>1. \E place \in {"succeed", "drop", "fail", "reset", "next", "bump", "break"} :
           Notify!Go(w, place)
    BY <1>5 DEF Notify!Deliver, Notify!MarkSucceeded, Notify!ResetFailures, Notify!MarkDropped,
         Notify!MarkFailed, Notify!BumpFailure
  <2>. QED
    BY <1>5, <2>1 DEF Notify!Deliver, Notify!MarkSucceeded, Notify!ResetFailures,
       Notify!MarkDropped, Notify!MarkFailed, Notify!BumpFailure, Notify!subVars, Notify!Places
<1>6. ASSUME NEW w \in Senders, Notify!MaybeBreak(w)
      PROVE  \/ /\ UNCHANGED <<nSub, nNotices>>
                /\ \A v \in Senders : Notify!Announces(v, s)' => Notify!Announces(v, s)
             \/ /\ nNotices'[s] = nNotices[s]
                /\ nSub[s] = "active" /\ nSub'[s] = "disabled"
                /\ \A v \in Senders : Notify!Announces(v, s)' => Notify!Announces(v, s) \/ v = w
             \/ /\ nNotices'[s] = nNotices[s] /\ nSub'[s] = nSub[s]
                /\ \A v \in Senders : Notify!Announces(v, s)' => Notify!Announces(v, s)
  <2>1. CASE Notify!Go(w, "next") /\ UNCHANGED nSub
    <3>1. "next" \in Notify!Places \ {"notice"}
      BY DEF Notify!Places
    <3>. QED
      BY <1>4, <1>6, <2>1, <3>1 DEF Notify!MaybeBreak
  <2>2. CASE /\ nSub[Notify!SubOf(nRow[w].key)] = "active"
             /\ nSub' = [nSub EXCEPT ![Notify!SubOf(nRow[w].key)] = "disabled"]
             /\ Notify!Go(w, "notice")
    BY <1>6, <2>2 DEF Notify!Go, Notify!MaybeBreak
  <2>. QED
    BY <1>6, <2>1, <2>2 DEF Notify!MaybeBreak
<1>7. ASSUME NEW w \in Senders, Notify!LogDisabled(w)
      PROVE  /\ nSub' = nSub
             /\ \/ nNotices'[s] = nNotices[s]
                \/ Notify!Announces(w, s) /\ nNotices'[s] = nNotices[s] + 1
             /\ \A v \in Senders : Notify!Announces(v, s)' => Notify!Announces(v, s) /\ v # w
  <2>1. "next" \in Notify!Places \ {"notice"}
    BY DEF Notify!Places
  <2>2. Notify!Go(w, "next") /\ nSub' = nSub /\ nPc[w] = "notice"
    BY <1>7 DEF Notify!LogDisabled
  <2>3. \/ nNotices' = nNotices
        \/ nNotices' = [nNotices EXCEPT ![Notify!SubOf(nRow[w].key)] = @ + 1]
    BY <1>7 DEF Notify!LogDisabled, Notify!BestEffort
  <2>. QED
    BY <1>4, <2>1, <2>2, <2>3
<1>8. \/ UNCHANGED <<nPc, nRow, nNotices, nSub>>
      \/ \E t \in Subs :
            Notify!PreviewCreate(t) \/ Notify!ConfirmCreate(t) \/ Notify!ConfirmDelete(t)
      \/ \E w \in Senders :
            \/ Notify!ClaimDue(w) \/ Notify!LoadSubscription(w) \/ Notify!TickDone(w)
            \/ Notify!Crash(w) \/ Goes(w)
  BY DEF Notify!Next, Notify!Step, Goes, Notify!Enqueue, Notify!Redeliver, Notify!Elapse,
         Notify!Overrun, Notify!subVars, Notify!senderVars
<1>. QED
  BY <1>1, <1>2, <1>3, <1>4, <1>5, <1>6, <1>7, <1>8 DEF Goes

LEMMA OutboxNotices ==
    ASSUME Notify!TypeOK, Notify!HandsAreTidy, Notify!NoticesAreEarned, Notify!Next
    PROVE  Notify!NoticesAreEarned'
<1> SUFFICES ASSUME NEW s \in Subs
    PROVE  /\ nNotices'[s] <= 1
           /\ nSub'[s] \notin {"disabled", "deleted"} =>
                 nNotices'[s] = 0 /\ \A w \in Senders : ~Notify!Announces(w, s)'
           /\ \A w \in Senders : Notify!Announces(w, s)' =>
                 nNotices'[s] = 0 /\ \A v \in Senders : Notify!Announces(v, s)' => v = w
  BY DEF Notify!NoticesAreEarned
<1>1. nNotices[s] \in Nat
  BY DEF Notify!TypeOK
<1>. QED
  BY <1>1, NoticeSteps DEF Notify!NoticesAreEarned

\* The instance counts like the module it takes the operator from.
LEMMA SameCount == \A S : Notify!Cardinality(S) = Cardinality(S)
BY DEF Notify!Cardinality, Cardinality

\* What remains of a finite set when a part of it is gone, and what it may
\* grow to.
LEMMA Removing ==
    ASSUME NEW T, IsFiniteSet(T), NEW A \in SUBSET T, NEW U \in SUBSET (T \ A)
    PROVE  /\ Cardinality(T) \in Nat /\ Cardinality(A) \in Nat /\ Cardinality(U) \in Nat
           /\ Cardinality(U) <= Cardinality(T) - Cardinality(A)
<1>1. IsFiniteSet(A) /\ IsFiniteSet(U) /\ T \cap A = A
  BY FS_Subset
<1>2. /\ IsFiniteSet(T \ A)
      /\ Cardinality(T \ A) = Cardinality(T) - Cardinality(T \cap A)
  BY FS_Difference
<1>3. Cardinality(U) <= Cardinality(T \ A)
  BY <1>2, FS_Subset
<1>4. Cardinality(T) \in Nat /\ Cardinality(A) \in Nat /\ Cardinality(U) \in Nat
  BY <1>1, FS_CardinalityType
<1>. QED
  BY <1>1, <1>2, <1>3, <1>4

LEMMA Adding ==
    ASSUME NEW T, IsFiniteSet(T), NEW A, IsFiniteSet(A), NEW U \in SUBSET (T \cup A)
    PROVE  /\ Cardinality(T) \in Nat /\ Cardinality(A) \in Nat /\ Cardinality(U) \in Nat
           /\ Cardinality(U) <= Cardinality(T) + Cardinality(A)
<1>1. /\ IsFiniteSet(T \cup A) /\ IsFiniteSet(T \cap A)
      /\ Cardinality(T \cup A) = Cardinality(T) + Cardinality(A) - Cardinality(T \cap A)
  BY FS_Union, FS_Intersection
<1>2. IsFiniteSet(U) /\ Cardinality(U) <= Cardinality(T \cup A)
  BY <1>1, FS_Subset
<1>3. /\ Cardinality(T) \in Nat /\ Cardinality(A) \in Nat /\ Cardinality(U) \in Nat
      /\ Cardinality(T \cap A) \in Nat /\ Cardinality(T \cup A) \in Nat
  BY <1>1, <1>2, FS_CardinalityType
<1>. QED
  BY <1>1, <1>2, <1>3

\* The attempts from a on, of one dispatcher.
LEMMA Strip ==
    ASSUME NEW w, NEW a \in Nat, a <= MaxAttempts
    PROVE  /\ IsFiniteSet({w} \X (a .. MaxAttempts - 1))
           /\ Cardinality({w} \X (a .. MaxAttempts - 1)) = MaxAttempts - a
<1>1. /\ IsFiniteSet({w}) /\ Cardinality({w}) = 1
  BY FS_Singleton
<1>2. /\ IsFiniteSet(a .. MaxAttempts - 1)
      /\ Cardinality(a .. MaxAttempts - 1) = MaxAttempts - a
  <2>1. MaxAttempts - 1 \in Int /\ a \in Int /\ MaxAttempts \in Int
    BY OutboxAssumption
  <2>2. /\ IsFiniteSet(a .. MaxAttempts - 1)
        /\ Cardinality(a .. MaxAttempts - 1) =
             IF a > MaxAttempts - 1 THEN 0 ELSE (MaxAttempts - 1) - a + 1
    BY <2>1, FS_Interval
  <2>. QED
    BY <2>1, <2>2
<1>3. /\ IsFiniteSet({w} \X (a .. MaxAttempts - 1))
      /\ Cardinality({w} \X (a .. MaxAttempts - 1)) =
           Cardinality({w}) * Cardinality(a .. MaxAttempts - 1)
  BY <1>1, <1>2, FS_Product
<1>. QED
  BY <1>1, <1>2, <1>3, OutboxAssumption

LEMMA TriesAreFinite ==
    ASSUME NEW k
    PROVE  /\ IsFiniteSet(Notify!Tries(k)) /\ IsFiniteSet(Notify!Tries(k)')
           /\ IsFiniteSet(Notify!Speakers(k)) /\ IsFiniteSet(Notify!Speakers(k)')
<1>1. IsFiniteSet(Senders) /\ IsFiniteSet(0 .. MaxAttempts - 1)
  BY OutboxAssumption, FS_Interval
<1>2. IsFiniteSet(Senders \X (0 .. MaxAttempts - 1))
  BY <1>1, FS_Product
<1>. QED
  BY <1>1, <1>2, FS_Subset DEF Notify!Tries, Notify!Speakers

\* Nothing but a claim adds to what may be sent.
LEMMA TriesShrink ==
    ASSUME Notify!TypeOK, Notify!HandsAreTidy, Notify!Next,
           \A w \in Senders : ~Notify!ClaimDue(w), NEW k \in Notify!Rows
    PROVE  /\ Notify!Tries(k)' \subseteq Notify!Tries(k)
           /\ Notify!Speakers(k)' \subseteq Notify!Speakers(k)
<1>1. ASSUME NEW w \in Senders, NEW c \in Notify!InHand(w)' PROVE c \in Notify!InHand(w)
  BY Holds, <1>1 DEF Notify!InHand
<1>2. ASSUME NEW w \in Senders, Notify!Fails(w, k)'
      PROVE  \/ Notify!Fails(w, k) /\ nRow'[w] = nRow[w]
             \/ nRow[w] \in Notify!InHand(w) /\ nRow[w].key = k /\ nRow'[w] = nRow[w]
  BY <1>2, FailSteps DEF Notify!Fails, Notify!Deliver, Notify!InHand
<1>3. \A w \in Senders : nRow[w].attempt \in Nat
  BY ClaimFields DEF Notify!TypeOK
<1>4. Notify!Speakers(k)' \subseteq Notify!Speakers(k)
  BY <1>1, <1>2 DEF Notify!Speakers
<1>5. ASSUME NEW t \in Notify!Tries(k)' PROVE t \in Notify!Tries(k)
  <2>1. t \in Senders \X (0 .. MaxAttempts - 1)
    BY DEF Notify!Tries
  <2>2. CASE \E c \in Notify!InHand(t[1])' : c.key = k /\ c.attempt <= t[2]
    BY <1>1, <2>1, <2>2 DEF Notify!Tries
  <2>3. CASE Notify!Fails(t[1], k)' /\ nRow'[t[1]].attempt < t[2]
    BY <1>2, <1>3, <2>1, <2>3 DEF Notify!Tries
  <2>. QED
    BY <2>2, <2>3 DEF Notify!Tries
<1>. QED
  BY <1>4, <1>5

\* What a claim adds to it, and what it pays.
LEMMA ClaimAdds ==
    ASSUME Notify!TypeOK, Notify!HandsAreTidy, NEW w \in Senders, Notify!ClaimDue(w),
           NEW k \in Notify!Rows
    PROVE  /\ UNCHANGED <<nPosts, nHeard, nAttempt>>
           /\ \/ /\ Notify!Tries(k)' \subseteq Notify!Tries(k)
                 /\ Notify!Speakers(k)' \subseteq Notify!Speakers(k)
                 /\ nStatus'[k] = nStatus[k] /\ nReclaims'[k] = nReclaims[k]
              \/ /\ k \in Notify!Claimable /\ nStatus'[k] = "delivering"
                 /\ Notify!Tries(k)' \subseteq
                      Notify!Tries(k) \cup ({w} \X (nAttempt[k] .. MaxAttempts - 1))
                 /\ Notify!Speakers(k)' \subseteq Notify!Speakers(k) \cup {w}
                 /\ nReclaims'[k] = IF nStatus[k] = "delivering" THEN nReclaims[k] + 1
                                                                 ELSE nReclaims[k]
<1> USE DEF Notify!TypeOK
<1>1. PICK taken \in SUBSET Notify!Claimable :
        /\ nStatus' = [j \in Notify!Rows |-> IF j \in taken THEN "delivering" ELSE nStatus[j]]
        /\ nBatch' = [nBatch EXCEPT ![w] = {[key |-> j, attempt |-> nAttempt[j]] : j \in taken}]
        /\ nReclaims' = [j \in Notify!Rows |-> IF j \in taken /\ nStatus[j] = "delivering"
                                               THEN nReclaims[j] + 1 ELSE nReclaims[j]]
  BY DEF Notify!ClaimDue
<1>2. /\ nPc[w] = "idle" /\ nPc' = [nPc EXCEPT ![w] = "next"] /\ nRow' = nRow
      /\ UNCHANGED <<nPosts, nHeard, nAttempt>>
  BY DEF Notify!ClaimDue
<1>3. ASSUME NEW v \in Senders, NEW c \in Notify!InHand(v)'
      PROVE  c \in Notify!InHand(v) \/ (v = w /\ c.key \in taken /\ c.attempt = nAttempt[c.key])
  BY <1>1, <1>2, <1>3 DEF Notify!InHand
<1>4. \A v \in Senders : Notify!Fails(v, k)' => Notify!Fails(v, k)
  BY <1>2 DEF Notify!Fails
<1>5. \A v \in Senders : v \in Notify!Speakers(k)' =>
        v \in Notify!Speakers(k) \/ (v = w /\ k \in taken)
  BY <1>3, <1>4 DEF Notify!Speakers
<1>6. ASSUME NEW t \in Notify!Tries(k)'
      PROVE  t \in Notify!Tries(k)
               \/ (k \in taken /\ t \in {w} \X (nAttempt[k] .. MaxAttempts - 1))
  <2>1. t \in Senders \X (0 .. MaxAttempts - 1)
    BY DEF Notify!Tries
  <2>2. CASE \E c \in Notify!InHand(t[1])' : c.key = k /\ c.attempt <= t[2]
    <3>1. PICK c \in Notify!InHand(t[1])' : c.key = k /\ c.attempt <= t[2]
      BY <2>2
    <3>2. CASE c \in Notify!InHand(t[1])
      BY <2>1, <3>1, <3>2 DEF Notify!Tries
    <3>3. CASE t[1] = w /\ k \in taken /\ c.attempt = nAttempt[k]
      <4>1. t[2] \in nAttempt[k] .. MaxAttempts - 1
        BY <2>1, <3>1, <3>3, OutboxAssumption
      <4>. QED
        BY <2>1, <3>3, <4>1
    <3>. QED
      BY <1>3, <2>1, <3>1, <3>2, <3>3
  <2>3. CASE Notify!Fails(t[1], k)' /\ nRow'[t[1]].attempt < t[2]
    BY <1>2, <1>4, <2>1, <2>3 DEF Notify!Tries
  <2>. QED
    BY <2>2, <2>3 DEF Notify!Tries
<1>7. Notify!Speakers(k)' \subseteq Senders
  BY DEF Notify!Speakers
<1>8. CASE k \in taken
  BY <1>1, <1>2, <1>5, <1>6, <1>7, <1>8
<1>9. CASE k \notin taken
  BY <1>1, <1>2, <1>5, <1>6, <1>7, <1>9
<1>. QED
  BY <1>8, <1>9

\* A POST is one of those that might be sent, and one that is heard ends them.
LEMMA PostSpends ==
    ASSUME Notify!TypeOK, Notify!HandsAreTidy, Notify!AttemptsAreLow,
           NEW w \in Senders, Notify!Deliver(w), NEW k \in Notify!Rows, nRow[w].key = k
    PROVE  /\ UNCHANGED <<nStatus, nAttempt, nReclaims>>
           /\ <<w, nRow[w].attempt>> \in Notify!Tries(k)
           /\ <<w, nRow[w].attempt>> \notin Notify!Tries(k)'
           /\ w \in Notify!Speakers(k)
           /\ nPosts' = [nPosts EXCEPT ![k] = @ + 1]
           /\ \/ nHeard' = nHeard
              \/ nHeard' = [nHeard EXCEPT ![k] = @ + 1] /\ w \notin Notify!Speakers(k)'
<1> DEFINE a == nRow[w].attempt
<1>1. /\ nPc[w] = "post" /\ nRow[w] \in Notify!Claims
      /\ nRow[w] \in Notify!InHand(w) /\ a \in Nat /\ a < MaxAttempts
  BY ClaimFields DEF Notify!Deliver, Notify!InHand, Notify!HandsAreTidy, Notify!AttemptsAreLow
<1>2. PICK place \in {"succeed", "drop", "fail"} : Notify!Go(w, place)
  BY DEF Notify!Deliver
<1>3. /\ nPc'[w] = place /\ nRow' = nRow /\ nBatch' = nBatch
  BY <1>2 DEF Notify!Go, Notify!TypeOK
<1>4. Notify!InHand(w)' = nBatch[w]
  BY <1>3 DEF Notify!InHand
<1>5. \A c \in nBatch[w] : c.key # k
  BY DEF Notify!HandsAreTidy
<1>6. <<w, a>> \in Notify!Tries(k)
  <2>1. a \in 0 .. MaxAttempts - 1
    BY <1>1, OutboxAssumption
  <2>2. a <= a
    BY <1>1
  <2>. QED
    BY <1>1, <2>1, <2>2 DEF Notify!Tries
<1>7. <<w, a>> \notin Notify!Tries(k)'
  <2>1. ~(a < a)
    BY <1>1
  <2>. QED
    BY <1>3, <1>4, <1>5, <2>1 DEF Notify!Tries
<1>8. w \in Notify!Speakers(k)
  BY <1>1 DEF Notify!Speakers
<1>9. \/ nHeard' = nHeard
      \/ nHeard' = [nHeard EXCEPT ![k] = @ + 1] /\ w \notin Notify!Speakers(k)'
  <2>1. CASE Notify!Go(w, "succeed")
    <3>1. nPc'[w] = "succeed"
      BY <2>1 DEF Notify!Go, Notify!TypeOK
    <3>2. w \notin Notify!Speakers(k)'
      BY <1>4, <1>5, <3>1 DEF Notify!Speakers, Notify!Fails
    <3>. QED
      BY <3>2 DEF Notify!Deliver
  <2>. QED
    BY <2>1 DEF Notify!Deliver
<1>. QED
  BY <1>1, <1>6, <1>7, <1>8, <1>9 DEF Notify!Deliver, Notify!rowVars

\* A failure that is written back hands the attempts that are left to the row.
LEMMA FailHandsBack ==
    ASSUME Notify!TypeOK, Notify!HandsAreTidy, Notify!AttemptsAreLow,
           NEW w \in Senders, Notify!MarkFailed(w), NEW k \in Notify!Rows, nRow[w].key = k
    PROVE  LET left == {w} \X (nRow[w].attempt + 1 .. MaxAttempts - 1)
           IN  /\ nRow[w].attempt \in Nat /\ nRow[w].attempt + 1 < MaxAttempts
               /\ left \subseteq Notify!Tries(k) /\ left \cap Notify!Tries(k)' = {}
               /\ w \in Notify!Speakers(k) /\ w \notin Notify!Speakers(k)'
<1> DEFINE a == nRow[w].attempt
<1>1. /\ nPc[w] = "fail" /\ nRow[w] \in Notify!Claims
      /\ a \in Nat /\ a + 1 < MaxAttempts
  BY ClaimFields DEF Notify!MarkFailed, Notify!HandsAreTidy, Notify!AttemptsAreLow
<1>2. /\ nPc'[w] = "bump" /\ nRow' = nRow /\ nBatch' = nBatch
  BY DEF Notify!MarkFailed, Notify!Go, Notify!TypeOK
<1>3. Notify!InHand(w)' = nBatch[w]
  BY <1>2 DEF Notify!InHand
<1>4. \A c \in nBatch[w] : c.key # k
  BY DEF Notify!HandsAreTidy
<1>5. ASSUME NEW i \in a + 1 .. MaxAttempts - 1
      PROVE  <<w, i>> \in Notify!Tries(k) /\ <<w, i>> \notin Notify!Tries(k)'
  <2>1. i \in 0 .. MaxAttempts - 1 /\ a < i
    BY <1>1, OutboxAssumption
  <2>2. <<w, i>> \in Notify!Tries(k)
    BY <1>1, <2>1 DEF Notify!Tries, Notify!Fails
  <2>3. <<w, i>> \notin Notify!Tries(k)'
    BY <1>2, <1>3, <1>4 DEF Notify!Tries, Notify!Fails
  <2>. QED
    BY <2>2, <2>3
<1>6. w \in Notify!Speakers(k) /\ w \notin Notify!Speakers(k)'
  BY <1>1, <1>2, <1>3, <1>4 DEF Notify!Speakers, Notify!Fails
<1>. QED
  BY <1>1, <1>5, <1>6

\* One claim more pays for one round of attempts more.
LEMMA Budget ==
    ASSUME NEW r \in Nat
    PROVE  /\ MaxAttempts * (1 + r) \in Nat /\ MaxAttempts <= MaxAttempts * (1 + r)
           /\ MaxAttempts * (1 + (r + 1)) = MaxAttempts * (1 + r) + MaxAttempts
<1>1. MaxAttempts \in Nat
  BY OutboxAssumption
<1>2. MaxAttempts * (1 + r) = MaxAttempts + MaxAttempts * r /\ MaxAttempts * r \in Nat
  BY <1>1
<1>3. MaxAttempts * (1 + (r + 1)) = MaxAttempts * (1 + r) + MaxAttempts
  BY <1>1
<1>. QED
  BY <1>1, <1>2, <1>3

\* What the steps do to the counters of a row.
LEMMA CountSteps ==
    ASSUME Notify!TypeOK, Notify!HandsAreTidy, Notify!Next, NEW k \in Notify!Rows,
           \A w \in Senders : ~Notify!ClaimDue(w),
           \A w \in Senders : ~(Notify!Deliver(w) /\ nRow[w].key = k)
    PROVE  /\ nPosts'[k] = nPosts[k] /\ nHeard'[k] = nHeard[k]
           /\ nReclaims'[k] = nReclaims[k]
<1>1. ASSUME NEW w \in Senders, Notify!Deliver(w)
      PROVE  /\ nPosts'[k] = nPosts[k] /\ nHeard'[k] = nHeard[k] /\ nReclaims' = nReclaims
  BY <1>1 DEF Notify!Deliver, Notify!TypeOK
<1>2. UNCHANGED <<nPosts, nHeard, nReclaims>> \/ \E w \in Senders : Notify!Deliver(w)
  BY DEF Notify!Next, Notify!Step, Notify!PreviewCreate, Notify!ConfirmCreate, Notify!Enqueue,
         Notify!Redeliver, Notify!ConfirmDelete, Notify!Elapse, Notify!Overrun,
         Notify!LoadSubscription, Notify!TickDone, Notify!ResetFailures,
         Notify!BumpFailure, Notify!MaybeBreak, Notify!LogDisabled, Notify!Crash,
         Notify!MarkSucceeded, Notify!MarkDropped, Notify!MarkFailed, Notify!countVars
<1>. QED
  BY <1>1, <1>2

LEMMA OutboxTries ==
    ASSUME Notify!IInv, Notify!Next, Notify!TypeOK'
    PROVE  Notify!TriesArePaid'
<1> USE DEF Notify!IInv
<1> SUFFICES ASSUME NEW k \in Notify!Rows
             PROVE  nPosts'[k] + Notify!TriesOfRow(k)' + Cardinality(Notify!Tries(k)')
                      <= MaxAttempts * (1 + nReclaims'[k])
  BY SameCount DEF Notify!TriesArePaid
<1> DEFINE M == MaxAttempts
           Budgeted == M * (1 + nReclaims[k])
           T == Cardinality(Notify!Tries(k))
           U == Cardinality(Notify!Tries(k)')
           R == Notify!TriesOfRow(k)
           V == Notify!TriesOfRow(k)'
<1>1. nPosts[k] + R + T <= Budgeted
  BY SameCount DEF Notify!TriesArePaid
<1>2. /\ nPosts[k] \in Nat /\ nReclaims[k] \in Nat /\ nAttempt[k] \in Nat
      /\ nAttempt'[k] \in Nat /\ nReclaims'[k] \in Nat /\ nPosts'[k] \in Nat
      /\ T \in Nat /\ U \in Nat /\ M \in Nat \ {0}
      /\ IsFiniteSet(Notify!Tries(k)) /\ IsFiniteSet(Notify!Tries(k)')
      /\ Budgeted \in Nat /\ M <= Budgeted
      /\ M * (1 + (nReclaims[k] + 1)) = Budgeted + M
  <2>1. /\ IsFiniteSet(Notify!Tries(k)) /\ IsFiniteSet(Notify!Tries(k)')
    BY TriesAreFinite
  <2>2. T \in Nat /\ U \in Nat
    BY <2>1, FS_CardinalityType
  <2>3. /\ nPosts[k] \in Nat /\ nReclaims[k] \in Nat /\ nAttempt[k] \in Nat
        /\ nAttempt'[k] \in Nat /\ nReclaims'[k] \in Nat /\ nPosts'[k] \in Nat
    BY DEF Notify!TypeOK
  <2>. QED
    BY <2>1, <2>2, <2>3, Budget, OutboxAssumption
<1>3. R \in Nat
  BY <1>2 DEF Notify!TriesOfRow, Notify!AttemptsAreLow, Notify!Finished
<1> HIDE DEF T, U, R, V, Budgeted, M
<1>4. ASSUME NEW w \in Senders, Notify!ClaimDue(w)
      PROVE  nPosts'[k] + V + U <= M * (1 + nReclaims'[k])
  <2>1. nPosts'[k] = nPosts[k] /\ nAttempt'[k] = nAttempt[k]
    BY <1>4, ClaimAdds
  <2>2. CASE /\ Notify!Tries(k)' \subseteq Notify!Tries(k)
             /\ nStatus'[k] = nStatus[k] /\ nReclaims'[k] = nReclaims[k]
    <3>1. U <= T
      BY <1>2, <2>2, FS_Subset DEF T, U
    <3>2. V = R
      BY <2>1, <2>2 DEF V, R, Notify!TriesOfRow
    <3>. QED
      BY <1>1, <1>2, <1>3, <2>1, <2>2, <3>1, <3>2 DEF Budgeted
  <2>3. CASE /\ k \in Notify!Claimable /\ nStatus'[k] = "delivering"
             /\ Notify!Tries(k)' \subseteq
                  Notify!Tries(k) \cup ({w} \X (nAttempt[k] .. MaxAttempts - 1))
             /\ nReclaims'[k] = IF nStatus[k] = "delivering" THEN nReclaims[k] + 1
                                                             ELSE nReclaims[k]
    <3>1. nAttempt[k] < M
      BY <2>3 DEF M, Notify!AttemptsAreLow, Notify!Claimable, Notify!Finished
    <3>2. /\ IsFiniteSet({w} \X (nAttempt[k] .. MaxAttempts - 1))
          /\ Cardinality({w} \X (nAttempt[k] .. MaxAttempts - 1)) = M - nAttempt[k]
      <4>1. nAttempt[k] \in Nat /\ nAttempt[k] <= MaxAttempts
        BY <1>2, <3>1, OutboxAssumption DEF M
      <4>. QED
        BY <4>1, Strip DEF M
    <3>3. U <= T + (M - nAttempt[k])
      BY <1>2, <2>3, <3>2, Adding DEF T, U
    <3>4. V = 0
      BY <2>3 DEF V, Notify!TriesOfRow
    <3>5. CASE nStatus[k] = "delivering"
      <4>1. R = 0 /\ nReclaims'[k] = nReclaims[k] + 1
        BY <2>3, <3>5 DEF R, Notify!TriesOfRow
      <4>. QED
        BY <1>1, <1>2, <2>1, <3>1, <3>3, <3>4, <4>1
    <3>6. CASE nStatus[k] # "delivering"
      <4>1. R = M - nAttempt[k] /\ nReclaims'[k] = nReclaims[k]
        BY <2>3, <3>6 DEF R, M, Notify!TriesOfRow, Notify!Claimable
      <4>. QED
        BY <1>1, <1>2, <2>1, <3>1, <3>3, <3>4, <4>1 DEF Budgeted
    <3>. QED
      BY <3>5, <3>6
  <2>. QED
    BY <1>4, <2>2, <2>3, ClaimAdds
<1>5. ASSUME NEW w \in Senders, Notify!Deliver(w), nRow[w].key = k,
             \A v \in Senders : ~Notify!ClaimDue(v)
      PROVE  nPosts'[k] + V + U <= M * (1 + nReclaims'[k])
  <2>1. /\ UNCHANGED <<nStatus, nAttempt, nReclaims>>
        /\ <<w, nRow[w].attempt>> \in Notify!Tries(k)
        /\ <<w, nRow[w].attempt>> \notin Notify!Tries(k)'
        /\ nPosts'[k] = nPosts[k] + 1
    BY <1>5, PostSpends DEF Notify!TypeOK
  <2>2. V = R
    BY <2>1 DEF V, R, Notify!TriesOfRow
  <2>3. Notify!Tries(k)' \subseteq Notify!Tries(k)
    BY <1>5, TriesShrink
  <2>4. U <= T - 1
    <3>1. /\ {<<w, nRow[w].attempt>>} \in SUBSET Notify!Tries(k)
          /\ Notify!Tries(k)' \in SUBSET (Notify!Tries(k) \ {<<w, nRow[w].attempt>>})
      BY <2>1, <2>3
    <3>2. Cardinality({<<w, nRow[w].attempt>>}) = 1
      BY FS_Singleton
    <3>. QED
      BY <1>2, <3>1, <3>2, Removing DEF T, U
  <2>. QED
    BY <1>1, <1>2, <1>3, <2>1, <2>2, <2>4 DEF Budgeted
<1>6. ASSUME \A w \in Senders : ~Notify!ClaimDue(w),
             \A w \in Senders : ~(Notify!Deliver(w) /\ nRow[w].key = k)
      PROVE  nPosts'[k] + V + U <= M * (1 + nReclaims'[k])
  <2>1. nPosts'[k] = nPosts[k] /\ nReclaims'[k] = nReclaims[k]
    BY <1>6, CountSteps
  <2>2. Notify!Tries(k)' \subseteq Notify!Tries(k)
    BY <1>6, TriesShrink
  <2>3. U <= T
    BY <1>2, <2>2, FS_Subset DEF T, U
  <2>4. CASE V = R \/ V = 0
    BY <1>1, <1>2, <1>3, <2>1, <2>3, <2>4 DEF Budgeted
  <2>5. CASE nStatus[k] = "absent" /\ nStatus'[k] = "pending" /\ nAttempt'[k] = nAttempt[k]
    <3>1. Notify!Tries(k) = {}
      BY <2>5, ClaimFields DEF Notify!Tries, Notify!InHand, Notify!Fails,
         Notify!AbsentIsFresh, Notify!HandsAreTidy
    <3>2. T = 0 /\ nPosts[k] = 0 /\ V = M - nAttempt[k]
      BY <2>5, <3>1, FS_EmptySet DEF T, V, M, Notify!AbsentIsFresh, Notify!TriesOfRow
    <3>. QED
      BY <1>2, <2>1, <2>3, <3>2 DEF Budgeted
  <2>6. ASSUME NEW w \in Senders, Notify!MarkFailed(w), nRow[w].key = k,
               nStatus'[k] = "failed", nAttempt'[k] = nRow[w].attempt + 1
        PROVE  nPosts'[k] + V + U <= M * (1 + nReclaims'[k])
    <3> DEFINE a == nRow[w].attempt
               left == {w} \X (a + 1 .. MaxAttempts - 1)
    <3>1. /\ a \in Nat /\ a + 1 < MaxAttempts
          /\ left \in SUBSET Notify!Tries(k)
          /\ Notify!Tries(k)' \in SUBSET (Notify!Tries(k) \ left)
      BY <2>2, <2>6, FailHandsBack
    <3>2. Cardinality(left) = M - (a + 1)
      <4>1. a + 1 \in Nat /\ a + 1 <= MaxAttempts
        BY <3>1, OutboxAssumption
      <4> HIDE DEF a
      <4>. QED
        BY <4>1, Strip DEF M
    <3>3. U <= T - (M - (a + 1))
      BY <1>2, <3>1, <3>2, Removing DEF T, U
    <3>4. V = M - (a + 1)
      BY <2>6 DEF V, M, Notify!TriesOfRow
    <3>. QED
      BY <1>1, <1>2, <1>3, <2>1, <3>1, <3>3, <3>4 DEF Budgeted
  <2>7. CASE nStatus'[k] = nStatus[k] /\ nAttempt'[k] = nAttempt[k]
    BY <2>4, <2>7 DEF V, R, Notify!TriesOfRow
  <2>8. CASE nStatus'[k] \in Notify!Finished \cup {"delivering"}
    BY <2>4, <2>8 DEF V, Notify!TriesOfRow, Notify!Finished
  <2>. QED
    BY <2>5, <2>6, <2>7, <2>8, RowSteps
<1>. QED
  BY <1>4, <1>5, <1>6 DEF M, U, V

LEMMA OutboxAnswers ==
    ASSUME Notify!IInv, Notify!Next, Notify!TypeOK'
    PROVE  Notify!AnswersArePaid'
<1> USE DEF Notify!IInv
<1> SUFFICES ASSUME NEW k \in Notify!Rows
             PROVE  nHeard'[k] + (IF nStatus'[k] \in {"pending", "failed"} THEN 1 ELSE 0)
                      + Cardinality(Notify!Speakers(k)') <= 1 + nReclaims'[k]
  BY SameCount DEF Notify!AnswersArePaid
<1> DEFINE S == Cardinality(Notify!Speakers(k))
           U == Cardinality(Notify!Speakers(k)')
           R == IF nStatus[k] \in {"pending", "failed"} THEN 1 ELSE 0
           V == IF nStatus'[k] \in {"pending", "failed"} THEN 1 ELSE 0
<1>1. nHeard[k] + R + S <= 1 + nReclaims[k]
  BY SameCount DEF Notify!AnswersArePaid
<1>2. /\ nHeard[k] \in Nat /\ nReclaims[k] \in Nat /\ nHeard'[k] \in Nat /\ nReclaims'[k] \in Nat
      /\ S \in Nat /\ U \in Nat
      /\ IsFiniteSet(Notify!Speakers(k)) /\ IsFiniteSet(Notify!Speakers(k)')
      /\ R \in {0, 1} /\ V \in {0, 1}
  <2>1. IsFiniteSet(Notify!Speakers(k)) /\ IsFiniteSet(Notify!Speakers(k)')
    BY TriesAreFinite
  <2>2. S \in Nat /\ U \in Nat
    BY <2>1, FS_CardinalityType
  <2>. QED
    BY <2>1, <2>2 DEF Notify!TypeOK
<1> HIDE DEF S, U, R, V
<1>3. ASSUME NEW w \in Senders, Notify!ClaimDue(w)
      PROVE  nHeard'[k] + V + U <= 1 + nReclaims'[k]
  <2>1. nHeard'[k] = nHeard[k]
    BY <1>3, ClaimAdds
  <2>2. CASE /\ Notify!Speakers(k)' \subseteq Notify!Speakers(k)
             /\ nStatus'[k] = nStatus[k] /\ nReclaims'[k] = nReclaims[k]
    <3>1. U <= S
      BY <1>2, <2>2, FS_Subset DEF S, U
    <3>2. V = R
      BY <2>2 DEF V, R
    <3>. QED
      BY <1>1, <1>2, <2>1, <2>2, <3>1, <3>2
  <2>3. CASE /\ k \in Notify!Claimable /\ nStatus'[k] = "delivering"
             /\ Notify!Speakers(k)' \subseteq Notify!Speakers(k) \cup {w}
             /\ nReclaims'[k] = IF nStatus[k] = "delivering" THEN nReclaims[k] + 1
                                                             ELSE nReclaims[k]
    <3>1. IsFiniteSet({w}) /\ Cardinality({w}) = 1
      BY FS_Singleton
    <3>2. U <= S + 1
      BY <1>2, <2>3, <3>1, Adding DEF S, U
    <3>3. V = 0
      BY <2>3 DEF V
    <3>4. \/ R = 0 /\ nReclaims'[k] = nReclaims[k] + 1
          \/ R = 1 /\ nReclaims'[k] = nReclaims[k]
      BY <2>3 DEF R, Notify!Claimable
    <3>. QED
      BY <1>1, <1>2, <2>1, <3>2, <3>3, <3>4
  <2>. QED
    BY <1>3, <2>2, <2>3, ClaimAdds
<1>4. ASSUME \A w \in Senders : ~Notify!ClaimDue(w)
      PROVE  Notify!Speakers(k)' \subseteq Notify!Speakers(k) /\ U <= S
  <2>1. Notify!Speakers(k)' \subseteq Notify!Speakers(k)
    BY <1>4, TriesShrink
  <2>. QED
    BY <1>2, <2>1, FS_Subset DEF S, U
<1>5. ASSUME NEW w \in Senders, w \in Notify!Speakers(k), w \notin Notify!Speakers(k)',
             \A v \in Senders : ~Notify!ClaimDue(v)
      PROVE  U <= S - 1
  <2>1. /\ {w} \in SUBSET Notify!Speakers(k)
        /\ Notify!Speakers(k)' \in SUBSET (Notify!Speakers(k) \ {w})
    BY <1>4, <1>5
  <2>2. Cardinality({w}) = 1
    BY FS_Singleton
  <2>. QED
    BY <1>2, <2>1, <2>2, Removing DEF S, U
<1>6. ASSUME NEW w \in Senders, Notify!Deliver(w), nRow[w].key = k,
             \A v \in Senders : ~Notify!ClaimDue(v)
      PROVE  nHeard'[k] + V + U <= 1 + nReclaims'[k]
  <2>1. /\ UNCHANGED <<nStatus, nReclaims>>
        /\ w \in Notify!Speakers(k)
        /\ \/ nHeard' = nHeard
           \/ nHeard' = [nHeard EXCEPT ![k] = @ + 1] /\ w \notin Notify!Speakers(k)'
    BY <1>6, PostSpends
  <2>2. V = R
    BY <2>1 DEF V, R
  <2>3. CASE nHeard' = nHeard
    BY <1>1, <1>2, <1>4, <1>6, <2>1, <2>2, <2>3
  <2>4. CASE nHeard' = [nHeard EXCEPT ![k] = @ + 1] /\ w \notin Notify!Speakers(k)'
    <3>1. nHeard'[k] = nHeard[k] + 1
      BY <2>4 DEF Notify!TypeOK
    <3>2. U <= S - 1
      BY <1>5, <1>6, <2>1, <2>4
    <3>. QED
      BY <1>1, <1>2, <2>1, <2>2, <3>1, <3>2
  <2>. QED
    BY <2>1, <2>3, <2>4
<1>7. ASSUME \A w \in Senders : ~Notify!ClaimDue(w),
             \A w \in Senders : ~(Notify!Deliver(w) /\ nRow[w].key = k)
      PROVE  nHeard'[k] + V + U <= 1 + nReclaims'[k]
  <2>1. nHeard'[k] = nHeard[k] /\ nReclaims'[k] = nReclaims[k]
    BY <1>7, CountSteps
  <2>2. U <= S
    BY <1>4, <1>7
  <2>3. CASE V = R \/ V = 0
    BY <1>1, <1>2, <2>1, <2>2, <2>3
  <2>4. CASE nStatus[k] = "absent"
    <3>1. Notify!Speakers(k) = {}
      BY <2>4, ClaimFields DEF Notify!Speakers, Notify!InHand, Notify!Fails,
         Notify!AbsentIsFresh, Notify!HandsAreTidy
    <3>2. S = 0 /\ nHeard[k] = 0
      BY <2>4, <3>1, FS_EmptySet DEF S, Notify!AbsentIsFresh
    <3>. QED
      BY <1>2, <2>1, <2>2, <3>2
  <2>5. ASSUME NEW w \in Senders, Notify!MarkFailed(w), nRow[w].key = k
        PROVE  nHeard'[k] + V + U <= 1 + nReclaims'[k]
    <3>1. w \in Notify!Speakers(k) /\ w \notin Notify!Speakers(k)'
      BY <2>5, FailHandsBack
    <3>2. U <= S - 1
      BY <1>5, <1>7, <3>1
    <3>. QED
      BY <1>1, <1>2, <2>1, <3>2
  <2>6. CASE nStatus'[k] = nStatus[k]
    BY <2>3, <2>6 DEF V, R
  <2>7. CASE nStatus'[k] \in Notify!Finished \cup {"delivering"}
    BY <2>3, <2>7 DEF V, Notify!Finished
  <2>. QED
    BY <2>4, <2>5, <2>6, <2>7, RowSteps
<1>. QED
  BY <1>3, <1>6, <1>7 DEF U, V

LEMMA OutboxInvInit == Notify!Init => Notify!IInv
<1> SUFFICES ASSUME Notify!Init PROVE Notify!IInv
  OBVIOUS
<1>1. Notify!TypeOK
  BY OutboxInit
<1>2. \A w \in Senders : nPc[w] = "idle" /\ nBatch[w] = {} /\ nRow[w] = Notify!NoClaim
  BY DEF Notify!Init
<1>3. /\ Notify!HandsAreTidy /\ Notify!NoticesAreEarned
  BY <1>2 DEF Notify!Init, Notify!HandsAreTidy, Notify!NoticesAreEarned, Notify!Announces
<1>4. Notify!AttemptsAreLow /\ Notify!AbsentIsFresh
  BY <1>2, OutboxAssumption DEF Notify!Init, Notify!AttemptsAreLow, Notify!AbsentIsFresh, Notify!InHand
<1>5. ASSUME NEW k \in Notify!Rows
      PROVE  /\ Notify!Tries(k) = {} /\ Notify!Speakers(k) = {}
             /\ nPosts[k] = 0 /\ nHeard[k] = 0 /\ nReclaims[k] = 0 /\ nStatus[k] = "absent"
  BY <1>2 DEF Notify!Init, Notify!Tries, Notify!Speakers, Notify!InHand, Notify!Fails
<1>6. Notify!TriesArePaid /\ Notify!AnswersArePaid
  BY <1>5, SameCount, FS_EmptySet, OutboxAssumption
     DEF Notify!TriesArePaid, Notify!AnswersArePaid, Notify!TriesOfRow
<1>. QED
  BY <1>1, <1>3, <1>4, <1>6 DEF Notify!IInv

LEMMA OutboxStutters ==
    ASSUME Notify!IInv, UNCHANGED nVars
    PROVE  Notify!IInv'
BY DEF nVars, Notify!IInv, Notify!TypeOK, Notify!HandsAreTidy, Notify!AttemptsAreLow,
       Notify!AbsentIsFresh, Notify!TriesArePaid, Notify!AnswersArePaid,
       Notify!NoticesAreEarned, Notify!InHand, Notify!Fails, Notify!Tries, Notify!TriesOfRow,
       Notify!Speakers, Notify!Announces

LEMMA OutboxPreserves == Notify!IInv /\ [LoopsNext]_LoopsVars => Notify!IInv'
<1>1. ASSUME Notify!IInv, Notify!Next PROVE Notify!IInv'
  <2>1. Notify!TypeOK' /\ Notify!HandsAreTidy'
    BY <1>1, OutboxTypes, OutboxHands DEF Notify!IInv
  <2>2. Notify!AttemptsAreLow' /\ Notify!AbsentIsFresh' /\ Notify!NoticesAreEarned'
    BY <1>1, OutboxAttempts, OutboxFresh, OutboxNotices DEF Notify!IInv
  <2>3. Notify!TriesArePaid' /\ Notify!AnswersArePaid'
    BY <1>1, <2>1, OutboxTries, OutboxAnswers
  <2>. QED
    BY <2>1, <2>2, <2>3 DEF Notify!IInv
<1>2. ASSUME [LoopsNext]_LoopsVars PROVE Notify!Next \/ UNCHANGED nVars
  BY <1>2 DEF LoopsNext, LoopsVars, ElectionMoves, OutboxMoves, LedgerMoves, nVars
<1>. QED
  BY <1>1, <1>2, OutboxStutters

THEOREM OutboxInvariant == LoopsSpec => []Notify!IInv
<1>1. LoopsInit => Notify!IInv
  BY OutboxInvInit DEF LoopsInit
<1>. QED
  BY <1>1, OutboxPreserves, PTL DEF LoopsSpec

\* However the senders, crashes, lost updates and overrun leases interleave, a
\* delivery is POSTed within one budget of attempts, and acknowledged once, for
\* its first claim and each claim that took it over (Deliver, ClaimDue).
THEOREM SendsBounded == LoopsSpec => []SendsAreBounded
<1>1. ASSUME Notify!IInv, NEW k \in Notify!Rows
      PROVE  /\ nPosts[k] <= MaxAttempts * (1 + nReclaims[k])
             /\ nHeard[k] <= 1 + nReclaims[k]
  <2>1. /\ nPosts[k] \in Nat /\ nHeard[k] \in Nat /\ nReclaims[k] \in Nat
        /\ MaxAttempts * (1 + nReclaims[k]) \in Nat
    BY <1>1, Budget DEF Notify!IInv, Notify!TypeOK
  <2>2. /\ Cardinality(Notify!Tries(k)) \in Nat /\ Cardinality(Notify!Speakers(k)) \in Nat
    BY TriesAreFinite, FS_CardinalityType
  <2>3. Notify!TriesOfRow(k) \in Nat
    BY <1>1, OutboxAssumption DEF Notify!IInv, Notify!TypeOK, Notify!TriesOfRow, Notify!AttemptsAreLow,
       Notify!Finished
  <2>4. /\ nPosts[k] + Notify!TriesOfRow(k) + Cardinality(Notify!Tries(k))
             <= MaxAttempts * (1 + nReclaims[k])
        /\ nHeard[k] + (IF nStatus[k] \in {"pending", "failed"} THEN 1 ELSE 0)
             + Cardinality(Notify!Speakers(k)) <= 1 + nReclaims[k]
    BY <1>1, SameCount DEF Notify!IInv, Notify!TriesArePaid, Notify!AnswersArePaid
  <2>. QED
    BY <2>1, <2>2, <2>3, <2>4
<1>2. Notify!IInv => SendsAreBounded
  BY <1>1 DEF SendsAreBounded, Notify!SendsAreBounded
<1>. QED
  BY <1>2, OutboxInvariant, PTL

\* The dispatchers that push a subscription over the threshold at once disable
\* it, and say so in the audit log, once (MaybeBreak, LogDisabled).
THEOREM OneNotice == LoopsSpec => []OneDisableNotice
<1>1. Notify!IInv => OneDisableNotice
  BY DEF Notify!IInv, Notify!TypeOK, Notify!NoticesAreEarned, OneDisableNotice,
         Notify!OneDisableNotice
<1>. QED
  BY <1>1, OutboxInvariant, PTL

-----------------------------------------------------------------------------
(* The usage ledger.                                                         *)

\* There is one row, or none yet, for each pod and for nothing else.
OneRowPerPod == uInterval = [p \in Pods |-> uInterval[p]]

\* A pass plans to open rows, and to reopen those it finds.
PlansAreKnown ==
    /\ uPass = [at |-> uPass.at, pods |-> uPass.pods, opens |-> uPass.opens,
                closes |-> uPass.closes, touches |-> uPass.touches]
    /\ \A o \in uPass.opens : o[2] \in {"open", "reopen"}

LEMMA LedgerPlans ==
    ASSUME PlansAreKnown, Ledger!Next
    PROVE  PlansAreKnown'
<1>1. CASE UNCHANGED uPass
  BY <1>1 DEF PlansAreKnown
<1>2. CASE uPass' = Ledger!NoPass
  BY <1>2 DEF PlansAreKnown, Ledger!NoPass
<1>3. CASE Ledger!ListManagedPods
  BY <1>3 DEF PlansAreKnown, Ledger!NoPass, Ledger!ListManagedPods
<1>4. CASE Ledger!Reconcile
  <2>1. \/ uPass' = Ledger!NoPass
        \/ \E listed, closes, touches :
             uPass' = [at |-> "apply", pods |-> Ledger!NoPods,
                       opens |-> {<<p, "open">> : p \in listed},
                       closes |-> closes, touches |-> touches]
    BY <1>4 DEF Ledger!Reconcile
  <2>2. ASSUME NEW listed, NEW closes, NEW touches,
               uPass' = [at |-> "apply", pods |-> Ledger!NoPods,
                         opens |-> {<<p, "open">> : p \in listed},
                         closes |-> closes, touches |-> touches]
        PROVE  PlansAreKnown'
    BY <2>2 DEF PlansAreKnown
  <2>. QED
    BY <1>2, <2>1, <2>2
<1>5. CASE Ledger!ApplyOpen
  <2>1. PICK o \in uPass.opens :
          uPass' = [uPass EXCEPT !.opens = (@ \ {o}) \cup
            IF o[2] = "open" /\ ~(uInterval[o[1]].state = "absent")
            THEN {<<o[1], "reopen">>} ELSE {}]
    BY <1>5 DEF Ledger!ApplyOpen
  <2> DEFINE more == IF o[2] = "open" /\ ~(uInterval[o[1]].state = "absent")
                     THEN {<<o[1], "reopen">>} ELSE {}
  <2>2. \A q \in more : q[2] = "reopen"
    OBVIOUS
  <2> HIDE DEF more
  <2>3. uPass' = [uPass EXCEPT !.opens = (@ \ {o}) \cup more]
    BY <2>1 DEF more
  <2>. QED
    BY <2>2, <2>3 DEF PlansAreKnown
<1>6. CASE Ledger!ApplyClose
  BY <1>6 DEF PlansAreKnown, Ledger!ApplyClose
<1>. QED
  BY <1>1, <1>2, <1>3, <1>4, <1>5, <1>6
     DEF Ledger!Next, Ledger!WatchStep, Ledger!PassStep, Ledger!RollupStep, Ledger!Tick,
         Ledger!PodStarts, Ledger!DeletionRequested, Ledger!Terminates, Ledger!Removed,
         Ledger!Version, Ledger!Deliver, Ledger!WatchOpen, Ledger!WatchReopen,
         Ledger!WatchClose, Ledger!ApplyTouches, Ledger!ListPendingRollupDays,
         Ledger!RollupForDay, Ledger!UpsertDailyRollup, Ledger!ExpireIntervals,
         Ledger!WatchFails, Ledger!WatchGap, Ledger!PassFails, Ledger!RollFails, Ledger!Crash

\* What a step may do to the row of one pod.
LEMMA LedgerSteps ==
    ASSUME OneRowPerPod, PlansAreKnown, Ledger!Next
    PROVE  /\ OneRowPerPod'
           /\ \A p \in Pods : uInterval[p].state = "closed" =>
                 \/ uInterval'[p] = uInterval[p]
                 \/ uInterval'[p].state = "absent" /\ Ledger!Expired(p)
<1> USE DEF OneRowPerPod
<1> DEFINE Kept == \A p \in Pods : uInterval[p].state = "closed" =>
                     \/ uInterval'[p] = uInterval[p]
                     \/ uInterval'[p].state = "absent" /\ Ledger!Expired(p)
<1>1. CASE UNCHANGED uInterval
  BY <1>1
<1>2. ASSUME NEW q, Ledger!OpenAllocationInterval(q) PROVE OneRowPerPod' /\ Kept
  BY <1>2 DEF Ledger!OpenAllocationInterval
<1>3. ASSUME NEW q, Ledger!ReopenGuessedInterval(q) PROVE OneRowPerPod' /\ Kept
  <2>1. CASE uInterval[q].state = "guessed"
    BY <1>3, <2>1 DEF Ledger!ReopenGuessedInterval
  <2>. QED
    BY <1>1, <1>3, <2>1 DEF Ledger!ReopenGuessedInterval
<1>4. ASSUME NEW q, NEW end, NEW state, Ledger!CloseAllocationInterval(q, end, state)
      PROVE  OneRowPerPod' /\ Kept
  BY <1>4 DEF Ledger!CloseAllocationInterval
<1>5. ASSUME NEW touched, Ledger!TouchAllocationIntervals(touched)
      PROVE  OneRowPerPod' /\ Kept
  BY <1>5 DEF Ledger!TouchAllocationIntervals
<1>6. CASE Ledger!ExpireIntervals
  BY <1>6 DEF Ledger!ExpireIntervals, Ledger!NoRow
<1>7. \/ UNCHANGED uInterval
      \/ \E q : Ledger!OpenAllocationInterval(q)
      \/ \E q : Ledger!ReopenGuessedInterval(q)
      \/ \E q, end, state : Ledger!CloseAllocationInterval(q, end, state)
      \/ \E touched : Ledger!TouchAllocationIntervals(touched)
      \/ Ledger!ExpireIntervals
  <2>1. CASE Ledger!WatchStep
    BY <2>1 DEF Ledger!WatchStep, Ledger!Deliver, Ledger!WatchOpen, Ledger!WatchReopen,
                Ledger!WatchClose
  <2>2. CASE Ledger!ApplyOpen
    <3>1. PICK o \in uPass.opens :
             /\ o[2] = "open" => Ledger!OpenAllocationInterval(o[1])
             /\ o[2] = "reopen" => Ledger!ReopenGuessedInterval(o[1])
      BY <2>2 DEF Ledger!ApplyOpen
    <3>. QED
      BY <3>1 DEF PlansAreKnown
  <2>3. CASE Ledger!ApplyClose
    BY <2>3 DEF Ledger!ApplyClose
  <2>4. CASE Ledger!ApplyTouches \/ Ledger!ListManagedPods \/ Ledger!Reconcile
    BY <2>4 DEF Ledger!ApplyTouches, Ledger!ListManagedPods, Ledger!Reconcile
  <2>5. CASE Ledger!RollupStep
    BY <2>5 DEF Ledger!RollupStep, Ledger!ListPendingRollupDays, Ledger!RollupForDay,
                Ledger!UpsertDailyRollup
  <2>. QED
    BY <2>1, <2>2, <2>3, <2>4, <2>5
       DEF Ledger!Next, Ledger!PassStep, Ledger!Tick, Ledger!PodStarts,
           Ledger!DeletionRequested, Ledger!Terminates, Ledger!Removed, Ledger!Version,
           Ledger!WatchFails, Ledger!WatchGap, Ledger!PassFails, Ledger!RollFails, Ledger!Crash
<1>. QED
  BY <1>1, <1>2, <1>3, <1>4, <1>5, <1>6, <1>7

LedgerInv == OneRowPerPod /\ PlansAreKnown

LEMMA LedgerInvariant == LoopsSpec => []LedgerInv
<1>1. LoopsInit => LedgerInv
  BY DEF LoopsInit, Ledger!Init, Ledger!NoPass, LedgerInv, OneRowPerPod, PlansAreKnown
<1>2. LedgerInv /\ [LoopsNext]_LoopsVars => LedgerInv'
  <2>1. ASSUME LedgerInv, UNCHANGED uVars PROVE LedgerInv'
    BY <2>1 DEF LedgerInv, OneRowPerPod, PlansAreKnown, uVars
  <2>2. ASSUME [LoopsNext]_LoopsVars PROVE Ledger!Next \/ UNCHANGED uVars
    BY <2>2 DEF LoopsNext, LoopsVars, ElectionMoves, OutboxMoves, LedgerMoves, uVars
  <2>. QED
    BY <2>1, <2>2, LedgerSteps, LedgerPlans DEF LedgerInv
<1>. QED
  BY <1>1, <1>2, PTL DEF LoopsSpec

\* Neither a late event of the watch nor a reconcile pass that planned on older
\* lists moves, undoes or replaces an end that was read off the pod; the row
\* goes when its retention is over, and not before (CloseAllocationInterval,
\* ReopenGuessedInterval, ExpireIntervals).
THEOREM EndsStay == LoopsSpec => AuthoritativeEndsStay
<1>1. LedgerInv /\ [LoopsNext]_LoopsVars =>
        [\A p \in Pods : uInterval[p].state = "closed" =>
            \/ uInterval'[p] = uInterval[p]
            \/ uInterval'[p].state = "absent" /\ Ledger!Expired(p)]_(Ledger!vars)
  <2>1. ASSUME [LoopsNext]_LoopsVars PROVE Ledger!Next \/ UNCHANGED Ledger!vars
    BY <2>1 DEF LoopsNext, LoopsVars, ElectionMoves, OutboxMoves, LedgerMoves, uVars,
                Ledger!vars, Ledger!cluster
  <2>. QED
    BY <2>1, LedgerSteps DEF LedgerInv
<1>. QED
  BY <1>1, LedgerInvariant, PTL
     DEF LoopsSpec, AuthoritativeEndsStay, Ledger!AuthoritativeEndsStay
=============================================================================
