----------------------------- MODULE LeaderLoops -----------------------------
(* The election of the leader and two of the loops that run behind its flag: *)
(* the outbox of audit notifications and the usage ledger.  Their steps      *)
(* interleave; a loop whose replica lost the lease goes on with its tick, so *)
(* none of the loops' own variables depends on the election.                 *)
EXTENDS LeaderElection, FiniteSets

CONSTANTS
    Subs, Events, Copies, Senders, MaxAttempts, Threshold, MaxSubs, Batch,
    OutboxFaults, NoDelivery,                                \* of NotifyDispatch
    Pods, DayLen, Horizon, Retention, Lookback, LedgerFaults, NoPod
                                                             \* of UsageLedger

\* A fleet is finite and a delivery is attempted at least once.
ASSUME OutboxAssumption ==
    /\ IsFiniteSet(Senders)
    /\ MaxAttempts \in Nat \ {0}
    /\ OutboxFaults \in Nat
    /\ NoDelivery \notin Events \X Subs \X Copies

\* Pending days are looked for further back than intervals are kept.
ASSUME LedgerAssumption ==
    /\ DayLen \in Nat \ {0} /\ Horizon \in Nat /\ LedgerFaults \in Nat
    /\ Retention \in Nat /\ Lookback \in Nat /\ Lookback > Retention
    /\ NoPod \notin Pods

VARIABLES
    nSub, nFailures, nNotices, nAudited, nStatus, nAttempt, nDue, nPosts, nHeard,
    nReclaims, nPc, nBatch, nRow, nFaults,
    uNow, uLog, uShown, uInterval, uRollup, uWatch, uPass, uRoll, uFaults

nVars == <<nSub, nFailures, nNotices, nAudited, nStatus, nAttempt, nDue, nPosts,
           nHeard, nReclaims, nPc, nBatch, nRow, nFaults>>
uVars == <<uNow, uLog, uShown, uInterval, uRollup, uWatch, uPass, uRoll, uFaults>>

Notify == INSTANCE NotifyDispatch WITH
    MaxFaults <- OutboxFaults, NoRow <- NoDelivery,
    sub <- nSub, failures <- nFailures, notices <- nNotices, audited <- nAudited,
    status <- nStatus, attempt <- nAttempt, due <- nDue, posts <- nPosts,
    heard <- nHeard, reclaims <- nReclaims, pc <- nPc, batch <- nBatch,
    row <- nRow, faults <- nFaults

Ledger == INSTANCE UsageLedger WITH
    MaxFaults <- LedgerFaults,
    now <- uNow, log <- uLog, shown <- uShown, interval <- uInterval,
    rollup <- uRollup, watch <- uWatch, pass <- uPass, roll <- uRoll,
    faults <- uFaults

ElectionMoves == Next /\ UNCHANGED <<nVars, uVars>>
OutboxMoves   == Notify!Next /\ UNCHANGED <<vars, uVars>>
LedgerMoves   == Ledger!Next /\ UNCHANGED <<vars, nVars>>

LoopsVars == <<vars, nVars, uVars>>
LoopsInit == Init /\ Notify!Init /\ Ledger!Init
LoopsNext == ElectionMoves \/ OutboxMoves \/ LedgerMoves
LoopsSpec == LoopsInit /\ [][LoopsNext]_LoopsVars

-----------------------------------------------------------------------------
\* POSTs stay within the budget of the claims that were made (Deliver, and the
\* outcomes that are written by id).
SendsAreBounded == Notify!SendsAreBounded

\* The circuit breaker announces a subscription it disables once (MaybeBreak).
OneDisableNotice == Notify!OneDisableNotice

\* An end that was read off the pod is never moved, undone or replaced.
AuthoritativeEndsStay == Ledger!AuthoritativeEndsStay
=============================================================================
