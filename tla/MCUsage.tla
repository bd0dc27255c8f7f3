------------------------------- MODULE MCUsage -------------------------------
(* The election and the loops of LeaderLoops on small instances.  They share *)
(* no state, so one of them moves in each behaviour and the state spaces add *)
(* up.                                                                       *)
EXTENDS LeaderLoops

CONSTANTS s1, e1, w1, w2, p1, r1, r2

VARIABLE part  \* the component that moves, and on which instance

\* Of the outbox, either there is no fault, or no subscription is deleted.
OutboxParts == {"outbox", "faulty outbox"}
WithoutFault    == UNCHANGED nFaults
WithoutDeletion == \A s \in Subs : nSub'[s] # "deleted"

MCInit == part \in OutboxParts \cup {"election", "ledger"} /\ LoopsInit

MCNext ==
    \/ part = "election" /\ ElectionMoves /\ UNCHANGED part
    \/ part = "ledger" /\ LedgerMoves /\ UNCHANGED part
    \/ part = "outbox" /\ OutboxMoves /\ WithoutFault /\ UNCHANGED part
    \/ part = "faulty outbox" /\ OutboxMoves /\ WithoutDeletion /\ UNCHANGED part

\* UsageLedger!Fairness and NotifyDispatch!Fairness, each for the behaviours in
\* which its component moves.
LedgerFairness ==
    /\ WF_uVars(part = "ledger" /\ Ledger!WatchStep)
    /\ WF_uVars(part = "ledger" /\ Ledger!PassStep)
    /\ WF_uVars(part = "ledger" /\ Ledger!RollupStep)

OutboxFairness ==
    /\ \A w \in Senders : WF_nVars(part \in OutboxParts /\ Notify!Step(w))
    /\ \A k \in Notify!Rows : WF_nVars(part \in OutboxParts /\ Notify!Elapse(k))

MCSpec == MCInit /\ [][MCNext]_<<part, LoopsVars>> /\ LedgerFairness /\ OutboxFairness

\* Every delivery is made or dropped in the end.
DeliveriesSettle == Notify!DeliveriesSettle

\* The ledger ends with an interval open exactly for the pods that run.
LedgerCatchesUp == Ledger!LedgerCatchesUp

\* No day stays pending for good.
BooksClose == Ledger!BooksClose

\* A rolled-up day whose seconds change comes back for another rollup.
ChangedDaysComeBack == Ledger!ChangedDaysComeBack
=============================================================================
