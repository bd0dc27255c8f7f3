--------------------------- MODULE NotifyDispatch ---------------------------
(* Outbound audit notifications: the subscriptions of a team, the outbox     *)
(* rows that an audit write inserts in its own transaction, and the          *)
(* dispatchers that claim due rows, POST them outside any lock and record    *)
(* the outcome (services/audit/notify).                                      *)
(*                                                                           *)
(* Every SQL statement and every POST is a step.  A claim leases its rows    *)
(* for five minutes; nothing ties the outcome that is recorded later to that *)
(* lease.  A batch of fifty POSTs of up to ten seconds outlasts it, so a     *)
(* lease may run out under a sender that is alive (Overrun).  Every replica  *)
(* ticks: that is leader mode "always", and in mode "lease" the behaviours   *)
(* are those of fewer senders.                                               *)
EXTENDS Integers, FiniteSets

CONSTANTS
    Subs,         \* subscription ids that may be created
    Events,       \* audit rows whose action is in the catalog
    Copies,       \* 0 is the outbox row, other numbers are manual redeliveries
    Senders,      \* replicas, each with one dispatcher loop
    MaxAttempts,  \* webhook_delivery.max_attempts (6 in the code)
    Threshold,    \* breakerThreshold (20 in the code)
    MaxSubs,      \* maxSubscriptionsPerTeam (10 in the code)
    Batch,        \* rows of one claim (50 in the code)
    MaxFaults,    \* bound on crashes, database errors and overrun leases
    NoRow         \* the dispatcher holds no row

VARIABLES
    sub,       \* sub[s]: the row webhook_subscription, "none" before its INSERT
    failures,  \* failures[s]: column consecutive_failures
    notices,   \* notices[s]: audit rows webhook_subscription_disabled
    audited,   \* the audit rows that are committed
    status,    \* status[k]: column status of the delivery, "absent" before the INSERT
    attempt,   \* attempt[k]: column attempt
    due,       \* due[k]: next_attempt_at <= now()
    posts,     \* posts[k]: POSTs made of it (bookkeeping only)
    heard,     \* heard[k]: POSTs answered 2xx (bookkeeping only)
    reclaims,  \* reclaims[k]: claims of a row that was still delivering (bookkeeping only)
    pc,        \* pc[w]: where the dispatcher of w is
    batch,     \* batch[w]: rows claimed by this tick and not processed yet
    row,       \* row[w]: the row in hand, with the attempt read by the claim
    faults     \* faults spent

subVars    == <<sub, failures, notices>>
rowVars    == <<status, attempt, due>>
countVars  == <<posts, heard, reclaims>>
senderVars == <<pc, batch, row>>
vars == <<subVars, audited, rowVars, countVars, senderVars, faults>>

Rows     == Events \X Subs \X Copies
SubOf(k) == k[2]
Finished == {"succeeded", "dropped"}
Statuses == {"absent", "pending", "delivering", "failed"} \cup Finished
Claims   == [key : Rows, attempt : Nat]
NoClaim  == [key |-> NoRow, attempt |-> 0]
Places   == {"idle", "next", "post", "succeed", "reset", "fail", "drop", "inactive",
             "bump", "break", "notice"}

TypeOK ==
    /\ sub \in [Subs -> {"none", "previewed", "active", "disabled", "deleted"}]
    /\ failures \in [Subs -> Nat] /\ notices \in [Subs -> Nat]
    /\ audited \subseteq Events
    /\ status \in [Rows -> Statuses] /\ attempt \in [Rows -> Nat]
    /\ due \in [Rows -> BOOLEAN]
    /\ posts \in [Rows -> Nat] /\ heard \in [Rows -> Nat] /\ reclaims \in [Rows -> Nat]
    /\ pc \in [Senders -> Places]
    /\ batch \in [Senders -> SUBSET Claims]
    /\ row \in [Senders -> Claims \cup {NoClaim}]
    /\ faults \in 0 .. MaxFaults

Init ==
    /\ sub = [s \in Subs |-> "none"]
    /\ failures = [s \in Subs |-> 0] /\ notices = [s \in Subs |-> 0]
    /\ audited = {}
    /\ status = [k \in Rows |-> "absent"] /\ attempt = [k \in Rows |-> 0]
    /\ due = [k \in Rows |-> FALSE]
    /\ posts = [k \in Rows |-> 0] /\ heard = [k \in Rows |-> 0]
    /\ reclaims = [k \in Rows |-> 0]
    /\ pc = [w \in Senders |-> "idle"]
    /\ batch = [w \in Senders |-> {}]
    /\ row = [w \in Senders |-> NoClaim]
    /\ faults = 0

Fault == faults < MaxFaults /\ faults' = faults + 1

----------------------------------------------------------------------------
(* Configuration writes of the team, behind the preview and confirm gate.    *)

\* The quota is counted when the preview is made, and not again on confirm.
PreviewCreate(s) ==
    /\ sub[s] = "none"
    /\ Cardinality({t \in Subs : sub[t] \in {"active", "disabled"}}) < MaxSubs
    /\ sub' = [sub EXCEPT ![s] = "previewed"]
    /\ UNCHANGED <<failures, notices, audited, rowVars, countVars, senderVars, faults>>

ConfirmCreate(s) ==
    /\ sub[s] = "previewed"
    /\ sub' = [sub EXCEPT ![s] = "active"]
    /\ UNCHANGED <<failures, notices, audited, rowVars, countVars, senderVars, faults>>

ConfirmDelete(s) ==
    /\ sub[s] \in {"active", "disabled"}
    /\ sub' = [sub EXCEPT ![s] = "deleted"]
    /\ UNCHANGED <<failures, notices, audited, rowVars, countVars, senderVars, faults>>

----------------------------------------------------------------------------
(* The outbox.                                                               *)

\* The audit row and one pending delivery for every active subscription are
\* one transaction; a panic while they are prepared is caught, and then the
\* audit row commits alone.
Enqueue(e) ==
    /\ e \notin audited
    /\ audited' = audited \cup {e}
    /\ LET hit == {k \in Rows : k[1] = e /\ k[3] = 0 /\ sub[SubOf(k)] = "active"}
       IN  \/ /\ status' = [k \in Rows |-> IF k \in hit THEN "pending" ELSE status[k]]
              /\ due' = [k \in Rows |-> due[k] \/ k \in hit]
              /\ UNCHANGED faults
           \/ hit # {} /\ Fault /\ UNCHANGED <<status, due>>
    /\ UNCHANGED <<subVars, attempt, countVars, senderVars>>

\* An owner or admin clones a delivery into a fresh pending row.
Redeliver(k, c) ==
    LET copy == <<k[1], k[2], c>>
    IN  /\ status[k] # "absent" /\ status[copy] = "absent" /\ c # 0
        /\ status' = [status EXCEPT ![copy] = "pending"]
        /\ due' = [due EXCEPT ![copy] = TRUE]
        /\ UNCHANGED <<subVars, audited, attempt, countVars, senderVars, faults>>

Held(k) == \E w \in Senders : row[w].key = k \/ \E c \in batch[w] : c.key = k

\* A backoff ends, or the lease of a row that no dispatcher works on.
Elapse(k) ==
    /\ status[k] \in {"failed", "delivering"} /\ ~due[k]
    /\ status[k] = "failed" \/ ~Held(k)
    /\ due' = [due EXCEPT ![k] = TRUE]
    /\ UNCHANGED <<subVars, audited, status, attempt, countVars, senderVars, faults>>

\* The lease ends while its holder is still at work.
Overrun(k) ==
    /\ status[k] = "delivering" /\ ~due[k] /\ Held(k)
    /\ Fault
    /\ due' = [due EXCEPT ![k] = TRUE]
    /\ UNCHANGED <<subVars, audited, status, attempt, countVars, senderVars>>

----------------------------------------------------------------------------
(* The dispatcher.                                                           *)

\* Mutant: a row that is delivering is never taken over.
ClaimableOnce == {k \in Rows : status[k] \in {"pending", "failed"} /\ due[k]}

Claimable == {k \in Rows : status[k] \in {"pending", "failed", "delivering"} /\ due[k]}

\* One UPDATE ... FOR UPDATE SKIP LOCKED: concurrent claims take disjoint rows.
ClaimDue(w) ==
    /\ pc[w] = "idle"
    /\ \E taken \in SUBSET Claimable :
         /\ taken # {} /\ Cardinality(taken) <= Batch
         /\ Cardinality(taken) = Batch \/ taken = Claimable
         /\ status' = [k \in Rows |-> IF k \in taken THEN "delivering" ELSE status[k]]
         /\ due' = [k \in Rows |-> due[k] /\ k \notin taken]
         /\ batch' = [batch EXCEPT ![w] = {[key |-> k, attempt |-> attempt[k]] : k \in taken}]
         /\ reclaims' = [k \in Rows |-> IF k \in taken /\ status[k] = "delivering"
                                        THEN reclaims[k] + 1 ELSE reclaims[k]]
    /\ pc' = [pc EXCEPT ![w] = "next"]
    /\ UNCHANGED <<subVars, audited, attempt, posts, heard, row, faults>>

\* The dispatcher goes on with the row in hand, or to the next one.
Go(w, place) ==
    /\ pc' = [pc EXCEPT ![w] = place]
    /\ row' = IF place = "next" THEN [row EXCEPT ![w] = NoClaim] ELSE row
    /\ UNCHANGED batch

\* The loop over the batch: read the subscription of the next row, and drop the
\* row when it is gone, disabled or cannot be read.
LoadSubscription(w) ==
    /\ pc[w] = "next"
    /\ \E c \in batch[w] :
         /\ row' = [row EXCEPT ![w] = c]
         /\ batch' = [batch EXCEPT ![w] = @ \ {c}]
         /\ \/ /\ pc' = [pc EXCEPT ![w] =
                           IF sub[SubOf(c.key)] = "active" THEN "post" ELSE "inactive"]
               /\ UNCHANGED faults
            \/ pc' = [pc EXCEPT ![w] = "inactive"] /\ Fault
    /\ UNCHANGED <<subVars, audited, rowVars, countVars>>

TickDone(w) ==
    /\ pc[w] = "next" /\ batch[w] = {}
    /\ pc' = [pc EXCEPT ![w] = "idle"]
    /\ UNCHANGED <<subVars, audited, rowVars, countVars, batch, row, faults>>

\* Anything but a 2xx is a failure, a timeout after the receiver took it too.
Deliver(w) ==
    /\ pc[w] = "post"
    /\ posts' = [posts EXCEPT ![row[w].key] = @ + 1]
    /\ \/ Go(w, "succeed") /\ heard' = [heard EXCEPT ![row[w].key] = @ + 1]
       \/ /\ Go(w, IF row[w].attempt + 1 >= MaxAttempts THEN "drop" ELSE "fail")
          /\ UNCHANGED heard
    /\ UNCHANGED <<subVars, audited, rowVars, reclaims, faults>>

\* An UPDATE whose error is ignored: it happens, or it is lost.
BestEffort(done, kept) == (done /\ UNCHANGED faults) \/ (kept /\ Fault)

\* The outcome is written by id: neither the status nor the lease is looked at.
Write(w, outcome, tries) ==
    /\ status' = [status EXCEPT ![row[w].key] = outcome]
    /\ attempt' = [attempt EXCEPT ![row[w].key] = tries]
    /\ due' = [due EXCEPT ![row[w].key] = FALSE]

MarkSucceeded(w) ==
    /\ pc[w] = "succeed"
    /\ BestEffort(Write(w, "succeeded", attempt[row[w].key] + 1), UNCHANGED rowVars)
    /\ Go(w, "reset")
    /\ UNCHANGED <<subVars, audited, countVars>>

ResetFailures(w) ==
    /\ pc[w] = "reset"
    /\ BestEffort(failures' = [failures EXCEPT ![SubOf(row[w].key)] = 0], UNCHANGED failures)
    /\ Go(w, "next")
    /\ UNCHANGED <<sub, notices, audited, rowVars, countVars>>

MarkDropped(w) ==
    /\ pc[w] \in {"drop", "inactive"}
    /\ BestEffort(Write(w, "dropped", attempt[row[w].key] + 1), UNCHANGED rowVars)
    /\ Go(w, IF pc[w] = "drop" THEN "bump" ELSE "next")
    /\ UNCHANGED <<subVars, audited, countVars>>

\* Mutant: the attempt of the claim is written back.
MarkFailedUncounted(w) ==
    /\ pc[w] = "fail"
    /\ BestEffort(Write(w, "failed", row[w].attempt), UNCHANGED rowVars)
    /\ Go(w, "bump")
    /\ UNCHANGED <<subVars, audited, countVars>>

\* A retry is written with the attempt the claim had read, plus one.
MarkFailed(w) ==
    /\ pc[w] = "fail"
    /\ BestEffort(Write(w, "failed", row[w].attempt + 1), UNCHANGED rowVars)
    /\ Go(w, "bump")
    /\ UNCHANGED <<subVars, audited, countVars>>

\* The counter goes up, and its new value and the flag are what the dispatcher
\* decides on; a deleted subscription has no row to update.
BumpFailure(w) ==
    LET s == SubOf(row[w].key)
        count == failures[s] + 1
    IN  /\ pc[w] = "bump"
        /\ \/ /\ sub[s] # "deleted"
              /\ failures' = [failures EXCEPT ![s] = count]
              /\ Go(w, IF sub[s] = "active" /\ count >= Threshold THEN "break" ELSE "next")
              /\ UNCHANGED faults
           \/ /\ Go(w, "next")
              /\ UNCHANGED failures
              /\ IF sub[s] = "deleted" THEN UNCHANGED faults ELSE Fault
        /\ UNCHANGED <<sub, notices, audited, rowVars, countVars>>

\* Mutant: the UPDATE does not ask whether the subscription is active.
BreaksAgain(w) ==
    LET s == SubOf(row[w].key)
    IN  /\ pc[w] = "break"
        /\ IF sub[s] = "deleted" THEN Go(w, "next") /\ UNCHANGED sub
           ELSE sub' = [sub EXCEPT ![s] = "disabled"] /\ Go(w, "notice")
        /\ UNCHANGED <<failures, notices, audited, rowVars, countVars, faults>>

\* UPDATE ... WHERE id = $1 AND active = true; only the one that changed it
\* writes the audit row.
MaybeBreak(w) ==
    LET s == SubOf(row[w].key)
    IN  /\ pc[w] = "break"
        /\ \/ /\ sub[s] = "active"
              /\ sub' = [sub EXCEPT ![s] = "disabled"]
              /\ Go(w, "notice")
              /\ UNCHANGED faults
           \/ /\ Go(w, "next")
              /\ UNCHANGED sub
              /\ IF sub[s] = "active" THEN Fault ELSE UNCHANGED faults
        /\ UNCHANGED <<failures, notices, audited, rowVars, countVars>>

LogDisabled(w) ==
    LET s == SubOf(row[w].key)
    IN  /\ pc[w] = "notice"
        /\ BestEffort(notices' = [notices EXCEPT ![s] = @ + 1], UNCHANGED notices)
        /\ Go(w, "next")
        /\ UNCHANGED <<sub, failures, audited, rowVars, countVars>>

\* The process dies and comes back with nothing in hand.
Crash(w) ==
    /\ pc[w] # "idle"
    /\ Fault
    /\ pc' = [pc EXCEPT ![w] = "idle"]
    /\ batch' = [batch EXCEPT ![w] = {}]
    /\ row' = [row EXCEPT ![w] = NoClaim]
    /\ UNCHANGED <<subVars, audited, rowVars, countVars>>

Step(w) ==
    \/ ClaimDue(w) \/ LoadSubscription(w) \/ TickDone(w) \/ Deliver(w)
    \/ MarkSucceeded(w) \/ ResetFailures(w) \/ MarkDropped(w) \/ MarkFailed(w)
    \/ BumpFailure(w) \/ MaybeBreak(w) \/ LogDisabled(w)

Next ==
    \/ \E s \in Subs : PreviewCreate(s) \/ ConfirmCreate(s) \/ ConfirmDelete(s)
    \/ \E e \in Events : Enqueue(e)
    \/ \E k \in Rows, c \in Copies : Redeliver(k, c)
    \/ \E k \in Rows : Elapse(k) \/ Overrun(k)
    \/ \E w \in Senders : Step(w) \/ Crash(w)

Spec == Init /\ [][Next]_vars

\* The dispatcher loop runs as long as its process does, and time passes.
Fairness ==
    /\ \A w \in Senders : WF_vars(Step(w))
    /\ \A k \in Rows : WF_vars(Elapse(k))

FairSpec == Spec /\ Fairness

----------------------------------------------------------------------------
(* Properties.                                                               *)

\* max_attempts is not a bound on the POSTs of a delivery, because a claim that
\* ran out leaves no trace in the row and a late outcome sets the counter back.
\* What the code does keep: each such claim costs at most another full budget,
\* and a receiver that has acknowledged a delivery gets it again at most once for
\* each of them (a sender that was slow, died, or lost its UPDATE).
SendsAreBounded ==
    \A k \in Rows : /\ posts[k] <= MaxAttempts * (1 + reclaims[k])
                    /\ heard[k] <= 1 + reclaims[k]

\* However many deliveries of a subscription fail at once, the circuit breaker
\* disables it once: one audit row at most, and none while it is active.
OneDisableNotice ==
    \A s \in Subs : /\ notices[s] <= 1
                    /\ notices[s] = 1 => sub[s] \in {"disabled", "deleted"}

\* Every delivery that is enqueued is delivered or dropped in the end, whatever
\* crashes, lost updates and overlapping senders there are on the way.
DeliveriesSettle ==
    \A k \in Rows : status[k] = "pending" ~> status[k] \in Finished

----------------------------------------------------------------------------
(* The inductive invariant of the two safety properties.                     *)

\* The claims of w that it may still POST.
InHand(w) == batch[w] \cup IF pc[w] = "post" THEN {row[w]} ELSE {}

Fails(w, k) == pc[w] = "fail" /\ row[w].key = k

\* A dispatcher holds a row once, and the row in hand is not in its batch.
HandsAreTidy ==
    \A w \in Senders :
        /\ pc[w] = "idle" => batch[w] = {}
        /\ pc[w] \in {"idle", "next"} => row[w] = NoClaim
        /\ pc[w] \notin {"idle", "next"} => row[w] \in Claims
        /\ \A c \in batch[w] : c.key # row[w].key
        /\ \A c, d \in batch[w] : c.key = d.key => c = d

\* Neither a row that is to be sent nor a claim has used up its attempts.
AttemptsAreLow ==
    /\ \A k \in Rows : status[k] \notin Finished => attempt[k] < MaxAttempts
    /\ \A w \in Senders : /\ \A c \in InHand(w) : c.attempt < MaxAttempts
                          /\ pc[w] = "fail" => row[w].attempt + 1 < MaxAttempts

\* A row that is not there was never sent, and nobody holds it.
AbsentIsFresh ==
    /\ \A k \in Rows :
         /\ status[k] = "absent" => posts[k] = 0 /\ heard[k] = 0
         /\ status[k] # "absent" => k[1] \in audited
    /\ \A w \in Senders :
         /\ row[w] # NoClaim => status[row[w].key] # "absent"
         /\ \A c \in batch[w] : status[c.key] # "absent"

\* The POSTs the claims of k may come to: one for each attempt that w still has,
\* whether it makes it itself or writes it back into the row.
Tries(k) ==
    {t \in Senders \X (0 .. MaxAttempts - 1) :
        \/ \E c \in InHand(t[1]) : c.key = k /\ c.attempt <= t[2]
        \/ Fails(t[1], k) /\ row[t[1]].attempt < t[2]}

TriesOfRow(k) == IF status[k] \in {"pending", "failed"} THEN MaxAttempts - attempt[k] ELSE 0

\* What was sent and what may be sent yet is paid for by the claims.
TriesArePaid ==
    \A k \in Rows :
        posts[k] + TriesOfRow(k) + Cardinality(Tries(k)) <= MaxAttempts * (1 + reclaims[k])

\* The dispatchers that may make a POST of k that is heard.
Speakers(k) == {w \in Senders : Fails(w, k) \/ \E c \in InHand(w) : c.key = k}

\* What was heard and what may be heard yet, likewise.
AnswersArePaid ==
    \A k \in Rows :
        heard[k] + (IF status[k] \in {"pending", "failed"} THEN 1 ELSE 0)
                 + Cardinality(Speakers(k)) <= 1 + reclaims[k]

Announces(w, s) == pc[w] = "notice" /\ SubOf(row[w].key) = s

\* One dispatcher disables a subscription, and then announces it at most once.
NoticesAreEarned ==
    \A s \in Subs :
        /\ notices[s] <= 1
        /\ sub[s] \notin {"disabled", "deleted"} =>
              notices[s] = 0 /\ \A w \in Senders : ~Announces(w, s)
        /\ \A w \in Senders : Announces(w, s) =>
              notices[s] = 0 /\ \A v \in Senders : Announces(v, s) => v = w

IInv == /\ TypeOK /\ HandsAreTidy /\ AttemptsAreLow /\ AbsentIsFresh
        /\ TriesArePaid /\ AnswersArePaid /\ NoticesAreEarned
=============================================================================
