----------------------------- MODULE AuditChain -----------------------------
(* The tamper-evident audit log of one team: writers that append a row to    *)
(* the chain of its month under a lock on the chain head (db/audit.go), the  *)
(* writer that appends without a hash (db/deleteapp.go), and an operator's   *)
(* "audit verify", which pages through the export of one month and           *)
(* recomputes its chain (services/audit, internal/cli/audit_verify.go).      *)
(*                                                                           *)
(* What a transaction writes is visible when it commits.  A row is stamped   *)
(* by the clock of its replica before the transaction begins, so neither the *)
(* order of the ids nor that of the commits says anything about the stamps.  *)
EXTENDS Integers, Sequences, FiniteSets

CONSTANTS
    Writers,         \* callers of InsertAuditLog
    Verifiers,       \* runs of "audit verify"
    Stamps,          \* the instants the replicas' clocks may show
    MonthLength,     \* instants in a month
    SecondLength,    \* instants in a second (10^6 in the code)
    PageSize,        \* exportMaxRows
    MaxId,           \* bound on the id sequence
    NoWriter         \* the head is not locked

ASSUME ConstantsAssumption ==
    /\ Stamps \subseteq Nat
    /\ Stamps # {}
    /\ MonthLength \in Nat \ {0}
    /\ SecondLength \in Nat \ {0}
    /\ PageSize \in Nat \ {0}
    /\ MaxId \in Nat
    /\ NoWriter \notin Writers

\* PartitionMonth: the month a stamp falls in.
Month  == [at \in Nat |-> at \div MonthLength]
Months == {Month[at] : at \in Stamps}

\* A hash stands for what was hashed: the genesis of the month, then the core
\* of every row up to the one it belongs to.  SHA-256 is taken as injective.
Hashes         == Seq(Seq(Nat))
NoHash         == << >>
GenesisHash(m) == << <<m>> >>
Core(r)        == <<r.id, r.at>>
RowHash(prev, core) == Append(prev, core)

Rows  == [id : Nat, at : Nat, prev : Hashes, hash : Hashes]
Heads == [tip : Hashes, count : Nat]

NoHead   == [tip |-> NoHash, count |-> 0]
NoCursor == [at |-> 0, id |-> 0]

\* What an idle writer's stamp and an idle verifier's month are set to.
AnyStamp == CHOOSE at \in Stamps : TRUE
AnyMonth == Month[AnyStamp]

VARIABLES
    auditLog,     \* the committed rows of audit_log
    head,         \* head[m]: audit_chain_head of month m (absent: count 0)
    lock,         \* lock[m]: the writer whose transaction locks that head
    seq,          \* the sequence of audit_log.id
    pc,           \* pc[w]: where InsertAuditLog is
    stamp,        \* stamp[w]: createdAt
    tip,          \* tip[w]: the tip read under the lock
    id,           \* id[w]: the allocated id
    step,         \* step[x]: where a run of "audit verify" is
    month,        \* month[x]: the month it verifies
    cursor,       \* cursor[x]: after which row the next page begins
    entries,      \* entries[x]: the rows received so far
    sent,         \* sent[x]: how many rows the pages held (bookkeeping)
    manifest,     \* manifest[x]: the chain head of the first page
    known         \* known[x]: the rows committed when it began (bookkeeping)

tableVars  == <<auditLog, head, lock, seq>>
writerVars == <<pc, stamp, tip, id>>
verifyVars == <<step, month, cursor, entries, sent, manifest, known>>
vars == <<tableVars, writerVars, verifyVars>>

TypeOK ==
    /\ auditLog \in SUBSET Rows
    /\ head \in [Months -> Heads]
    /\ lock \in [Months -> Writers \cup {NoWriter}]
    /\ seq \in Nat
    /\ pc \in [Writers -> {"idle", "stamped", "locked", "numbered"}]
    /\ stamp \in [Writers -> Stamps]
    /\ tip \in [Writers -> Hashes]
    /\ id \in [Writers -> Nat]
    /\ step \in [Verifiers -> {"idle", "rows", "heads", "done"}]
    /\ month \in [Verifiers -> Months]
    /\ cursor \in [Verifiers -> [at : Nat, id : Nat]]
    /\ entries \in [Verifiers -> SUBSET Rows]
    /\ sent \in [Verifiers -> Nat]
    /\ manifest \in [Verifiers -> Heads]
    /\ known \in [Verifiers -> SUBSET Rows]

-----------------------------------------------------------------------------
(* Verification.                                                             *)

\* The rows of S that carry a hash; the others are counted as pre-chain.
Chained(S) == {r \in S : r.hash # NoHash}

\* The chain of month m as it stands in the table.
Chain(m) == Chained({r \in auditLog : Month[r.at] = m})

Last(S) == CHOOSE r \in S : \A q \in S : q.id <= r.id

\* The hash the next row of S has to chain to.
TipOf(m, S) == IF S = {} THEN GenesisHash(m) ELSE Last(S).hash

Below(r, S) == {q \in S : q.id < r.id}

\* Mutant: rows are checked one by one, and only the last against the head.
ChecksTipAlone(m, S, h) ==
    /\ \A r \in S : r.hash = RowHash(r.prev, Core(r))
    /\ S # {} => TipOf(m, S) = h.tip

\* VerifyChain on rows sorted by id, as verifyEnvelope hands them over: linkage
\* from the genesis, every hash recomputed, the count and the tip of the head.
VerifyChain(m, S, h) ==
    /\ \A r \in S : r.prev = TipOf(m, Below(r, S)) /\ r.hash = RowHash(r.prev, Core(r))
    /\ Cardinality(S) = h.count
    /\ TipOf(m, S) = h.tip

-----------------------------------------------------------------------------
(* The writers.                                                              *)

Init ==
    /\ auditLog = {}
    /\ head = [m \in Months |-> [tip |-> GenesisHash(m), count |-> 0]]
    /\ lock = [m \in Months |-> NoWriter]
    /\ seq = 0
    /\ pc = [w \in Writers |-> "idle"]
    /\ stamp = [w \in Writers |-> AnyStamp]
    /\ tip = [w \in Writers |-> NoHash]
    /\ id = [w \in Writers |-> 0]
    /\ step = [x \in Verifiers |-> "idle"]
    /\ month = [x \in Verifiers |-> AnyMonth]
    /\ cursor = [x \in Verifiers |-> NoCursor]
    /\ entries = [x \in Verifiers |-> {}]
    /\ sent = [x \in Verifiers |-> 0]
    /\ manifest = [x \in Verifiers |-> NoHead]
    /\ known = [x \in Verifiers |-> {}]

Go(w, label) == pc' = [pc EXCEPT ![w] = label]

\* InsertAuditLog up to Begin: createdAt is what the clock shows.
StampRow(w) ==
    \E at \in Stamps :
        /\ pc[w] = "idle"
        /\ stamp' = [stamp EXCEPT ![w] = at]
        /\ Go(w, "stamped")
        /\ UNCHANGED <<tableVars, tip, id, verifyVars>>

\* Mutant: the tip is read without FOR UPDATE.
IgnoresLock(w) == TRUE

\* Another transaction that has created or locked the head is waited for.
HeadIsFree(w) == lock[Month[stamp[w]]] = NoWriter

\* INSERT ... ON CONFLICT DO NOTHING, then SELECT tip_hash ... FOR UPDATE.
LockChainHead(w) ==
    /\ pc[w] = "stamped"
    /\ HeadIsFree(w)
    /\ lock' = [lock EXCEPT ![Month[stamp[w]]] = w]
    /\ tip' = [tip EXCEPT ![w] = head[Month[stamp[w]]].tip]
    /\ Go(w, "locked")
    /\ UNCHANGED <<auditLog, head, seq, stamp, id, verifyVars>>

\* nextval: an id is never given back.
AllocateId(w) ==
    /\ pc[w] = "locked"
    /\ seq < MaxId
    /\ seq' = seq + 1
    /\ id' = [id EXCEPT ![w] = seq + 1]
    /\ Go(w, "numbered")
    /\ UNCHANGED <<auditLog, head, lock, stamp, tip, verifyVars>>

\* The row that w is about to insert.
NewRow(w) ==
    LET core == <<id[w], stamp[w]>>
    IN  [id |-> id[w], at |-> stamp[w], prev |-> tip[w], hash |-> RowHash(tip[w], core)]

\* The transaction of w ends and gives its lock up.
EndTransaction(w) ==
    /\ Go(w, "idle")
    /\ lock' = [m \in Months |-> IF lock[m] = w THEN NoWriter ELSE lock[m]]
    /\ stamp' = [stamp EXCEPT ![w] = AnyStamp]
    /\ tip' = [tip EXCEPT ![w] = NoHash]
    /\ id' = [id EXCEPT ![w] = 0]
    /\ UNCHANGED <<seq, verifyVars>>

\* INSERT the row, advance the head, enqueue the deliveries, commit.
CommitRow(w) ==
    /\ pc[w] = "numbered"
    /\ auditLog' = auditLog \cup {NewRow(w)}
    /\ head' = [head EXCEPT ![Month[stamp[w]]] =
                   [tip |-> NewRow(w).hash, count |-> @.count + 1]]
    /\ EndTransaction(w)

\* A statement fails, the commit does, or the process is lost.
Rollback(w) ==
    /\ pc[w] # "idle"
    /\ EndTransaction(w)
    /\ UNCHANGED <<auditLog, head>>

\* AppendAuditLog of delete_app: one INSERT that leaves the hashes NULL.
AppendAuditLog ==
    \E at \in Stamps :
        /\ seq < MaxId
        /\ seq' = seq + 1
        /\ auditLog' = auditLog \cup
                          {[id |-> seq + 1, at |-> at, prev |-> NoHash, hash |-> NoHash]}
        /\ UNCHANGED <<head, lock, writerVars, verifyVars>>

-----------------------------------------------------------------------------
(* audit verify, one month of it.                                            *)

MonthStart(m) == m * MonthLength

\* The last instant of the month, formatted in whole seconds.
MonthEnd(m) ==
    LET end == MonthStart(m + 1) - 1
    IN  end - (end % SecondLength)

\* fetchChainsForVerify takes up a month.
FetchChain(x) ==
    \E m \in Months :
        /\ step[x] = "idle"
        /\ step' = [step EXCEPT ![x] = "rows"]
        /\ month' = [month EXCEPT ![x] = m]
        /\ known' = [known EXCEPT ![x] = auditLog]
        /\ UNCHANGED <<tableVars, writerVars, cursor, entries, sent, manifest>>

\* The order of the export.
Precedes(q, r) == q.at < r.at \/ (q.at = r.at /\ q.id < r.id)

\* Mutant: the cursor compares created_at only.
AfterStamp(c, r) == c = NoCursor \/ c.at < r.at

AfterCursor(c, r) == c = NoCursor \/ Precedes(c, r)

\* The rows of the window of x that no page has reached.
Left(x) == {r \in auditLog : /\ MonthStart(month[x]) <= r.at
                             /\ r.at <= MonthEnd(month[x])
                             /\ AfterCursor(cursor[x], r)}

Page(x) == {r \in Left(x) : Cardinality({q \in Left(x) : Precedes(q, r)}) < PageSize}

\* First statement of Export: a page of rows, and where the next one begins.
ExportAuditLog(x) ==
    /\ step[x] = "rows"
    /\ step' = [step EXCEPT ![x] = "heads"]
    /\ entries' = [entries EXCEPT ![x] = @ \cup Page(x)]
    /\ sent' = [sent EXCEPT ![x] = @ + Cardinality(Page(x))]
    /\ \/ /\ Page(x) = Left(x)
          /\ cursor' = [cursor EXCEPT ![x] = NoCursor]
       \/ /\ Page(x) # Left(x)
          /\ \E r \in Page(x) :
                /\ \A q \in Page(x) : q = r \/ Precedes(q, r)
                /\ cursor' = [cursor EXCEPT ![x] = [at |-> r.at, id |-> r.id]]
    /\ UNCHANGED <<tableVars, writerVars, month, manifest, known>>

\* Second statement of Export.  fetchFullExport keeps the manifest of the first
\* page and asks for another page as long as there is a cursor.
ListChainHeads(x) ==
    /\ step[x] = "heads"
    /\ manifest' = [manifest EXCEPT ![x] = IF @ = NoHead THEN head[month[x]] ELSE @]
    /\ step' = [step EXCEPT ![x] = IF cursor[x] = NoCursor THEN "done" ELSE "rows"]
    /\ UNCHANGED <<tableVars, writerVars, month, cursor, entries, sent, known>>

\* The report is printed, or a request has failed.
EndVerify(x) ==
    /\ step[x] # "idle"
    /\ step' = [step EXCEPT ![x] = "idle"]
    /\ month' = [month EXCEPT ![x] = AnyMonth]
    /\ cursor' = [cursor EXCEPT ![x] = NoCursor]
    /\ entries' = [entries EXCEPT ![x] = {}]
    /\ sent' = [sent EXCEPT ![x] = 0]
    /\ manifest' = [manifest EXCEPT ![x] = NoHead]
    /\ known' = [known EXCEPT ![x] = {}]
    /\ UNCHANGED <<tableVars, writerVars>>

Write(w) ==
    StampRow(w) \/ LockChainHead(w) \/ AllocateId(w) \/ CommitRow(w) \/ Rollback(w)

Verify(x) == FetchChain(x) \/ ExportAuditLog(x) \/ ListChainHeads(x) \/ EndVerify(x)

Next ==
    \/ \E w \in Writers : Write(w)
    \/ AppendAuditLog
    \/ \E x \in Verifiers : Verify(x)

Spec == Init /\ [][Next]_vars

-----------------------------------------------------------------------------
(* Properties.                                                               *)

\* In every reachable state the committed rows of every month verify against
\* its chain head: whatever order writers stamp, wait, fail and commit in, and
\* although other rows take ids from the same sequence.
ChainVerifies == \A m \in Months : VerifyChain(m, Chain(m), head[m])

\* The verifier's verdict on the month it fetched.
VerdictOK(x) == VerifyChain(month[x], Chained(entries[x]), manifest[x])

\* A finished export holds every row that was committed when it began and falls
\* in the window, and holds none twice, whatever is committed between two pages.
ExportIsExact ==
    \A x \in Verifiers : step[x] = "done" =>
        /\ {r \in known[x] : /\ MonthStart(month[x]) <= r.at
                             /\ r.at <= MonthEnd(month[x])} \subseteq entries[x]
        /\ sent[x] = Cardinality(entries[x])

\* A chain reported OK was received whole: no committed row of the month with an
\* id up to the last one received is missing, although pages and manifest are
\* read at different times.
VerifiedMeansComplete ==
    \A x \in Verifiers : step[x] = "done" /\ VerdictOK(x) =>
        LET received == Chained(entries[x])
        IN  \A r \in Chain(month[x]) :
                r \notin received => \A q \in received : q.id < r.id

\* What somebody with access to the table can make of a chain with one edit: a
\* row dropped, restamped, restamped with its own hash computed anew, or forged
\* on to the tip.
Restamped(r, at) == [r EXCEPT !.at = at]
Rehashed(r, at)  == [id |-> r.id, at |-> at, prev |-> r.prev,
                     hash |-> RowHash(r.prev, <<r.id, at>>)]
Forged(r)        == [id |-> seq + 1, at |-> r.at, prev |-> r.hash,
                     hash |-> RowHash(r.hash, <<seq + 1, r.at>>)]

Edits(S) ==
    {S \ {r} : r \in S}
    \cup {(S \ {r}) \cup {Restamped(r, at)} : r \in S, at \in Stamps}
    \cup {(S \ {r}) \cup {Rehashed(r, at)} : r \in S, at \in Stamps}
    \cup {S \cup {Forged(r)} : r \in S}

\* Every such edit of a chain is reported when it is verified.
EditsAreDetected ==
    \A m \in Months : \A S \in Edits(Chain(m)) :
        S # Chain(m) => ~VerifyChain(m, S, head[m])

\* What the verifier says can be relied on: a chain it passes was received whole,
\* and no edited chain passes (VerifyChain, reconstructed by the client from an
\* export whose pages are read at different times).
VerdictsAreRight == VerifiedMeansComplete /\ EditsAreDetected
=============================================================================
