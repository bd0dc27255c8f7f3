---------------------------- MODULE AuditRecords ----------------------------
(* How long audit rows are kept and how they are read: the monthly           *)
(* partitions of audit_log, the rollover job that creates the next ones and  *)
(* archives and drops the old (audit/partition.go, cmd/audit-rollover), and  *)
(* the listing of the log in pages (audit/query.go, db/audit.go).  The rows  *)
(* are those of one team; the chain they form is in AuditChain.              *)
(*                                                                           *)
(* A write is stamped when it starts and lands in the partition of its stamp *)
(* when it ends.  The job is stopped after five minutes, so a month can end  *)
(* during one and not two.  Two jobs may run at once: the schedule and an    *)
(* operator.  Filters other than the time are left out.                      *)
EXTENDS Keyset

CONSTANTS
    Writers,    \* actions that are recorded
    Kind,       \* the action of a writer: "delete_app", "delete_app_confirm", "other"
    Jobs,       \* runs of the rollover that may overlap
    Readers,    \* runs of "audit list --all"
    Since,      \* a listing's --since, or NoSince
    NoSince,
    Window,     \* the months a listing without --since goes back
    PageSize,
    Retention,  \* the months a partition is kept
    Lookahead,  \* the months that are created ahead
    FirstMonth, \* the month of the migration
    MaxMonth    \* bound: months

VARIABLES
    now,        \* the month
    parts,      \* months that have a partition
    log,        \* audit_log: id, at (the month of created_at), kind
    archive,    \* audit_log_archive
    writer,     \* writer[w]: how far the write is, and its stamp
    nextId,
    job,        \* job[j]: how far it is, its month, the next to create, the old
    listing,    \* listing[r]: what the client has (Keyset)
    written,    \* history: every row that was ever in the log
    covered     \* history: the month of the last run that created its partitions

vars == <<now, parts, log, archive, writer, nextId, job, listing, written,
          covered>>

NoJob == [at |-> "idle", now |-> 0, next |-> 0, old |-> {}]

\* The migration has created what a rollover of the first month would.
Init ==
    /\ now = FirstMonth
    /\ parts = FirstMonth - 1 .. FirstMonth + Lookahead
    /\ log = {}
    /\ archive = {}
    /\ writer = [w \in Writers |-> [at |-> "idle", stamp |-> 0]]
    /\ nextId = 1
    /\ job = [j \in Jobs |-> NoJob]
    /\ listing = [r \in Readers |-> NoListing]
    /\ written = {}
    /\ covered = FirstMonth

\* A month ends; no job of an earlier month is still running.
Tick ==
    /\ now < MaxMonth
    /\ \A j \in Jobs : job[j].at # "idle" => job[j].now = now
    /\ \A w \in Writers : writer[w].at = "stamped" => writer[w].stamp = now
    /\ now' = now + 1
    /\ UNCHANGED <<parts, log, archive, writer, nextId, job, listing, written,
                   covered>>

Stamp(w) ==
    /\ writer[w].at = "idle"
    /\ writer' = [writer EXCEPT ![w] = [at |-> "stamped", stamp |-> now]]
    /\ UNCHANGED <<now, parts, log, archive, nextId, job, listing, written,
                   covered>>

\* The row is inserted, unless its month has no partition.
InsertAuditLog(w) ==
    LET row == [id |-> nextId, at |-> writer[w].stamp, kind |-> Kind[w]]
    IN /\ writer[w].at = "stamped"
       /\ nextId' = nextId + 1
       /\ IF writer[w].stamp \in parts
          THEN /\ log' = log \cup {row}
               /\ written' = written \cup {row}
               /\ writer' = [writer EXCEPT ![w].at = "recorded"]
          ELSE /\ writer' = [writer EXCEPT ![w].at = "refused"]
               /\ UNCHANGED <<log, written>>
       /\ UNCHANGED <<now, parts, archive, job, listing, covered>>

Rollover(j) ==
    /\ job[j].at = "idle"
    /\ job' = [job EXCEPT ![j] =
                 [at |-> "creating", now |-> now, next |-> now - 1, old |-> {}]]
    /\ UNCHANGED <<now, parts, log, archive, writer, nextId, listing, written,
                   covered>>

\* Mutant: the last month of the window is left out.
ToCreateShort(j) == job[j].next < job[j].now + Lookahead

\* The months from the previous one to the last ahead.
ToCreate(j) == job[j].next <= job[j].now + Lookahead

CreateMonthlyPartition(j) ==
    /\ job[j].at = "creating" /\ ToCreate(j)
    /\ parts' = parts \cup {job[j].next}
    /\ job' = [job EXCEPT ![j].next = @ + 1]
    /\ UNCHANGED <<now, log, archive, writer, nextId, listing, written, covered>>

\* The partitions that are older than the retention.
Old(j) == {m \in parts : m < job[j].now - Retention}

ListPartitionMonths(j) ==
    /\ job[j].at = "creating" /\ ~ToCreate(j)
    /\ job' = [job EXCEPT ![j].at = "archiving", ![j].old = Old(j)]
    /\ covered' = IF job[j].now > covered THEN job[j].now ELSE covered
    /\ UNCHANGED <<now, parts, log, archive, writer, nextId, listing, written>>

Oldest(j) == CHOOSE m \in job[j].old : \A k \in job[j].old : m <= k

\* Mutant: the action has to be "delete_app", not to begin with it.
ToArchiveExact(m) == {x \in log : x.at = m /\ x.kind = "delete_app"}

\* The rows of a month whose action begins with "delete_app".
ToArchive(m) == {x \in log : x.at = m /\ x.kind \in {"delete_app", "delete_app_confirm"}}

\* One statement moves the rows.
ArchiveDeleteAppRows(j) ==
    /\ job[j].at = "archiving" /\ job[j].old # {}
    /\ log' = log \ ToArchive(Oldest(j))
    /\ archive' = archive \cup ToArchive(Oldest(j))
    /\ job' = [job EXCEPT ![j].at = "dropping"]
    /\ UNCHANGED <<now, parts, writer, nextId, listing, written, covered>>

DropMonthlyPartition(j) ==
    /\ job[j].at = "dropping"
    /\ parts' = parts \ {Oldest(j)}
    /\ log' = {x \in log : x.at # Oldest(j)}
    /\ job' = [job EXCEPT ![j].at = "archiving", ![j].old = @ \ {Oldest(j)}]
    /\ UNCHANGED <<now, archive, writer, nextId, listing, written, covered>>

\* The job is done, or fails or dies after any of its statements.
End(j) ==
    /\ job[j].at # "idle"
    /\ job' = [job EXCEPT ![j] = NoJob]
    /\ UNCHANGED <<now, parts, log, archive, writer, nextId, listing, written,
                   covered>>

\* Without --since every page counts back from the time it is asked for.
Listed(r) ==
    {x \in log : x.at >= IF Since[r] = NoSince THEN now - Window ELSE Since[r]}

ListAuditLog(r) ==
    /\ listing[r].at \in {"idle", "reading"}
    /\ listing' = [listing EXCEPT ![r] = Follow(@, Listed(r), PageSize)]
    /\ UNCHANGED <<now, parts, log, archive, writer, nextId, job, written, covered>>

Next ==
    \/ Tick
    \/ \E w \in Writers : Stamp(w) \/ InsertAuditLog(w)
    \/ \E j \in Jobs :
         \/ Rollover(j) \/ CreateMonthlyPartition(j) \/ ListPartitionMonths(j)
         \/ ArchiveDeleteAppRows(j) \/ DropMonthlyPartition(j) \/ End(j)
    \/ \E r \in Readers : ListAuditLog(r)

Spec == Init /\ [][Next]_vars

\* The record of a deletion outlives every partition, in one place; every other
\* row is kept for the whole retention, whatever jobs overlap or die half-way
\* (Rollover, ArchiveDeleteAppRows).
RecordsAreKept ==
    \A x \in written :
        /\ x.at >= now - Retention => x \in log
        /\ x.kind # "other" => (x \in log) # (x \in archive)

\* While the months since the last complete run are no more than it created
\* ahead, an action finds the partition of its month (Rollover).
WritesFindPartitions ==
    now <= covered + Lookahead =>
        \A w \in Writers : writer[w].at = "stamped" => writer[w].stamp \in parts

\* However rows are added and dropped between its pages, a listing shows no row
\* twice and misses none that it could have seen throughout (ListAuditLog and
\* the loop of "audit list --all").
AuditListIsExact == \A r \in Readers : Exact(listing[r], Listed(r))

-----------------------------------------------------------------------------
(* The inductive invariant of the first two.                                 *)

Kinds == {"delete_app", "delete_app_confirm", "other"}

TypeOK ==
    /\ now \in Nat /\ covered \in Nat /\ nextId \in Nat
    /\ parts \subseteq Nat
    /\ writer \in [Writers -> [at : {"idle", "stamped", "recorded", "refused"}, stamp : Nat]]
    /\ job \in [Jobs -> [at : {"idle", "creating", "archiving", "dropping"},
                         now : Nat, next : Nat, old : SUBSET Nat]]
    /\ \A x \in written : x.at \in Nat /\ x.id \in Nat /\ x.kind \in Kinds
    /\ IsFiniteSet(written)

\* Every row has an id of its own, and is where it was written or in the archive.
RowsAreOwn ==
    /\ log \subseteq written /\ archive \subseteq written
    /\ \A x \in written : x.id < nextId
    /\ \A x, y \in written : x.id = y.id => x = y

\* Neither a write nor a job outlives the month after the one it began in.
NobodyIsLate ==
    /\ covered <= now /\ FirstMonth <= covered
    /\ \A w \in Writers : writer[w].at = "stamped" =>
          FirstMonth <= writer[w].stamp /\ writer[w].stamp \in {now - 1, now}
    /\ \A j \in Jobs : job[j].at # "idle" => FirstMonth <= job[j].now /\ job[j].now \in {now - 1, now}

Kept(m) == m >= now - Retention

\* What a run has created is there, unless it is too old to be kept.
RunsCreate ==
    /\ \A m \in covered - 1 .. covered + Lookahead : Kept(m) => m \in parts
    /\ \A j \in Jobs : job[j].at = "creating" =>
          \A m \in job[j].now - 1 .. job[j].next - 1 : Kept(m) => m \in parts

\* A job drops only what is too old, and after it has archived it.
RunsArchiveFirst ==
    \A j \in Jobs :
        /\ \A m \in job[j].old : m < job[j].now - Retention
        /\ job[j].at = "dropping" =>
              /\ job[j].old # {}
              /\ \A x \in log : x.at = Oldest(j) => x.kind = "other"

IInv == /\ TypeOK /\ RowsAreOwn /\ NobodyIsLate /\ RunsCreate /\ RunsArchiveFirst
        /\ RecordsAreKept
=============================================================================
