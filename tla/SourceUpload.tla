---------------------------- MODULE SourceUpload ----------------------------
(* Uploaded sources of one team: the upload handler with its quota check,    *)
(* the archive on disk and its row, the pin that a create_app sets, the      *)
(* workflow that fetches the archive, and the garbage collector              *)
(* (server/uploads.go, db/uploads.go, ingestion/store.go, upload_gc.go).     *)
(*                                                                           *)
(* Every query, file operation and UPDATE is a step; no lock or transaction  *)
(* spans two.  The disk is shared by the replicas, and two of them may       *)
(* collect at once (leader mode "always").                                   *)
EXTENDS FiniteSets, Integers

CONSTANTS
    MaxUploads,  \* bound on uploads; ids are named in the order they are drawn
    Handlers,    \* upload requests that may run at the same time
    Deploys,     \* create_app confirms that name an upload
    Collectors,  \* replicas that run upload_gc
    MaxArchive,  \* APP_SOURCE_UPLOAD_MAX_BYTES
    MaxInert,    \* UploadQuotaTier.MaxInertBytes
    MaxPinned,   \* UploadQuotaTier.MaxConcurrentPinned
    MaxDaily,    \* UploadQuotaTier.MaxDailyUploads
    Limit,       \* rows of one collection (100)
    MaxFaults,   \* bound on failing statements, file errors and crashes
    NoUpload

Uploads == 1 .. MaxUploads

ASSUME UploadAssumption ==
    /\ MaxUploads \in Nat /\ MaxArchive \in Nat /\ MaxInert \in Nat /\ MaxFaults \in Nat
    /\ IsFiniteSet(Handlers) /\ Handlers # {}
    /\ NoUpload \notin Uploads

VARIABLES
    handler,  \* handler[q]: the upload request, and the id it drew
    disk,     \* disk[u]: what <Root>/<team>/<u> holds
    row,      \* row[u]: status and size in app_source_uploads
    expires,  \* expires[u]: when expires_at is, or that it has passed
    recent,   \* recent[u]: received within the last 24 hours
    intime,   \* intime[u]: pinned before it had expired, and less than thirty
              \* days ago (bookkeeping only)
    deploy,   \* deploy[d]: upload, pin and fetch of a create_app
    gc,       \* gc[g]: rows a collector listed and not collected yet
    faults

uploadVars == <<disk, row, expires, recent, intime>>
vars == <<handler, uploadVars, deploy, gc, faults>>

NoRow   == [status |-> "absent", size |-> 0]
Waiting == [at |-> "idle", id |-> NoUpload]
NoTask  == [at |-> "idle", id |-> NoUpload, listed |-> {}]

Calls   == [at : {"idle", "daily", "inert", "body", "record"}, id : Uploads \cup {NoUpload}]
Rows    == [status : {"absent", "received", "pinned", "gc'd"}, size : 0 .. MaxArchive]
Creates == [of : Uploads \cup {NoUpload}, pin : {"none", "todo", "done"},
            fetch : {"none", "allowed", "refused", "got", "gone", "lost"}]
Tasks   == [at : {"idle", "next", "mark"}, id : Uploads \cup {NoUpload}, listed : SUBSET Uploads]

TypeOK ==
    /\ handler \in [Handlers -> Calls]
    /\ disk \in [Uploads -> {"none", "empty", "tree", "trash"}]
    /\ row \in [Uploads -> Rows]
    /\ expires \in [Uploads -> {"day", "month", "past"}] /\ recent \in [Uploads -> BOOLEAN]
    /\ intime \in [Uploads -> BOOLEAN]
    /\ deploy \in [Deploys -> Creates]
    /\ gc \in [Collectors -> Tasks]
    /\ faults \in 0 .. MaxFaults

Init ==
    /\ handler = [q \in Handlers |-> Waiting]
    /\ disk = [u \in Uploads |-> "none"]
    /\ row = [u \in Uploads |-> NoRow]
    /\ expires = [u \in Uploads |-> "day"]
    /\ recent = [u \in Uploads |-> FALSE]
    /\ intime = [u \in Uploads |-> FALSE]
    /\ deploy = [d \in Deploys |-> [of |-> NoUpload, pin |-> "none", fetch |-> "none"]]
    /\ gc = [g \in Collectors |-> NoTask]
    /\ faults = 0

Fault == faults < MaxFaults /\ faults' = faults + 1
Goto(q, place) == handler' = [handler EXCEPT ![q].at = place]
Answer(q)      == handler' = [handler EXCEPT ![q] = Waiting]

----------------------------------------------------------------------------
(* POST /v1/teams/{slug}/uploads.                                            *)

Alive(u) == row[u].status \in {"received", "pinned"}

\* The bytes of the archives that take space, numbered in each archive.
Bytes == {c \in Uploads \X (1 .. MaxArchive) : Alive(c[1]) /\ c[2] <= row[c[1]].size}

CountPinnedByTeam     == Cardinality({u \in Uploads : row[u].status = "pinned"})
CountTeamUploadsSince == Cardinality({u \in Uploads : recent[u]})
SumInertBytesByTeam   == Cardinality(Bytes)

\* checkUploadQuota is three queries, before the body is read.
CheckPinned(q) ==
    /\ handler[q].at = "idle"
    /\ CountPinnedByTeam < MaxPinned
    /\ Goto(q, "daily")
    /\ UNCHANGED <<uploadVars, deploy, gc, faults>>

CheckDaily(q) ==
    /\ handler[q].at = "daily"
    /\ IF CountTeamUploadsSince >= MaxDaily THEN Answer(q) ELSE Goto(q, "inert")
    /\ UNCHANGED <<uploadVars, deploy, gc, faults>>

\* Mutant: nothing is reserved for the archive that is still to come.
CheckInertUnreserved(q) ==
    /\ handler[q].at = "inert"
    /\ IF SumInertBytesByTeam > MaxInert THEN Answer(q) ELSE Goto(q, "body")
    /\ UNCHANGED <<uploadVars, deploy, gc, faults>>

CheckInert(q) ==
    /\ handler[q].at = "inert"
    /\ IF SumInertBytesByTeam + MaxArchive > MaxInert THEN Answer(q) ELSE Goto(q, "body")
    /\ UNCHANGED <<uploadVars, deploy, gc, faults>>

Unused == {u \in Uploads : disk[u] = "none"}

\* An id is drawn at random; here it is the next one.
Drawn == {u \in Unused : \A v \in Unused : u <= v}

\* Store.Put: the archive is written, extracted, and renamed into place.
ReceiveArchive(q) ==
    /\ handler[q].at = "body"
    /\ \E u \in Drawn :
         /\ disk' = [disk EXCEPT ![u] = "tree"]
         /\ handler' = [handler EXCEPT ![q] = [at |-> "record", id |-> u]]
    /\ UNCHANGED <<row, expires, recent, intime, deploy, gc, faults>>

\* An archive that is too large, corrupt, or that has an entry leading out of its
\* tree: the directory stays, without a tree.
ExtractFails(q) ==
    /\ handler[q].at = "body"
    /\ \E u \in Drawn : disk' = [disk EXCEPT ![u] = "empty"]
    /\ Answer(q)
    /\ UNCHANGED <<row, expires, recent, intime, deploy, gc, faults>>

\* No form, no archive in it, two of them, or one whose sha256 is not the one that
\* was announced: an archive that was stored by then stays as it is, without a row.
FormRefused(q) ==
    /\ handler[q].at = "body"
    /\ \E u \in Drawn : disk' \in {disk, [disk EXCEPT ![u] = "tree"]}
    /\ Answer(q)
    /\ UNCHANGED <<row, expires, recent, intime, deploy, gc, faults>>

InsertUpload(q) ==
    LET u == handler[q].id
    IN  /\ handler[q].at = "record"
        /\ \E size \in 1 .. MaxArchive :
              row' = [row EXCEPT ![u] = [status |-> "received", size |-> size]]
        /\ recent' = [recent EXCEPT ![u] = TRUE]
        /\ Answer(q)
        /\ UNCHANGED <<disk, expires, intime, deploy, gc, faults>>

\* A statement fails or the process is lost; what is on disk stays there.
HandlerFails(q) ==
    /\ handler[q].at # "idle"
    /\ Fault
    /\ Answer(q)
    /\ UNCHANGED <<uploadVars, deploy, gc>>

----------------------------------------------------------------------------
(* Time: a received row expires 24 hours after it came, a pinned one 30 days *)
(* after its pin.                                                            *)

DayPasses(u) ==
    /\ recent[u]
    /\ recent' = [recent EXCEPT ![u] = FALSE]
    /\ expires' = [expires EXCEPT ![u] = IF @ = "day" THEN "past" ELSE @]
    /\ UNCHANGED <<handler, disk, row, intime, deploy, gc, faults>>

MonthPasses(u) ==
    /\ expires[u] = "month" /\ ~recent[u]
    /\ expires' = [expires EXCEPT ![u] = "past"]
    /\ intime' = [intime EXCEPT ![u] = FALSE]
    /\ UNCHANGED <<handler, disk, row, recent, deploy, gc, faults>>

----------------------------------------------------------------------------
(* create_app with an upload source.                                         *)

\* Neither preview nor confirm asks about the row: the workflow is dispatched,
\* with a token for the archive, before the pin.
Dispatch(d, u) ==
    /\ deploy[d].of = NoUpload
    /\ row[u].status # "absent"
    /\ deploy' = [deploy EXCEPT ![d] = [of |-> u, pin |-> "todo", fetch |-> "none"]]
    /\ UNCHANGED <<handler, uploadVars, gc, faults>>

\* Mutant: the pin leaves expires_at as it is.
PinKeepsDeadline(d) ==
    LET u == deploy[d].of
    IN  /\ deploy[d].pin = "todo"
        /\ row' = [row EXCEPT ![u].status = IF @ = "received" THEN "pinned" ELSE @]
        /\ intime' = [intime EXCEPT ![u] =
                         @ \/ (row[u].status = "received" /\ expires[u] # "past")]
        /\ deploy' = [deploy EXCEPT ![d].pin = "done"]
        /\ UNCHANGED <<handler, disk, expires, recent, gc, faults>>

\* WHERE status = 'received', whether or not the row has expired; one that is
\* pinned already keeps its deadline.
Pinnable(u) == row[u].status = "received"

\* A failure is only logged, and so is a row that cannot be pinned.
PinUpload(d) ==
    LET u == deploy[d].of
    IN  /\ deploy[d].pin = "todo"
        /\ \/ /\ IF Pinnable(u)
                 THEN /\ row' = [row EXCEPT ![u].status = "pinned"]
                      /\ intime' = [intime EXCEPT ![u] = expires[u] # "past"]
                      /\ expires' = [expires EXCEPT ![u] = "month"]
                 ELSE UNCHANGED <<row, intime, expires>>
              /\ UNCHANGED faults
           \/ Fault /\ UNCHANGED <<row, intime, expires>>
        /\ deploy' = [deploy EXCEPT ![d].pin = "done"]
        /\ UNCHANGED <<handler, disk, recent, gc>>

\* GET /v1/uploads/{id}/archive: the token is verified and the row is read, then
\* the file is opened.  A token is good for its time only (TokenSigner.TTL).
TokenRefused(d) ==
    /\ deploy[d].of # NoUpload /\ deploy[d].fetch = "none"
    /\ deploy' = [deploy EXCEPT ![d].fetch = "refused"]
    /\ UNCHANGED <<handler, uploadVars, gc, faults>>

\* The row of the token's team, or none.
GetUpload(u) == row[u]

ReadRow(d) ==
    LET u == deploy[d].of
    IN  /\ u # NoUpload /\ deploy[d].fetch = "none"
        /\ deploy' = [deploy EXCEPT ![d].fetch =
              IF GetUpload(u).status \in {"received", "pinned"} THEN "allowed" ELSE "gone"]
        /\ UNCHANGED <<handler, uploadVars, gc, faults>>

ArchiveOnDisk(u) == disk[u] = "tree"

OpenArchive(d) ==
    /\ deploy[d].fetch = "allowed"
    /\ deploy' = [deploy EXCEPT ![d].fetch =
          IF ArchiveOnDisk(deploy[d].of) THEN "got" ELSE "lost"]
    /\ UNCHANGED <<handler, uploadVars, gc, faults>>

----------------------------------------------------------------------------
(* upload_gc.                                                                *)

\* Mutant: rows that were pinned are not looked for.
DueReceived == {u \in Uploads : row[u].status = "received" /\ expires[u] = "past"}

Due == {u \in Uploads : Alive(u) /\ expires[u] = "past"}

ListExpiredUploads(g) ==
    /\ gc[g].at = "idle" /\ Due # {}
    /\ \E some \in SUBSET Due :
         /\ some # {} /\ Cardinality(some) <= Limit
         /\ Cardinality(some) = Limit \/ some = Due
         /\ gc' = [gc EXCEPT ![g] = [NoTask EXCEPT !.at = "next", !.listed = some]]
    /\ UNCHANGED <<handler, uploadVars, deploy, faults>>

\* The collector goes on to the next row, or ends its tick after the last.
NextRow(g) ==
    gc' = [gc EXCEPT ![g] = IF @.listed = {} THEN NoTask
                            ELSE [@ EXCEPT !.at = "next", !.id = NoUpload]]

\* Store.Delete: rename to _trash; nil when there is nothing.  Nothing in the
\* code empties _trash.
DeleteTree(g) ==
    /\ gc[g].at = "next"
    /\ \E u \in gc[g].listed :
         /\ disk' = [disk EXCEPT ![u] = "trash"]
         /\ gc' = [gc EXCEPT ![g] = [at |-> "mark", id |-> u, listed |-> @.listed \ {u}]]
    /\ UNCHANGED <<handler, row, expires, recent, intime, deploy, faults>>

\* UPDATE ... WHERE status != 'gc''d': a pin that came meanwhile is overwritten.
MarkUploadGCd(g) ==
    /\ gc[g].at = "mark"
    /\ row' = [row EXCEPT ![gc[g].id].status = "gc'd"]
    /\ NextRow(g)
    /\ UNCHANGED <<handler, disk, expires, recent, intime, deploy, faults>>

\* The files cannot be moved or the row not be marked: on to the next row.
RowFails(g) ==
    /\ Fault
    /\ \/ gc[g].at = "mark" /\ NextRow(g)
       \/ /\ gc[g].at = "next"
          /\ \E u \in gc[g].listed :
                LET left == gc[g].listed \ {u}
                IN  gc' = [gc EXCEPT ![g] = IF left = {} THEN NoTask
                                            ELSE [@ EXCEPT !.listed = left]]
    /\ UNCHANGED <<handler, uploadVars, deploy>>

CollectorDies(g) ==
    /\ gc[g] # NoTask
    /\ Fault
    /\ gc' = [gc EXCEPT ![g] = NoTask]
    /\ UNCHANGED <<handler, uploadVars, deploy>>

----------------------------------------------------------------------------
Upload(q) ==
    \/ CheckPinned(q) \/ CheckDaily(q) \/ CheckInert(q)
    \/ ReceiveArchive(q) \/ ExtractFails(q) \/ FormRefused(q)
    \/ InsertUpload(q) \/ HandlerFails(q)

Collect(g) == ListExpiredUploads(g) \/ DeleteTree(g) \/ MarkUploadGCd(g)

Next ==
    \/ \E q \in Handlers : Upload(q)
    \/ \E u \in Uploads : DayPasses(u) \/ MonthPasses(u)
    \/ \E d \in Deploys : \/ \E u \in Uploads : Dispatch(d, u)
                          \/ PinUpload(d) \/ TokenRefused(d)
                          \/ ReadRow(d) \/ OpenArchive(d)
    \/ \E g \in Collectors : Collect(g) \/ RowFails(g) \/ CollectorDies(g)

Spec == Init /\ [][Next]_vars

\* Time passes, and the collector ticks as long as its process lives.
Fairness ==
    /\ \A u \in Uploads : WF_vars(DayPasses(u)) /\ WF_vars(MonthPasses(u))
    /\ \A g \in Collectors : WF_vars(Collect(g))

FairSpec == Spec /\ Fairness

----------------------------------------------------------------------------
(* Properties.                                                               *)

\* The check is not atomic with the insert, but it reserves a whole archive:
\* what the team keeps exceeds the quota by at most one archive for every other
\* upload that was under way, as the comment of checkUploadQuota says.
OvershootIsBounded ==
    SumInertBytesByTeam <= MaxInert + (Cardinality(Handlers) - 1) * MaxArchive

\* A row that is gc'd has no files left: whatever fails and whoever collects
\* beside, the files go first, so no tree loses the row that would collect it.
CollectedMeansGone == \A u \in Uploads : row[u].status = "gc'd" => disk[u] # "tree"

\* A pin that came before the upload had expired keeps the archive for its
\* thirty days, against collectors that listed rows before it; a workflow that
\* is turned away had no such pin, or came after its time.
PinsInTimeHold ==
    /\ \A u \in Uploads : intime[u] => disk[u] = "tree" /\ Alive(u)
    /\ \A d \in Deploys : deploy[d].fetch \in {"gone", "lost"} => ~intime[deploy[d].of]

\* Every recorded upload is collected in the end, whatever fails on the way.
UploadsAreCollected ==
    \A u \in Uploads : (row[u].status = "received") ~> (row[u].status = "gc'd")
=============================================================================
