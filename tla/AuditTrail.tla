----------------------------- MODULE AuditTrail -----------------------------
(* What is recorded of a team and has to last: the chain of its audit rows,  *)
(* the retention and the listing of those rows, and the incidents of the     *)
(* reconciler.  The three write tables of their own, so each moves without   *)
(* the others and their steps interleave.                                    *)
EXTENDS AuditChain

CONSTANTS
    Recorders, Kind, Jobs, LogReaders, Since, NoSince, Window, LogPage,
    Retention, Lookahead, FirstMonth, MaxMonth,              \* of AuditRecords
    Incidents, Teams, Closers, IncidentReaders, TeamOf, Note, NoNote, Status,
    IncidentPage, Nobody, Never, MaxClock, MaxFaults         \* of IncidentLog

\* A write may be stamped in the month before the one it lands in, and that
\* month is kept (retentionMonths is 13).  A page is of one row at least.
ASSUME RecordsAssumption ==
    /\ FirstMonth \in Nat \ {0} /\ MaxMonth \in Nat
    /\ Retention \in Nat \ {0} /\ Lookahead \in Nat
    /\ Window \in Nat /\ LogPage \in Nat \ {0}
    /\ \A r \in LogReaders : Since[r] \in Nat \cup {NoSince}
    /\ Kind \in [Recorders -> {"delete_app", "delete_app_confirm", "other"}]

\* A requester has a name, a time is not NULL, and ids are compared like numbers.
ASSUME IncidentsAssumption ==
    /\ Incidents \subseteq Nat /\ IncidentPage \in Nat \ {0}
    /\ Nobody \notin Closers /\ Never \notin Nat
    /\ MaxClock \in Nat /\ MaxFaults \in Nat

VARIABLES
    rNow, rParts, rLog, rArchive, rWriter, rNextId, rJob, rListing, rWritten,
    rCovered,
    iIncident, iCloser, iAudit, iListing, iClock, iFaults

rVars == <<rNow, rParts, rLog, rArchive, rWriter, rNextId, rJob, rListing,
           rWritten, rCovered>>
iVars == <<iIncident, iCloser, iAudit, iListing, iClock, iFaults>>

RecordLog == INSTANCE AuditRecords WITH
    Writers <- Recorders, Readers <- LogReaders, PageSize <- LogPage,
    now <- rNow, parts <- rParts, log <- rLog, archive <- rArchive,
    writer <- rWriter, nextId <- rNextId, job <- rJob, listing <- rListing,
    written <- rWritten, covered <- rCovered

IncidentList == INSTANCE IncidentLog WITH
    Ids <- Incidents, Readers <- IncidentReaders, PageSize <- IncidentPage,
    incident <- iIncident, closer <- iCloser, audit <- iAudit,
    listing <- iListing, clock <- iClock, faults <- iFaults

ChainMoves    == Next /\ UNCHANGED <<rVars, iVars>>
RecordMoves   == RecordLog!Next /\ UNCHANGED <<vars, iVars>>
IncidentMoves == IncidentList!Next /\ UNCHANGED <<vars, rVars>>

TrailVars == <<vars, rVars, iVars>>
TrailInit == Init /\ RecordLog!Init /\ IncidentList!Init
TrailNext == ChainMoves \/ RecordMoves \/ IncidentMoves
TrailSpec == TrailInit /\ [][TrailNext]_TrailVars

-----------------------------------------------------------------------------
\* Deletions are recorded for ever, everything else for the whole retention
\* (Rollover, ArchiveDeleteAppRows).
RecordsAreKept == RecordLog!RecordsAreKept

\* While the rollover runs in time, no action lacks its partition (Rollover).
WritesFindPartitions == RecordLog!WritesFindPartitions

\* A listing in pages shows every row that is there throughout, and once
\* (ListAuditLog, ListIncidents and the clients that follow their cursors).
ListingsAreExact == RecordLog!AuditListIsExact /\ IncidentList!IncidentListIsExact

\* Who closed an incident, and when, is not written over (CloseIncident).
ClosuresStand == IncidentList!ClosuresStand
=============================================================================
