---------------------------- MODULE IncidentLog ----------------------------
(* The incidents of the reconciler (services/reconciler/incident.go,         *)
(* db/incident.go): the runner opens one when a job has failed for good, an  *)
(* admin closes it, and a client lists them page by page.                    *)
(*                                                                           *)
(* Closing reads the row, and writes it in a second statement that fills the *)
(* columns that are still empty; then the audit row, whose failure is        *)
(* ignored.  Kind, severity and description, the metrics and the check of    *)
(* the role are left out.                                                    *)
EXTENDS Keyset

CONSTANTS
    Ids,        \* ids, in the order the database compares them
    Teams,
    Closers,    \* requests to close an incident
    Readers,    \* runs of "incidents list --all"
    TeamOf,     \* the team of a request or of a listing
    Note,       \* the note of a closer, perhaps NoNote
    NoNote,
    Status,     \* the filter of a listing: "open", "closed" or "all"
    PageSize,
    Nobody,
    Never,      \* closed_at of an open incident
    MaxClock,   \* bound: times of opened_at and closed_at
    MaxFaults   \* bound: statements that fail, applied or not

VARIABLES
    incident,   \* the rows: id, team, at (opened_at), closed, by, note
    closer,     \* closer[c]: how far the request is, and the incident
    audit,      \* <<closer, id>> of the incident_close rows
    listing,    \* listing[r]: what the client has (Keyset)
    clock,      \* the database's clock
    faults

vars == <<incident, closer, audit, listing, clock, faults>>

Init ==
    /\ incident = {}
    /\ closer = [c \in Closers |-> [at |-> "idle", id |-> Nobody]]
    /\ audit = {}
    /\ listing = [r \in Readers |-> NoListing]
    /\ clock = 0
    /\ faults = 0

Tick ==
    /\ clock < MaxClock
    /\ clock' = clock + 1
    /\ UNCHANGED <<incident, closer, audit, listing, faults>>

\* A job of team t has failed permanently; an insert that fails is only logged.
Open(id, t) ==
    /\ id \notin IdsOf(incident)
    /\ incident' = incident \cup
         {[id |-> id, team |-> t, at |-> clock, closed |-> Never,
           by |-> Nobody, note |-> NoNote]}
    /\ UNCHANGED <<closer, audit, listing, clock, faults>>

\* The row of that id, if it is the team's.
GetIncident(t, id) == {x \in incident : x.id = id /\ x.team = t}

\* Close, first half: nothing to do for a row that is not there or is closed.
Load(c, id) ==
    LET found == GetIncident(TeamOf[c], id)
    IN /\ closer[c].at = "idle"
       /\ closer' = [closer EXCEPT ![c] =
            [at |-> IF found = {} THEN "not_found"
                    ELSE IF \E x \in found : x.closed # Never
                    THEN "already_closed" ELSE "loaded",
             id |-> id]]
       /\ UNCHANGED <<incident, audit, listing, clock, faults>>

\* Mutant: plain assignments.
Overwritten(x, c) ==
    [x EXCEPT !.closed = clock, !.by = c, !.note = Note[c]]

\* CloseIncident fills what is empty, in whatever state it finds the row.
Closed(x, c) ==
    [id |-> x.id, team |-> x.team, at |-> x.at,
     closed |-> IF x.closed = Never THEN clock ELSE x.closed,
     by |-> IF x.by = Nobody THEN c ELSE x.by,
     note |-> IF x.note = NoNote THEN Note[c] ELSE x.note]

\* Close, second half: the UPDATE, or its failure with or without effect.
CloseIncident(c) ==
    /\ closer[c].at = "loaded"
    /\ \E x \in GetIncident(TeamOf[c], closer[c].id) :
         \/ /\ incident' = (incident \ {x}) \cup {Closed(x, c)}
            /\ closer' = [closer EXCEPT ![c].at = "written"]
            /\ UNCHANGED faults
         \/ /\ faults < MaxFaults
            /\ faults' = faults + 1
            /\ incident' \in {incident, (incident \ {x}) \cup {Closed(x, c)}}
            /\ closer' = [closer EXCEPT ![c].at = "failed"]
    /\ UNCHANGED <<audit, listing, clock>>

\* The audit row is written, or lost: the close has succeeded all the same.
Log(c) ==
    /\ closer[c].at = "written"
    /\ closer' = [closer EXCEPT ![c].at = "closed"]
    /\ \/ audit' = audit \cup {<<c, closer[c].id>>} /\ UNCHANGED faults
       \/ faults < MaxFaults /\ faults' = faults + 1 /\ UNCHANGED audit
    /\ UNCHANGED <<incident, listing, clock>>

\* The rows of a listing: the team's, with the status it asks for.
Listed(r) ==
    {x \in incident :
        /\ x.team = TeamOf[r]
        /\ Status[r] = "open" => x.closed = Never
        /\ Status[r] = "closed" => x.closed # Never}

\* One page, and the next while there is a cursor.
ListIncidents(r) ==
    /\ listing[r].at \in {"idle", "reading"}
    /\ listing' = [listing EXCEPT ![r] = Follow(@, Listed(r), PageSize)]
    /\ UNCHANGED <<incident, closer, audit, clock, faults>>

Next ==
    \/ Tick
    \/ \E id \in Ids, t \in Teams : Open(id, t)
    \/ \E c \in Closers, id \in Ids : Load(c, id)
    \/ \E c \in Closers : CloseIncident(c) \/ Log(c)
    \/ \E r \in Readers : ListIncidents(r)

Spec == Init /\ [][Next]_vars

\* A closure stands: whoever closes the incident again at the same time changes
\* neither when it was closed nor by whom, and no note that was given
\* (CloseIncident, which has no guard on the status).
ClosuresStand ==
    [][\A x \in incident : x.closed # Never =>
         \E y \in incident' :
            /\ y.id = x.id /\ y.closed = x.closed /\ y.by = x.by
            /\ x.note # NoNote => y.note = x.note]_vars

\* However incidents are opened and closed between its pages, a listing shows
\* no incident twice and misses none that had the status throughout
\* (ListIncidents and the loop of "incidents list --all").
IncidentListIsExact == \A r \in Readers : Exact(listing[r], Listed(r))

-----------------------------------------------------------------------------
(* The inductive invariant of the first.                                     *)

Row(x) == [id |-> x.id, team |-> x.team, at |-> x.at, closed |-> x.closed,
           by |-> x.by, note |-> x.note]

\* An id is taken once, and a row that is closed says by whom.
RowsAreOwn ==
    /\ clock \in Nat /\ IsFiniteSet(incident)
    /\ \A x \in incident : /\ x = Row(x) /\ x.id \in Ids /\ x.at \in Nat
                           /\ x.closed = Never <=> x.by = Nobody
    /\ \A x, y \in incident : x.id = y.id => x = y
=============================================================================
