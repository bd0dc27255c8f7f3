------------------------------- MODULE Keyset -------------------------------
(* The keyset pages in which the listings of the server are read: rows are   *)
(* ordered by the pair (time, id), newest first, the cursor is the pair of   *)
(* the last row of a page, and a page asks for one row more than it returns, *)
(* to tell whether there is a next one (ListIncidents, ListAuditLog).  A row *)
(* is a record with the fields at and id; a page is a set of rows, because   *)
(* the order in it is that of the pairs; a cursor is a set of at most one    *)
(* row.                                                                      *)
EXTENDS FiniteSets, Integers

\* The order of the pairs (time, id).
Older(x, y) == x.at < y.at \/ (x.at = y.at /\ x.id < y.id)

\* Mutant: a cursor of the time alone.
BelowTime(S, cursor) == {x \in S : \A y \in cursor : x.at < y.at}

\* The rows that are left below a cursor.
BelowCursor(S, cursor) == {x \in S : \A y \in cursor : Older(x, y)}

\* The n newest rows of S.
NewestFirst(S, n) == {x \in S : Cardinality({y \in S : Older(x, y)}) < n}

\* The page of n rows of S that follows the cursor, and the cursor of the next.
NextPage(S, cursor, n) ==
    LET rest == BelowCursor(S, cursor)
        page == NewestFirst(rest, n)
    IN [items |-> page,
        next  |-> IF page = rest THEN {} ELSE {x \in page : \A y \in page : ~Older(y, x)}]

\* What a client that follows every cursor makes of a listing: how far it is,
\* the cursor, the ids it has, those it got twice, and (history) the ids that
\* were there at first.
NoListing == [at |-> "idle", cursor |-> {}, seen |-> {}, again |-> {}, start |-> {}]

IdsOf(S) == {x.id : x \in S}

\* Another page of the rows S, the first one included.
Follow(listing, S, n) ==
    LET page == NextPage(S, listing.cursor, n)
        ids  == IdsOf(page.items)
    IN [at |-> IF page.next = {} THEN "done" ELSE "reading",
        cursor |-> page.next,
        seen   |-> listing.seen \cup ids,
        again  |-> listing.again \cup (listing.seen \cap ids),
        start  |-> IF listing.at = "idle" THEN IdsOf(S) ELSE listing.start]

\* No row twice, and every row that was there throughout.
Exact(listing, S) ==
    listing.at = "done" =>
        /\ listing.again = {}
        /\ listing.start \cap IdsOf(S) \subseteq listing.seen
=============================================================================
