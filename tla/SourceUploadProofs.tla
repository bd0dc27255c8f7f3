------------------------- MODULE SourceUploadProofs -------------------------
(* Proofs about TeamResources: the uploads, for any handlers, deploys,       *)
(* collectors and faults, the installation of the GitHub App, and the limits *)
(* of requests, for any requests, plans and quotas.                          *)
EXTENDS TeamResources, FiniteSetTheorems, SequenceTheorems, WellFoundedInduction, TLAPS

\* An id without a row has never expired or been pinned.
AbsentIsFresh ==
    \A u \in Uploads : row[u].status = "absent" => expires[u] = "day" /\ ~recent[u] /\ ~intime[u]

\* What has nothing on disk was never recorded.
RecordedWasStored == \A u \in Uploads : disk[u] = "none" => row[u].status = "absent"

\* A handler that is to record an upload has stored it, under an id of its own.
IdsAreOwn ==
    /\ \A q \in Handlers : handler[q].at = "record" =>
          /\ handler[q].id \in Uploads
          /\ disk[handler[q].id] = "tree" /\ row[handler[q].id].status = "absent"
    /\ \A q, p \in Handlers :
          handler[q].at = "record" /\ handler[p].at = "record"
             /\ handler[q].id = handler[p].id => q = p

\* The tree of a received upload stands until it expires, and that of a pinned
\* one as long as the pin is in time.
FreshTreesStand ==
    \A u \in Uploads : row[u].status = "received" /\ expires[u] # "past" => disk[u] = "tree"

PinnedTreesStand ==
    \A u \in Uploads : intime[u] =>
        row[u].status = "pinned" /\ expires[u] = "month" /\ disk[u] = "tree"

CollectedIsMoved == \A u \in Uploads : row[u].status = "gc'd" => disk[u] = "trash"

\* An upload that has expired, or is gone, is not pinned in time any more and
\* never again.
Spent(u) ==
    /\ row[u].status # "absent" /\ ~intime[u]
    /\ row[u].status = "received" => expires[u] = "past"

ListedAreSpent ==
    \A g \in Collectors :
        /\ \A u \in gc[g].listed : Spent(u)
        /\ gc[g].at = "mark" =>
              gc[g].id \in Uploads /\ disk[gc[g].id] = "trash" /\ Spent(gc[g].id)

\* A deploy names a row; one that is turned away names a spent one.
DeploysNameRows ==
    \A d \in Deploys :
        /\ deploy[d].of # NoUpload => row[deploy[d].of].status # "absent"
        /\ deploy[d].pin = "todo" \/ deploy[d].fetch # "none" => deploy[d].of # NoUpload
        /\ deploy[d].fetch \in {"gone", "lost"} => Spent(deploy[d].of)

\* The inductive invariant.
IInv ==
    /\ TypeOK
    /\ AbsentIsFresh /\ RecordedWasStored /\ IdsAreOwn
    /\ FreshTreesStand /\ PinnedTreesStand /\ CollectedIsMoved
    /\ ListedAreSpent /\ DeploysNameRows

-----------------------------------------------------------------------------
LEMMA InitEstablishes == Init => IInv
<1> SUFFICES ASSUME Init PROVE IInv
  OBVIOUS
<1>1. TypeOK
  BY UploadAssumption DEF Init, TypeOK, Calls, Rows, Creates, Tasks, NoRow, Waiting, NoTask
<1>2. AbsentIsFresh /\ RecordedWasStored /\ IdsAreOwn
  BY DEF Init, NoRow, Waiting, AbsentIsFresh, RecordedWasStored, IdsAreOwn
<1>3. FreshTreesStand /\ PinnedTreesStand /\ CollectedIsMoved
  BY DEF Init, NoRow, FreshTreesStand, PinnedTreesStand, CollectedIsMoved
<1>4. ListedAreSpent /\ DeploysNameRows
  BY DEF Init, NoTask, ListedAreSpent, DeploysNameRows
<1>. QED
  BY <1>1, <1>2, <1>3, <1>4 DEF IInv

-----------------------------------------------------------------------------
(* A step of one actor alone: what it must see to for the invariant.         *)

\* A handler may go anywhere but to its record.
LEMMA HandlerMoves ==
  ASSUME IInv, NEW q \in Handlers, NEW h \in Calls, h.at # "record",
         handler' = [handler EXCEPT ![q] = h], faults' \in 0 .. MaxFaults,
         UNCHANGED <<uploadVars, deploy, gc>>
  PROVE  IInv'
<1>1. TypeOK'
  BY DEF IInv, TypeOK, uploadVars
<1>2. IdsAreOwn'
  BY DEF IInv, TypeOK, IdsAreOwn, uploadVars
<1>3. AbsentIsFresh' /\ RecordedWasStored' /\ FreshTreesStand' /\ PinnedTreesStand'
  BY DEF IInv, uploadVars, AbsentIsFresh, RecordedWasStored, FreshTreesStand, PinnedTreesStand
<1>4. CollectedIsMoved' /\ ListedAreSpent' /\ DeploysNameRows'
  BY DEF IInv, uploadVars, CollectedIsMoved, ListedAreSpent, DeploysNameRows, Spent
<1>. QED
  BY <1>1, <1>2, <1>3, <1>4 DEF IInv

\* A deploy names a row, and is turned away from a spent one only.
LEMMA DeployMoves ==
  ASSUME IInv, NEW d \in Deploys, NEW e \in Creates,
         e.of # NoUpload /\ row[e.of].status # "absent",
         e.fetch \in {"gone", "lost"} => Spent(e.of),
         deploy' = [deploy EXCEPT ![d] = e],
         UNCHANGED <<handler, uploadVars, gc, faults>>
  PROVE  IInv'
<1>1. TypeOK'
  BY DEF IInv, TypeOK, uploadVars
<1>2. DeploysNameRows'
  BY DEF IInv, TypeOK, DeploysNameRows, Spent, uploadVars
<1>3. AbsentIsFresh' /\ RecordedWasStored' /\ FreshTreesStand' /\ PinnedTreesStand'
  BY DEF IInv, uploadVars, AbsentIsFresh, RecordedWasStored, FreshTreesStand, PinnedTreesStand
<1>4. IdsAreOwn' /\ CollectedIsMoved' /\ ListedAreSpent'
  BY DEF IInv, uploadVars, IdsAreOwn, CollectedIsMoved, ListedAreSpent, Spent
<1>. QED
  BY <1>1, <1>2, <1>3, <1>4 DEF IInv

\* A collector has spent uploads on its list, and none it is to mark.
LEMMA CollectorMoves ==
  ASSUME IInv, NEW g \in Collectors, NEW t \in Tasks, t.at # "mark",
         \A u \in t.listed : Spent(u),
         gc' = [gc EXCEPT ![g] = t], faults' \in 0 .. MaxFaults,
         UNCHANGED <<handler, uploadVars, deploy>>
  PROVE  IInv'
<1>1. TypeOK'
  BY DEF IInv, TypeOK, uploadVars
<1>2. ListedAreSpent'
  BY DEF IInv, TypeOK, ListedAreSpent, Spent, uploadVars
<1>3. AbsentIsFresh' /\ RecordedWasStored' /\ FreshTreesStand' /\ PinnedTreesStand'
  BY DEF IInv, uploadVars, AbsentIsFresh, RecordedWasStored, FreshTreesStand, PinnedTreesStand
<1>4. IdsAreOwn' /\ CollectedIsMoved' /\ DeploysNameRows'
  BY DEF IInv, uploadVars, IdsAreOwn, CollectedIsMoved, DeploysNameRows, Spent
<1>. QED
  BY <1>1, <1>2, <1>3, <1>4 DEF IInv

-----------------------------------------------------------------------------
(* The upload handler.                                                       *)
LEMMA StoresOnly ==
  ASSUME IInv, NEW q \in Handlers, NEW u \in Unused, NEW h \in Calls,
         NEW what \in {"empty", "tree"},
         h.at = "record" => what = "tree" /\ h.id = u,
         disk' = [disk EXCEPT ![u] = what], handler' = [handler EXCEPT ![q] = h],
         UNCHANGED <<row, expires, recent, intime, deploy, gc, faults>>
  PROVE  IInv'
<1>1. u \in Uploads /\ disk[u] = "none" /\ row[u].status = "absent"
  BY DEF IInv, Unused, RecordedWasStored
<1>2. TypeOK'
  BY <1>1 DEF IInv, TypeOK
<1>3. AbsentIsFresh' /\ RecordedWasStored'
  BY <1>1 DEF IInv, TypeOK, AbsentIsFresh, RecordedWasStored
<1>4. IdsAreOwn'
  BY <1>1 DEF IInv, TypeOK, IdsAreOwn
<1>5. FreshTreesStand' /\ PinnedTreesStand' /\ CollectedIsMoved'
  BY <1>1 DEF IInv, TypeOK, FreshTreesStand, PinnedTreesStand, CollectedIsMoved
<1>6. ListedAreSpent' /\ DeploysNameRows'
  BY <1>1 DEF IInv, TypeOK, ListedAreSpent, DeploysNameRows, Spent
<1>. QED
  BY <1>2, <1>3, <1>4, <1>5, <1>6 DEF IInv

LEMMA InsertUploadPreserves == ASSUME IInv, NEW q \in Handlers, InsertUpload(q) PROVE IInv'
<1> DEFINE u == handler[q].id
<1>1. u \in Uploads /\ disk[u] = "tree" /\ row[u].status = "absent"
  BY DEF IInv, IdsAreOwn, InsertUpload
<1>2. PICK size \in 1 .. MaxArchive :
         row' = [row EXCEPT ![u] = [status |-> "received", size |-> size]]
  BY DEF InsertUpload
<1>3. [status |-> "received", size |-> size] \in Rows
  BY UploadAssumption DEF Rows
<1>4. Waiting \in Calls
  BY DEF Waiting, Calls
<1>5. TypeOK'
  BY <1>1, <1>2, <1>3, <1>4 DEF IInv, TypeOK, InsertUpload, Answer
<1>6. AbsentIsFresh' /\ RecordedWasStored'
  BY <1>1, <1>2 DEF IInv, TypeOK, InsertUpload, AbsentIsFresh, RecordedWasStored
<1>7. IdsAreOwn'
  BY <1>1, <1>2 DEF IInv, TypeOK, InsertUpload, IdsAreOwn, Answer, Waiting
<1>8. FreshTreesStand' /\ PinnedTreesStand' /\ CollectedIsMoved'
  BY <1>1, <1>2
  DEF IInv, TypeOK, InsertUpload, AbsentIsFresh, FreshTreesStand, PinnedTreesStand, CollectedIsMoved
<1>9. \A v \in Uploads : Spent(v) => Spent(v)'
  BY <1>1, <1>2 DEF IInv, TypeOK, InsertUpload, Spent
<1>10. ListedAreSpent'
  BY <1>9 DEF IInv, TypeOK, InsertUpload, ListedAreSpent, Tasks
<1>11. DeploysNameRows'
  BY <1>1, <1>2, <1>9 DEF IInv, TypeOK, InsertUpload, DeploysNameRows, Creates
<1>. QED
  BY <1>5, <1>6, <1>7, <1>8, <1>10, <1>11 DEF IInv

\* Every step of a handler.
LEMMA UploadPreserves == ASSUME IInv, NEW q \in Handlers, Upload(q) PROVE IInv'
<1>1. Waiting \in Calls /\ Waiting.at # "record"
  BY DEF Waiting, Calls
<1>2. ASSUME NEW place \in {"daily", "inert", "body"}
      PROVE  [handler[q] EXCEPT !.at = place] \in Calls
             /\ [handler[q] EXCEPT !.at = place].at # "record"
  BY DEF IInv, TypeOK, Calls
<1>3. ASSUME NEW place \in {"daily", "inert", "body"}, Goto(q, place)
      PROVE  handler' = [handler EXCEPT ![q] = [handler[q] EXCEPT !.at = place]]
  BY <1>3 DEF Goto
<1>4. faults \in 0 .. MaxFaults /\ (Fault => faults' \in 0 .. MaxFaults)
  BY UploadAssumption DEF IInv, TypeOK, Fault
<1>5. CASE CheckPinned(q)
  BY <1>2, <1>3, <1>4, <1>5, HandlerMoves DEF CheckPinned
<1>6. CASE CheckDaily(q)
  BY <1>1, <1>2, <1>3, <1>4, <1>6, HandlerMoves DEF CheckDaily, Answer
<1>7. CASE CheckInert(q)
  BY <1>1, <1>2, <1>3, <1>4, <1>7, HandlerMoves DEF CheckInert, Answer
<1>8. CASE ReceiveArchive(q)
  <2>1. PICK u \in Drawn : /\ disk' = [disk EXCEPT ![u] = "tree"]
                           /\ handler' = [handler EXCEPT ![q] = [at |-> "record", id |-> u]]
    BY <1>8 DEF ReceiveArchive
  <2>2. u \in Unused /\ [at |-> "record", id |-> u] \in Calls
    BY DEF Drawn, Unused, Calls
  <2>. QED
    BY <1>8, <2>1, <2>2, StoresOnly DEF ReceiveArchive
<1>9. CASE ExtractFails(q)
  <2>1. PICK u \in Unused : disk' = [disk EXCEPT ![u] = "empty"]
    BY <1>9 DEF ExtractFails, Drawn
  <2>. QED
    BY <1>1, <1>9, <2>1, StoresOnly DEF ExtractFails, Answer
<1>10. CASE FormRefused(q)
  <2>1. PICK u \in Unused : disk' = disk \/ disk' = [disk EXCEPT ![u] = "tree"]
    BY <1>10 DEF FormRefused, Drawn
  <2>2. CASE disk' = disk
    BY <1>1, <1>4, <1>10, <2>2, HandlerMoves DEF FormRefused, Answer, uploadVars
  <2>3. CASE disk' = [disk EXCEPT ![u] = "tree"]
    BY <1>1, <1>10, <2>3, StoresOnly DEF FormRefused, Answer
  <2>. QED
    BY <2>1, <2>2, <2>3
<1>11. CASE InsertUpload(q)
  BY <1>11, InsertUploadPreserves
<1>12. CASE HandlerFails(q)
  BY <1>1, <1>4, <1>12, HandlerMoves DEF HandlerFails, Answer
<1>. QED
  BY <1>5, <1>6, <1>7, <1>8, <1>9, <1>10, <1>11, <1>12 DEF Upload

-----------------------------------------------------------------------------
(* Time.                                                                     *)
LEMMA DayPassesPreserves == ASSUME IInv, NEW u \in Uploads, DayPasses(u) PROVE IInv'
<1>1. TypeOK'
  BY DEF IInv, TypeOK, DayPasses
<1>2. AbsentIsFresh' /\ RecordedWasStored' /\ IdsAreOwn'
  BY DEF IInv, TypeOK, DayPasses, AbsentIsFresh, RecordedWasStored, IdsAreOwn
<1>3. FreshTreesStand' /\ PinnedTreesStand' /\ CollectedIsMoved'
  BY DEF IInv, TypeOK, DayPasses, FreshTreesStand, PinnedTreesStand, CollectedIsMoved
<1>4. \A v \in Uploads : Spent(v) => Spent(v)'
  BY DEF IInv, TypeOK, DayPasses, Spent
<1>5. ListedAreSpent'
  BY <1>4 DEF IInv, TypeOK, DayPasses, ListedAreSpent, Tasks
<1>6. DeploysNameRows'
  BY <1>4 DEF IInv, TypeOK, DayPasses, DeploysNameRows, Creates
<1>. QED
  BY <1>1, <1>2, <1>3, <1>5, <1>6 DEF IInv

LEMMA MonthPassesPreserves == ASSUME IInv, NEW u \in Uploads, MonthPasses(u) PROVE IInv'
<1>1. TypeOK'
  BY DEF IInv, TypeOK, MonthPasses
<1>2. AbsentIsFresh' /\ RecordedWasStored' /\ IdsAreOwn'
  BY DEF IInv, TypeOK, MonthPasses, AbsentIsFresh, RecordedWasStored, IdsAreOwn
<1>3. FreshTreesStand' /\ PinnedTreesStand' /\ CollectedIsMoved'
  BY DEF IInv, TypeOK, MonthPasses, FreshTreesStand, PinnedTreesStand, CollectedIsMoved
<1>4. \A v \in Uploads : Spent(v) => Spent(v)'
  BY DEF IInv, TypeOK, MonthPasses, Spent
<1>5. ListedAreSpent'
  BY <1>4 DEF IInv, TypeOK, MonthPasses, ListedAreSpent, Tasks
<1>6. DeploysNameRows'
  BY <1>4 DEF IInv, TypeOK, MonthPasses, DeploysNameRows, Creates
<1>. QED
  BY <1>1, <1>2, <1>3, <1>5, <1>6 DEF IInv

-----------------------------------------------------------------------------
(* create_app.                                                               *)

\* A pin that comes in time finds a tree that no collector has listed: what was
\* listed had expired.
LEMMA PinUploadPreserves == ASSUME IInv, NEW d \in Deploys, PinUpload(d) PROVE IInv'
<1> DEFINE u == deploy[d].of
<1>1. u \in Uploads /\ row[u].status # "absent"
  BY DEF IInv, TypeOK, Creates, DeploysNameRows, PinUpload
<1>2. [deploy[d] EXCEPT !.pin = "done"] \in Creates
  BY DEF IInv, TypeOK, Creates
<1>3. deploy' = [deploy EXCEPT ![d] = [deploy[d] EXCEPT !.pin = "done"]]
  BY DEF PinUpload
<1>4. faults' \in 0 .. MaxFaults
  BY UploadAssumption DEF IInv, TypeOK, PinUpload, Fault
<1>5. CASE UNCHANGED <<row, intime, expires>>
  <2>1. UNCHANGED <<handler, disk, recent, gc>>
    BY DEF PinUpload
  <2>2. TypeOK'
    BY <1>2, <1>3, <1>4, <1>5, <2>1 DEF IInv, TypeOK
  <2>3. DeploysNameRows'
    BY <1>1, <1>2, <1>3, <1>5, <2>1 DEF IInv, TypeOK, DeploysNameRows, Spent, Creates
  <2>4. AbsentIsFresh' /\ RecordedWasStored' /\ FreshTreesStand' /\ PinnedTreesStand'
    BY <1>5, <2>1
    DEF IInv, AbsentIsFresh, RecordedWasStored, FreshTreesStand, PinnedTreesStand
  <2>5. IdsAreOwn' /\ CollectedIsMoved' /\ ListedAreSpent'
    BY <1>5, <2>1 DEF IInv, IdsAreOwn, CollectedIsMoved, ListedAreSpent, Spent
  <2>. QED
    BY <2>2, <2>3, <2>4, <2>5 DEF IInv
<1>6. CASE /\ Pinnable(u)
           /\ row' = [row EXCEPT ![u].status = "pinned"]
           /\ intime' = [intime EXCEPT ![u] = expires[u] # "past"]
           /\ expires' = [expires EXCEPT ![u] = "month"]
  <2>1. UNCHANGED <<handler, disk, recent, gc>>
    BY DEF PinUpload
  <2>2. [row[u] EXCEPT !.status = "pinned"] \in Rows
    BY <1>1 DEF IInv, TypeOK, Rows
  <2>3. row' = [row EXCEPT ![u] = [row[u] EXCEPT !.status = "pinned"]]
    BY <1>6
  <2>4. row[u].status = "received" /\ row'[u].status = "pinned"
    BY <1>1, <1>6, <2>2, <2>3 DEF IInv, TypeOK, Rows, Pinnable
  <2>5. \A v \in Uploads : v # u => /\ row'[v] = row[v] /\ intime'[v] = intime[v]
                                    /\ expires'[v] = expires[v]
    BY <1>6, <2>3 DEF IInv, TypeOK
  <2>6. intime'[u] = (expires[u] # "past") /\ expires'[u] = "month"
    BY <1>1, <1>6 DEF IInv, TypeOK
  <2>7. TypeOK'
    BY <1>2, <1>3, <1>4, <1>6, <2>1, <2>2, <2>3 DEF IInv, TypeOK
  <2>8. \A v \in Uploads : Spent(v) => Spent(v)'
    BY <2>4, <2>5, <2>6 DEF Spent
  <2>9. AbsentIsFresh' /\ RecordedWasStored' /\ IdsAreOwn'
    BY <2>1, <2>4, <2>5 DEF IInv, AbsentIsFresh, RecordedWasStored, IdsAreOwn
  <2>10. FreshTreesStand' /\ CollectedIsMoved'
    BY <2>1, <2>4, <2>5 DEF IInv, FreshTreesStand, CollectedIsMoved
  <2>11. PinnedTreesStand'
    BY <1>1, <2>1, <2>4, <2>5, <2>6 DEF IInv, TypeOK, FreshTreesStand, PinnedTreesStand
  <2>12. ListedAreSpent'
    BY <2>1, <2>8 DEF IInv, TypeOK, ListedAreSpent, Tasks
  <2>13. DeploysNameRows'
    BY <1>1, <1>2, <1>3, <2>4, <2>5, <2>8 DEF IInv, TypeOK, DeploysNameRows, Creates
  <2>. QED
    BY <2>7, <2>9, <2>10, <2>11, <2>12, <2>13 DEF IInv
<1>. QED
  BY <1>5, <1>6 DEF PinUpload

\* What a workflow gets to hear of its upload.
LEMMA FetchMoves ==
  ASSUME IInv, NEW d \in Deploys, NEW what \in {"allowed", "refused", "got", "gone", "lost"},
         deploy[d].of # NoUpload,
         what \in {"gone", "lost"} => Spent(deploy[d].of),
         deploy' = [deploy EXCEPT ![d].fetch = what],
         UNCHANGED <<handler, uploadVars, gc, faults>>
  PROVE  IInv'
<1> DEFINE e == [deploy[d] EXCEPT !.fetch = what]
<1>1. e \in Creates /\ e.of = deploy[d].of /\ e.fetch = what
  BY DEF IInv, TypeOK, Creates
<1>2. deploy' = [deploy EXCEPT ![d] = e]
  OBVIOUS
<1>3. row[e.of].status # "absent"
  BY <1>1 DEF IInv, DeploysNameRows
<1> HIDE DEF e
<1>. QED
  BY <1>1, <1>2, <1>3, DeployMoves

\* Every step of a deploy.
LEMMA DeployPreserves ==
  ASSUME IInv, NEW d \in Deploys,
         \/ \E u \in Uploads : Dispatch(d, u)
         \/ PinUpload(d) \/ TokenRefused(d) \/ ReadRow(d) \/ OpenArchive(d)
  PROVE  IInv'
<1>1. deploy[d].of # NoUpload => deploy[d].of \in Uploads /\ row[deploy[d].of].status # "absent"
  BY DEF IInv, TypeOK, Creates, DeploysNameRows
<1>2. CASE \E u \in Uploads : Dispatch(d, u)
  <2>1. PICK u \in Uploads : Dispatch(d, u)
    BY <1>2
  <2>2. [of |-> u, pin |-> "todo", fetch |-> "none"] \in Creates
    BY DEF Creates
  <2>. QED
    BY <2>1, <2>2, DeployMoves, UploadAssumption DEF Dispatch
<1>3. CASE PinUpload(d)
  BY <1>3, PinUploadPreserves
<1>4. CASE TokenRefused(d)
  BY <1>4, FetchMoves DEF TokenRefused
<1>5. CASE ReadRow(d)
  <2>1. deploy[d].of # NoUpload
    BY <1>5 DEF ReadRow
  <2>2. PICK what \in {"allowed", "gone"} :
           /\ deploy' = [deploy EXCEPT ![d].fetch = what]
           /\ what = "gone" => row[deploy[d].of].status \notin {"received", "pinned"}
    BY <1>5 DEF ReadRow, GetUpload
  <2>3. what = "gone" => Spent(deploy[d].of)
    BY <1>1, <2>1, <2>2 DEF Spent, IInv, PinnedTreesStand
  <2>. QED
    BY <1>5, <2>1, <2>2, <2>3, FetchMoves DEF ReadRow
<1>6. CASE OpenArchive(d)
  <2>1. deploy[d].of # NoUpload
    BY <1>6 DEF OpenArchive, IInv, DeploysNameRows
  <2>2. PICK what \in {"got", "lost"} :
           /\ deploy' = [deploy EXCEPT ![d].fetch = what]
           /\ what = "lost" => disk[deploy[d].of] # "tree"
    BY <1>6 DEF OpenArchive, ArchiveOnDisk
  <2>3. what = "lost" => Spent(deploy[d].of)
    BY <1>1, <2>1, <2>2 DEF Spent, IInv, PinnedTreesStand, FreshTreesStand
  <2>. QED
    BY <1>6, <2>1, <2>2, <2>3, FetchMoves DEF OpenArchive
<1>. QED
  BY <1>2, <1>3, <1>4, <1>5, <1>6

-----------------------------------------------------------------------------
(* The collector.                                                            *)
LEMMA DueAreSpent == ASSUME IInv, NEW u \in Due PROVE u \in Uploads /\ Spent(u)
  BY DEF IInv, Due, Alive, Spent, PinnedTreesStand

LEMMA DeleteTreePreserves == ASSUME IInv, NEW g \in Collectors, DeleteTree(g) PROVE IInv'
<1>1. PICK u \in gc[g].listed :
         /\ disk' = [disk EXCEPT ![u] = "trash"]
         /\ gc' = [gc EXCEPT ![g] = [at |-> "mark", id |-> u,
                                     listed |-> gc[g].listed \ {u}]]
  BY DEF DeleteTree
<1>2. UNCHANGED <<handler, row, expires, recent, intime, deploy, faults>>
  BY DEF DeleteTree
<1>3. u \in Uploads /\ Spent(u)
  BY DEF IInv, TypeOK, Tasks, ListedAreSpent
<1>4. [at |-> "mark", id |-> u, listed |-> gc[g].listed \ {u}] \in Tasks
  BY <1>3 DEF IInv, TypeOK, Tasks
<1>5. TypeOK'
  BY <1>1, <1>2, <1>3, <1>4 DEF IInv, TypeOK
<1>6. AbsentIsFresh' /\ RecordedWasStored' /\ IdsAreOwn'
  BY <1>1, <1>2, <1>3 DEF IInv, TypeOK, AbsentIsFresh, RecordedWasStored, IdsAreOwn, Spent
<1>7. FreshTreesStand' /\ PinnedTreesStand' /\ CollectedIsMoved'
  BY <1>1, <1>2, <1>3
  DEF IInv, TypeOK, FreshTreesStand, PinnedTreesStand, CollectedIsMoved, Spent
<1>8. ListedAreSpent'
  BY <1>1, <1>2, <1>3, <1>4 DEF IInv, TypeOK, Tasks, ListedAreSpent, Spent
<1>9. DeploysNameRows'
  BY <1>2 DEF IInv, DeploysNameRows, Spent
<1>. QED
  BY <1>5, <1>6, <1>7, <1>8, <1>9 DEF IInv

\* The next row is never one to be marked.
LEMMA NextTask ==
  ASSUME IInv, NEW g \in Collectors, NextRow(g)
  PROVE  \E t \in Tasks : /\ gc' = [gc EXCEPT ![g] = t]
                          /\ t.at # "mark" /\ t.listed \subseteq gc[g].listed
<1> DEFINE t == IF gc[g].listed = {} THEN NoTask
                ELSE [gc[g] EXCEPT !.at = "next", !.id = NoUpload]
<1>1. gc' = [gc EXCEPT ![g] = t]
  BY DEF NextRow
<1>2. t \in Tasks /\ t.at # "mark" /\ t.listed \subseteq gc[g].listed
  BY DEF IInv, TypeOK, Tasks, NoTask
<1>. QED
  BY <1>1, <1>2

LEMMA MarkUploadGCdPreserves ==
  ASSUME IInv, NEW g \in Collectors, MarkUploadGCd(g) PROVE IInv'
<1> DEFINE u == gc[g].id
<1>1. u \in Uploads /\ disk[u] = "trash" /\ Spent(u)
  BY DEF IInv, ListedAreSpent, MarkUploadGCd
<1>2. PICK t \in Tasks : /\ gc' = [gc EXCEPT ![g] = t]
                         /\ t.at # "mark" /\ t.listed \subseteq gc[g].listed
  BY NextTask DEF MarkUploadGCd
<1>3. row' = [row EXCEPT ![u] = [row[u] EXCEPT !.status = "gc'd"]]
  BY DEF MarkUploadGCd
<1>4. [row[u] EXCEPT !.status = "gc'd"] \in Rows /\ row'[u].status = "gc'd"
  BY <1>1, <1>3 DEF IInv, TypeOK, Rows
<1>5. UNCHANGED <<handler, disk, expires, recent, intime, deploy, faults>>
  BY DEF MarkUploadGCd
<1>6. \A v \in Uploads : v # u => row'[v] = row[v]
  BY <1>3 DEF IInv, TypeOK
<1>7. TypeOK'
  BY <1>1, <1>2, <1>3, <1>4, <1>5 DEF IInv, TypeOK
<1>8. AbsentIsFresh' /\ RecordedWasStored' /\ IdsAreOwn'
  BY <1>1, <1>4, <1>5, <1>6 DEF IInv, AbsentIsFresh, RecordedWasStored, IdsAreOwn, Spent
<1>9. FreshTreesStand' /\ PinnedTreesStand' /\ CollectedIsMoved'
  BY <1>1, <1>4, <1>5, <1>6
  DEF IInv, FreshTreesStand, PinnedTreesStand, CollectedIsMoved, Spent
<1>10. \A v \in Uploads : Spent(v) => Spent(v)'
  BY <1>4, <1>5, <1>6 DEF Spent
<1>11. ListedAreSpent'
  BY <1>2, <1>5, <1>10 DEF IInv, TypeOK, Tasks, ListedAreSpent
<1>12. DeploysNameRows'
  BY <1>4, <1>5, <1>6, <1>10 DEF IInv, TypeOK, DeploysNameRows, Creates
<1>. QED
  BY <1>7, <1>8, <1>9, <1>11, <1>12 DEF IInv

\* Every step of a collector.
LEMMA CollectorPreserves ==
  ASSUME IInv, NEW g \in Collectors, Collect(g) \/ RowFails(g) \/ CollectorDies(g)
  PROVE  IInv'
<1>1. faults \in 0 .. MaxFaults /\ (Fault => faults' \in 0 .. MaxFaults)
  BY UploadAssumption DEF IInv, TypeOK, Fault
<1>2. NoTask \in Tasks /\ NoTask.at # "mark" /\ NoTask.listed = {}
  BY DEF NoTask, Tasks
<1>3. \A u \in gc[g].listed : Spent(u)
  BY DEF IInv, ListedAreSpent
<1>4. CASE ListExpiredUploads(g)
  <2>1. PICK some \in SUBSET Due :
           gc' = [gc EXCEPT ![g] = [NoTask EXCEPT !.at = "next", !.listed = some]]
    BY <1>4 DEF ListExpiredUploads
  <2> DEFINE t == [NoTask EXCEPT !.at = "next", !.listed = some]
  <2>2. t \in Tasks /\ t.at # "mark" /\ t.listed = some
    BY DEF NoTask, Tasks, Due
  <2>3. \A u \in t.listed : Spent(u)
    BY <2>2, DueAreSpent
  <2>. QED
    BY <1>1, <1>4, <2>1, <2>2, <2>3, CollectorMoves DEF ListExpiredUploads
<1>5. CASE DeleteTree(g)
  BY <1>5, DeleteTreePreserves
<1>6. CASE MarkUploadGCd(g)
  BY <1>6, MarkUploadGCdPreserves
<1>7. CASE RowFails(g)
  <2>1. UNCHANGED <<handler, uploadVars, deploy>> /\ faults' \in 0 .. MaxFaults
    BY <1>1, <1>7 DEF RowFails
  <2>2. CASE NextRow(g)
    <3>1. PICK t \in Tasks : /\ gc' = [gc EXCEPT ![g] = t]
                             /\ t.at # "mark" /\ t.listed \subseteq gc[g].listed
      BY <2>2, NextTask
    <3>. QED
      BY <1>3, <2>1, <3>1, CollectorMoves
  <2>3. ASSUME NEW u \in gc[g].listed, gc[g].at = "next",
               gc' = [gc EXCEPT ![g] = IF gc[g].listed \ {u} = {} THEN NoTask
                                       ELSE [@ EXCEPT !.listed = gc[g].listed \ {u}]]
        PROVE  IInv'
    <3> DEFINE t == IF gc[g].listed \ {u} = {} THEN NoTask
                    ELSE [gc[g] EXCEPT !.listed = gc[g].listed \ {u}]
    <3>1. t \in Tasks /\ t.at # "mark" /\ t.listed \subseteq gc[g].listed
      BY <1>2, <2>3 DEF IInv, TypeOK, Tasks
    <3>2. gc' = [gc EXCEPT ![g] = t]
      BY <2>3
    <3>. QED
      BY <1>3, <2>1, <3>1, <3>2, CollectorMoves
  <2>. QED
    BY <1>7, <2>2, <2>3 DEF RowFails
<1>8. CASE CollectorDies(g)
  BY <1>1, <1>2, <1>8, CollectorMoves DEF CollectorDies
<1>. QED
  BY <1>4, <1>5, <1>6, <1>7, <1>8 DEF Collect

-----------------------------------------------------------------------------
LEMMA NextPreserves == ASSUME IInv, [Next]_vars PROVE IInv'
<1>1. ASSUME NEW q \in Handlers, Upload(q) PROVE IInv'
  BY <1>1, UploadPreserves
<1>2. ASSUME NEW u \in Uploads, DayPasses(u) \/ MonthPasses(u) PROVE IInv'
  BY <1>2, DayPassesPreserves, MonthPassesPreserves
<1>3. ASSUME NEW d \in Deploys,
             \/ \E u \in Uploads : Dispatch(d, u)
             \/ PinUpload(d) \/ TokenRefused(d) \/ ReadRow(d) \/ OpenArchive(d)
      PROVE  IInv'
  BY <1>3, DeployPreserves
<1>4. ASSUME NEW g \in Collectors, Collect(g) \/ RowFails(g) \/ CollectorDies(g)
      PROVE  IInv'
  BY <1>4, CollectorPreserves
<1>5. CASE UNCHANGED vars
  <2>1. UNCHANGED <<handler, disk, row, expires, recent, intime, deploy, gc, faults>>
    BY <1>5 DEF vars, uploadVars
  <2>2. TypeOK' /\ AbsentIsFresh' /\ RecordedWasStored' /\ IdsAreOwn'
    BY <2>1 DEF IInv, TypeOK, AbsentIsFresh, RecordedWasStored, IdsAreOwn
  <2>3. FreshTreesStand' /\ PinnedTreesStand' /\ CollectedIsMoved'
    BY <2>1 DEF IInv, FreshTreesStand, PinnedTreesStand, CollectedIsMoved
  <2>4. ListedAreSpent' /\ DeploysNameRows'
    BY <2>1 DEF IInv, ListedAreSpent, DeploysNameRows, Spent
  <2>. QED
    BY <2>2, <2>3, <2>4 DEF IInv
<1>. QED
  BY <1>1, <1>2, <1>3, <1>4, <1>5 DEF Next

\* The invariant holds in every state of every behaviour of the uploads.
THEOREM InductiveInvariant == Spec => []IInv
  BY InitEstablishes, NextPreserves, PTL DEF Spec

-----------------------------------------------------------------------------
\* Every variable of the uploads keeps to its values.
THEOREM TypeCorrect == Spec => []TypeOK
<1>1. IInv => TypeOK
  BY DEF IInv
<1>. QED
  BY <1>1, InductiveInvariant, PTL

\* The collector never leaves files behind whose row says they are gone, however
\* many replicas collect and whatever fails in between.
THEOREM FilesGoFirst == Spec => []CollectedMeansGone
<1>1. IInv => CollectedMeansGone
  BY DEF IInv, CollectedIsMoved, CollectedMeansGone
<1>. QED
  BY <1>1, InductiveInvariant, PTL

\* The archive of an upload that was pinned before it had expired stays for the
\* time of the pin, and no workflow is turned away from it.
THEOREM PinsHold == Spec => []PinsInTimeHold
<1>1. ASSUME IInv PROVE PinsInTimeHold
  <2>1. \A u \in Uploads : intime[u] => disk[u] = "tree" /\ Alive(u)
    BY <1>1 DEF IInv, PinnedTreesStand, Alive
  <2>2. \A d \in Deploys : deploy[d].fetch \in {"gone", "lost"} => ~intime[deploy[d].of]
    BY <1>1 DEF IInv, DeploysNameRows, Spent
  <2>. QED
    BY <2>1, <2>2 DEF PinsInTimeHold
<1>. QED
  BY <1>1, InductiveInvariant, PTL

-----------------------------------------------------------------------------
(* The quota.  A request past the last of its checks has reserved a whole    *)
(* archive; reserved and stored bytes together stay within the bound.        *)

Receiving == {q \in Handlers : handler[q].at \in {"body", "record"}}

ReservationsAreBounded ==
    SumInertBytesByTeam + Cardinality(Receiving) * MaxArchive
        <= MaxInert + (Cardinality(Handlers) - 1) * MaxArchive

LEMMA MoreOfArchives ==
  ASSUME NEW m \in Nat, NEW a \in Nat, NEW b \in Nat, a <= b
  PROVE  a * m \in Nat /\ b * m \in Nat /\ a * m <= b * m /\ (a + 1) * m = a * m + m
  OBVIOUS

LEMMA SetsAreFinite ==
    /\ IsFiniteSet(Uploads \X (1 .. MaxArchive))
    /\ \A u : Cardinality({u} \X (1 .. MaxArchive)) = MaxArchive
              /\ IsFiniteSet({u} \X (1 .. MaxArchive))
    /\ IsFiniteSet(Bytes) /\ Cardinality(Bytes) \in Nat
    /\ IsFiniteSet(Receiving) /\ Cardinality(Receiving) \in Nat
    /\ Cardinality(Handlers) \in Nat /\ Cardinality(Receiving) <= Cardinality(Handlers)
    /\ Cardinality(Handlers) >= 1
<1>1. IsFiniteSet(1 .. MaxArchive) /\ Cardinality(1 .. MaxArchive) = MaxArchive
  BY FS_Interval, UploadAssumption
<1>2. IsFiniteSet(Uploads)
  BY FS_Interval, UploadAssumption DEF Uploads
<1>3. IsFiniteSet(Uploads \X (1 .. MaxArchive))
  BY <1>1, <1>2, FS_Product
<1>4. ASSUME NEW u
      PROVE  Cardinality({u} \X (1 .. MaxArchive)) = MaxArchive
             /\ IsFiniteSet({u} \X (1 .. MaxArchive))
  <2>1. IsFiniteSet({u}) /\ Cardinality({u}) = 1
    BY FS_Singleton
  <2>2. Cardinality({u} \X (1 .. MaxArchive)) = 1 * MaxArchive
        /\ IsFiniteSet({u} \X (1 .. MaxArchive))
    BY <1>1, <2>1, FS_Product
  <2>. QED
    BY <2>2, UploadAssumption
<1>5. IsFiniteSet(Bytes)
  <2>1. Bytes \in SUBSET (Uploads \X (1 .. MaxArchive))
    BY DEF Bytes
  <2>. QED
    BY <1>3, <2>1, FS_Subset
<1>6. IsFiniteSet(Receiving) /\ Cardinality(Receiving) <= Cardinality(Handlers)
  <2>1. Receiving \in SUBSET Handlers
    BY DEF Receiving
  <2>. QED
    BY <2>1, FS_Subset, UploadAssumption
<1>7. Cardinality(Handlers) \in Nat /\ Cardinality(Handlers) # 0
  BY FS_CardinalityType, FS_EmptySet, UploadAssumption
<1>8. Cardinality(Bytes) \in Nat /\ Cardinality(Receiving) \in Nat
  BY <1>5, <1>6, FS_CardinalityType
<1>. QED
  BY <1>3, <1>4, <1>5, <1>6, <1>7, <1>8

\* What neither stores more nor reserves more keeps the bound.
LEMMA ReleasesKeepBound ==
  ASSUME ReservationsAreBounded, Bytes' \subseteq Bytes, Receiving' \subseteq Receiving
  PROVE  ReservationsAreBounded'
<1>1. Cardinality(Bytes') \in Nat /\ Cardinality(Bytes') <= Cardinality(Bytes)
  <2>1. Bytes' \in SUBSET Bytes /\ IsFiniteSet(Bytes)
    BY SetsAreFinite
  <2>2. IsFiniteSet(Bytes') /\ Cardinality(Bytes') <= Cardinality(Bytes)
    BY <2>1, FS_Subset
  <2>. QED
    BY <2>2, FS_CardinalityType
<1>2. Cardinality(Receiving') \in Nat /\ Cardinality(Receiving') <= Cardinality(Receiving)
  <2>1. Receiving' \in SUBSET Receiving /\ IsFiniteSet(Receiving)
    BY SetsAreFinite
  <2>2. IsFiniteSet(Receiving') /\ Cardinality(Receiving') <= Cardinality(Receiving)
    BY <2>1, FS_Subset
  <2>. QED
    BY <2>2, FS_CardinalityType
<1>3. Cardinality(Receiving') * MaxArchive <= Cardinality(Receiving) * MaxArchive
      /\ Cardinality(Receiving') * MaxArchive \in Nat
      /\ Cardinality(Receiving) * MaxArchive \in Nat
  BY <1>2, MoreOfArchives, SetsAreFinite, UploadAssumption
<1>4. MaxInert + (Cardinality(Handlers) - 1) * MaxArchive \in Nat
  <2>1. Cardinality(Handlers) - 1 \in Nat
    BY SetsAreFinite
  <2>2. (Cardinality(Handlers) - 1) * MaxArchive \in Nat
    BY <2>1, MoreOfArchives, UploadAssumption
  <2>. QED
    BY <2>2, UploadAssumption
<1> DEFINE a == Cardinality(Bytes)
           a2 == Cardinality(Bytes')
           r == Cardinality(Receiving) * MaxArchive
           r2 == Cardinality(Receiving') * MaxArchive
           top == MaxInert + (Cardinality(Handlers) - 1) * MaxArchive
<1>5. a + r <= top
  BY DEF ReservationsAreBounded, SumInertBytesByTeam
<1>6. a \in Nat /\ a2 \in Nat /\ a2 <= a /\ r \in Nat /\ r2 \in Nat /\ r2 <= r /\ top \in Nat
  BY <1>1, <1>3, <1>4, SetsAreFinite
<1>7. a2 + r2 <= top
  <2> HIDE DEF a, a2, r, r2, top
  <2>. QED
    BY <1>5, <1>6
<1>. QED
  BY <1>7 DEF ReservationsAreBounded, SumInertBytesByTeam

\* The check of the inert bytes reserves an archive for its request.
LEMMA ReservingKeepsBound ==
  ASSUME IInv, ReservationsAreBounded, NEW q \in Handlers, CheckInert(q)
  PROVE  ReservationsAreBounded'
<1>1. Bytes' = Bytes
  BY DEF CheckInert, uploadVars, Bytes, Alive
<1>2. CASE SumInertBytesByTeam + MaxArchive > MaxInert
  <2>1. Receiving' \subseteq Receiving
    BY <1>2 DEF IInv, TypeOK, CheckInert, Answer, Waiting, Receiving
  <2>. QED
    BY <1>1, <2>1, ReleasesKeepBound
<1>3. CASE ~(SumInertBytesByTeam + MaxArchive > MaxInert)
  <2>1. handler' = [handler EXCEPT ![q].at = "body"] /\ handler[q].at = "inert"
    BY <1>3 DEF CheckInert, Goto
  <2>2. handler \in [Handlers -> Calls]
    BY DEF IInv, TypeOK
  <2>3. \A p \in Handlers : handler'[p].at = IF p = q THEN "body" ELSE handler[p].at
    BY <2>1, <2>2 DEF Calls
  <2>4. Receiving' = Receiving \cup {q} /\ q \notin Receiving
    BY <2>1, <2>3 DEF Receiving
  <2>5. Cardinality(Receiving') = Cardinality(Receiving) + 1
    BY <2>4, SetsAreFinite, FS_AddElement
  <2>6. Cardinality(Receiving') <= Cardinality(Handlers)
    <3>1. Receiving' \in SUBSET Handlers
      BY DEF Receiving
    <3>. QED
      BY <3>1, FS_Subset, UploadAssumption
  <2> DEFINE n == Cardinality(Receiving)
             top == Cardinality(Handlers)
             sum == Cardinality(Bytes)
  <2>7. n \in Nat /\ top \in Nat /\ n + 1 <= top /\ sum \in Nat
        /\ sum + MaxArchive <= MaxInert
    BY <1>3, <2>5, <2>6, SetsAreFinite, UploadAssumption DEF SumInertBytesByTeam
  <2>8. sum + (n + 1) * MaxArchive <= MaxInert + (top - 1) * MaxArchive
    <3> HIDE DEF n, top, sum
    <3>1. top - 1 \in Nat /\ n <= top - 1
      BY <2>7
    <3>2. /\ n * MaxArchive \in Nat /\ (top - 1) * MaxArchive \in Nat
          /\ n * MaxArchive <= (top - 1) * MaxArchive
          /\ (n + 1) * MaxArchive = n * MaxArchive + MaxArchive
      BY <2>7, <3>1, MoreOfArchives, UploadAssumption
    <3>. QED
      BY <2>7, <3>2, UploadAssumption
  <2>. QED
    BY <1>1, <2>5, <2>8 DEF ReservationsAreBounded, SumInertBytesByTeam
<1>. QED
  BY <1>2, <1>3

\* A recorded archive takes no more than was reserved for it.
LEMMA RecordingKeepsBound ==
  ASSUME IInv, ReservationsAreBounded, NEW q \in Handlers, InsertUpload(q)
  PROVE  ReservationsAreBounded'
<1> DEFINE u == handler[q].id
           whole == {u} \X (1 .. MaxArchive)
<1>1. PICK size \in 1 .. MaxArchive :
         row' = [row EXCEPT ![u] = [status |-> "received", size |-> size]]
  BY DEF InsertUpload
<1>2. u \in Uploads /\ row \in [Uploads -> Rows] /\ handler \in [Handlers -> Calls]
  BY DEF IInv, TypeOK, IdsAreOwn, InsertUpload
<1>3. Bytes' \subseteq Bytes \cup whole
  <2> SUFFICES ASSUME NEW c \in Bytes', c[1] # u PROVE c \in Bytes
    BY DEF Bytes
  <2>1. row'[c[1]] = row[c[1]]
    BY <1>1, <1>2 DEF Bytes
  <2>. QED
    BY <2>1 DEF Bytes, Alive
<1>4. Cardinality(Bytes') \in Nat /\ Cardinality(Bytes') <= Cardinality(Bytes) + MaxArchive
  <2>1. IsFiniteSet(Bytes) /\ IsFiniteSet(whole) /\ Cardinality(whole) = MaxArchive
    BY SetsAreFinite
  <2>2. IsFiniteSet(Bytes \cup whole)
        /\ Cardinality(Bytes \cup whole)
             = Cardinality(Bytes) + Cardinality(whole) - Cardinality(Bytes \cap whole)
    BY <2>1, FS_Union
  <2>3. IsFiniteSet(Bytes \cap whole)
    <3>1. Bytes \cap whole \in SUBSET whole
      OBVIOUS
    <3>. QED
      BY <2>1, <3>1, FS_Subset
  <2>4. Cardinality(Bytes \cap whole) \in Nat
    BY <2>3, FS_CardinalityType
  <2>5. IsFiniteSet(Bytes') /\ Cardinality(Bytes') <= Cardinality(Bytes \cup whole)
    <3>1. Bytes' \in SUBSET (Bytes \cup whole)
      BY <1>3
    <3>. QED
      BY <2>2, <3>1, FS_Subset
  <2>6. Cardinality(Bytes') \in Nat
    BY <2>5, FS_CardinalityType
  <2>7. Cardinality(Bytes) \in Nat /\ MaxArchive \in Nat
    BY SetsAreFinite, UploadAssumption
  <2>. QED
    BY <2>1, <2>2, <2>4, <2>5, <2>6, <2>7
<1>5. handler' = [handler EXCEPT ![q] = Waiting] /\ handler[q].at = "record"
  BY DEF InsertUpload, Answer
<1>6. \A p \in Handlers : handler'[p].at = IF p = q THEN "idle" ELSE handler[p].at
  BY <1>2, <1>5 DEF Waiting
<1>7. Receiving' = Receiving \ {q} /\ q \in Receiving
  BY <1>5, <1>6 DEF Receiving
<1>8. Cardinality(Receiving') = Cardinality(Receiving) - 1
  BY <1>7, SetsAreFinite, FS_RemoveElement
<1>9. Cardinality(Receiving') \in Nat
  <2>1. IsFiniteSet(Receiving')
    BY <1>7, SetsAreFinite, FS_RemoveElement
  <2>. QED
    BY <2>1, FS_CardinalityType
<1> DEFINE n == Cardinality(Receiving')
           r == n * MaxArchive
           r2 == Cardinality(Receiving) * MaxArchive
           top == MaxInert + (Cardinality(Handlers) - 1) * MaxArchive
           sum == Cardinality(Bytes)
           sum2 == Cardinality(Bytes')
<1>10. r \in Nat /\ r2 = r + MaxArchive
  <2>1. Cardinality(Receiving) = n + 1
    BY <1>8, SetsAreFinite
  <2>2. n * MaxArchive \in Nat /\ (n + 1) * MaxArchive = n * MaxArchive + MaxArchive
    BY <1>9, MoreOfArchives, UploadAssumption
  <2>. QED
    BY <2>1, <2>2
<1>11. sum + r2 <= top
  BY DEF ReservationsAreBounded, SumInertBytesByTeam
<1>12. top \in Nat /\ sum \in Nat /\ sum2 \in Nat /\ sum2 <= sum + MaxArchive /\ MaxArchive \in Nat
  <2>1. Cardinality(Handlers) - 1 \in Nat
    BY SetsAreFinite
  <2>2. (Cardinality(Handlers) - 1) * MaxArchive \in Nat
    BY <2>1, MoreOfArchives, UploadAssumption
  <2>. QED
    BY <1>4, <2>2, SetsAreFinite, UploadAssumption
<1>13. sum2 + r <= top
  <2> HIDE DEF n, r, r2, top, sum, sum2
  <2>. QED
    BY <1>10, <1>11, <1>12
<1>. QED
  BY <1>13 DEF ReservationsAreBounded, SumInertBytesByTeam

\* Every other step of a request leaves the rows alone and reserves nothing.
LEMMA UploadKeepsBound ==
  ASSUME IInv, ReservationsAreBounded, NEW q \in Handlers, Upload(q)
  PROVE  ReservationsAreBounded'
<1>1. CASE CheckInert(q)
  BY <1>1, ReservingKeepsBound
<1>2. CASE InsertUpload(q)
  BY <1>2, RecordingKeepsBound
<1>3. CASE CheckPinned(q) \/ CheckDaily(q) \/ ReceiveArchive(q) \/ ExtractFails(q)
           \/ FormRefused(q) \/ HandlerFails(q)
  <2>1. row' = row
    BY <1>3 DEF CheckPinned, CheckDaily, ReceiveArchive, ExtractFails, FormRefused,
                HandlerFails, uploadVars
  <2>2. Bytes' = Bytes
    BY <2>1 DEF Bytes, Alive
  <2>3. \A p \in Handlers :
           handler'[p].at \in {"body", "record"} => handler[p].at \in {"body", "record"}
    <3>1. handler \in [Handlers -> Calls]
      BY DEF IInv, TypeOK
    <3>2. CASE CheckPinned(q) \/ CheckDaily(q)
      BY <3>1, <3>2 DEF CheckPinned, CheckDaily, Goto, Answer, Waiting, Calls
    <3>3. CASE ReceiveArchive(q)
      <4>1. PICK v \in Drawn : handler' = [handler EXCEPT ![q] = [at |-> "record", id |-> v]]
        BY <3>3 DEF ReceiveArchive
      <4>2. handler[q].at = "body"
        BY <3>3 DEF ReceiveArchive
      <4>. QED
        BY <3>1, <4>1, <4>2
    <3>4. CASE ExtractFails(q) \/ FormRefused(q) \/ HandlerFails(q)
      <4>1. handler' = [handler EXCEPT ![q] = Waiting]
        BY <3>4 DEF ExtractFails, FormRefused, HandlerFails, Answer
      <4>. QED
        BY <3>1, <4>1 DEF Waiting
    <3>. QED
      BY <1>3, <3>2, <3>3, <3>4
  <2>4. Receiving' \subseteq Receiving
    BY <2>3 DEF Receiving
  <2>. QED
    BY <2>2, <2>4, ReleasesKeepBound
<1>. QED
  BY <1>1, <1>2, <1>3 DEF Upload

\* Nobody else records an upload, or revives one.
LEMMA OthersKeepBound ==
  ASSUME IInv, ReservationsAreBounded, UNCHANGED handler,
         \A u \in Uploads : row'[u].status \in {"received", "pinned"} =>
             Alive(u) /\ row'[u].size = row[u].size
  PROVE  ReservationsAreBounded'
<1>1. Bytes' \subseteq Bytes
  BY DEF Bytes, Alive
<1>2. Receiving' = Receiving
  BY DEF Receiving
<1>. QED
  BY <1>1, <1>2, ReleasesKeepBound

LEMMA BoundPreserved == ASSUME IInv, ReservationsAreBounded, [Next]_vars PROVE ReservationsAreBounded'
<1>0. row \in [Uploads -> Rows]
  BY DEF IInv, TypeOK
<1>1. ASSUME NEW q \in Handlers, Upload(q) PROVE ReservationsAreBounded'
  BY <1>1, UploadKeepsBound
<1>2. ASSUME UNCHANGED <<handler, row>> PROVE ReservationsAreBounded'
  BY <1>2, OthersKeepBound DEF Alive
<1>3. ASSUME NEW d \in Deploys, PinUpload(d) PROVE ReservationsAreBounded'
  <2> DEFINE v == deploy[d].of
  <2>1. CASE row' = row
    BY <1>2, <1>3, <2>1 DEF PinUpload
  <2>2. CASE Pinnable(v) /\ row' = [row EXCEPT ![v].status = "pinned"]
    <3>1. \A u \in Uploads : /\ row'[u].size = row[u].size
                             /\ row'[u].status = IF u = v THEN "pinned" ELSE row[u].status
      BY <1>0, <2>2 DEF Rows
    <3>2. \A u \in Uploads : row'[u].status \in {"received", "pinned"} =>
             Alive(u) /\ row'[u].size = row[u].size
      BY <2>2, <3>1 DEF Alive, Pinnable
    <3>. QED
      BY <1>3, <3>2, OthersKeepBound DEF PinUpload
  <2>. QED
    BY <1>3, <2>1, <2>2 DEF PinUpload
<1>4. ASSUME NEW g \in Collectors, MarkUploadGCd(g) PROVE ReservationsAreBounded'
  <2> DEFINE v == gc[g].id
  <2>1. row' = [row EXCEPT ![v].status = "gc'd"] /\ UNCHANGED handler
    BY <1>4 DEF MarkUploadGCd
  <2>2. \A u \in Uploads : /\ row'[u].size = row[u].size
                           /\ row'[u].status = IF u = v THEN "gc'd" ELSE row[u].status
    BY <1>0, <2>1 DEF Rows
  <2>. QED
    BY <2>1, <2>2, OthersKeepBound DEF Alive
<1>5. ASSUME NEW u \in Uploads, DayPasses(u) \/ MonthPasses(u)
      PROVE  UNCHANGED <<handler, row>>
  BY <1>5 DEF DayPasses, MonthPasses
<1>6. ASSUME NEW d \in Deploys,
             (\E u \in Uploads : Dispatch(d, u)) \/ TokenRefused(d) \/ ReadRow(d) \/ OpenArchive(d)
      PROVE  UNCHANGED <<handler, row>>
  BY <1>6 DEF Dispatch, TokenRefused, ReadRow, OpenArchive, uploadVars
<1>7. ASSUME NEW g \in Collectors,
             ListExpiredUploads(g) \/ DeleteTree(g) \/ RowFails(g) \/ CollectorDies(g)
      PROVE  UNCHANGED <<handler, row>>
  BY <1>7 DEF ListExpiredUploads, DeleteTree, RowFails, CollectorDies, uploadVars
<1>8. CASE UNCHANGED vars
  BY <1>2, <1>8 DEF vars, uploadVars
<1>9. CASE Next
  BY <1>1, <1>2, <1>3, <1>4, <1>5, <1>6, <1>7, <1>9 DEF Next, Collect
<1>. QED
  BY <1>8, <1>9

LEMMA NothingIsStored == Init => ReservationsAreBounded
<1> SUFFICES ASSUME Init PROVE ReservationsAreBounded
  OBVIOUS
<1>1. Bytes = {} /\ Receiving = {}
  BY DEF Init, Bytes, Alive, NoRow, Receiving, Waiting
<1>2. Cardinality(Bytes) = 0 /\ Cardinality(Receiving) = 0
  BY <1>1, FS_EmptySet
<1>3. Cardinality(Handlers) - 1 \in Nat
  BY SetsAreFinite
<1>4. (Cardinality(Handlers) - 1) * MaxArchive \in Nat /\ 0 * MaxArchive = 0
  BY <1>3, MoreOfArchives, UploadAssumption
<1>. QED
  BY <1>2, <1>4, UploadAssumption DEF ReservationsAreBounded, SumInertBytesByTeam

\* What a team keeps exceeds its quota by at most one archive for every other
\* upload under way: the check and the insert are not one statement, and the
\* reservation of a whole archive is what bounds the race (checkUploadQuota).
THEOREM OvershootBounded == Spec => []OvershootIsBounded
<1>1. ReservationsAreBounded => OvershootIsBounded
  <2> SUFFICES ASSUME ReservationsAreBounded PROVE OvershootIsBounded
    OBVIOUS
  <2> DEFINE r == Cardinality(Receiving) * MaxArchive
             top == MaxInert + (Cardinality(Handlers) - 1) * MaxArchive
             sum == Cardinality(Bytes)
  <2>1. sum + r <= top
    BY DEF ReservationsAreBounded, SumInertBytesByTeam
  <2>2. Cardinality(Handlers) - 1 \in Nat
    BY SetsAreFinite
  <2>3. (Cardinality(Handlers) - 1) * MaxArchive \in Nat
    BY <2>2, MoreOfArchives, UploadAssumption
  <2>4. r \in Nat /\ top \in Nat /\ sum \in Nat
    BY <2>3, MoreOfArchives, SetsAreFinite, UploadAssumption
  <2>5. sum <= top
    <3> HIDE DEF r, top, sum
    <3>. QED
      BY <2>1, <2>4
  <2>. QED
    BY <2>5 DEF OvershootIsBounded, SumInertBytesByTeam
<1>2. IInv /\ ReservationsAreBounded /\ [Next]_vars => (IInv /\ ReservationsAreBounded)'
  BY NextPreserves, BoundPreserved
<1>. QED
  BY <1>1, <1>2, InitEstablishes, NothingIsStored, PTL DEF Spec

-----------------------------------------------------------------------------
(* The installation of the GitHub App.                                       *)

LEMMA InstallInit == Installation!Init => Installation!IInv
<1> SUFFICES ASSUME Installation!Init PROVE Installation!IInv
  OBVIOUS
<1>1. Installation!TypeOK
  BY DEF Installation!Init, Installation!TypeOK, Installation!Idle, Installation!Places,
         Installation!Done
<1>2. Installation!SeenAppsExist /\ Installation!PausesHold
  BY DEF Installation!Init, Installation!SeenAppsExist, Installation!PausesHold,
         Installation!Idle
<1>. QED
  BY <1>1, <1>2 DEF Installation!IInv

\* What a step must see to: apps stay and stay paused, a handler learns only of
\* apps that exist, and one that gets as far as clearing has paused what it saw.
LEMMA InstallMoves ==
  ASSUME Installation!IInv, Installation!TypeOK',
         \A a \in Apps : /\ iApp[a] # "absent" => iApp'[a] # "absent"
                         /\ iApp[a] = "paused" => iApp'[a] = "paused",
         \A h \in Installation!Clearers :
             iOlder'[h] \subseteq iOlder[h] \/ iOlder'[h] \subseteq Installation!Existing',
         \A e \in Installation!Events : iHook'[e] = "paused" =>
             \/ iHook[e] = "paused" /\ iOlder'[e] \subseteq iOlder[e]
             \/ \A a \in iOlder'[e] : iApp'[a] = "paused",
         \A r \in Requests : iCall'[r].at = "paused" =>
             \/ iCall[r].at = "paused" /\ iOlder'[r] \subseteq iOlder[r]
             \/ \A a \in iOlder'[r] : iApp'[a] = "paused"
  PROVE  Installation!IInv'
<1>1. \A h \in Installation!Clearers : iOlder[h] \subseteq Apps
  BY DEF Installation!IInv, Installation!TypeOK
<1>2. Installation!SeenAppsExist'
  BY <1>1 DEF Installation!IInv, Installation!SeenAppsExist, Installation!Existing
<1>3. \A e \in Installation!Events : e \in Installation!Clearers
  BY DEF Installation!Clearers
<1>4. \A r \in Requests : r \in Installation!Clearers
  BY DEF Installation!Clearers
<1>5. ASSUME NEW e \in Installation!Events, iHook'[e] = "paused", NEW a \in iOlder'[e]
      PROVE  iApp'[a] = "paused"
  BY <1>1, <1>3, <1>5 DEF Installation!IInv, Installation!PausesHold
<1>6. ASSUME NEW r \in Requests, iCall'[r].at = "paused", NEW a \in iOlder'[r]
      PROVE  iApp'[a] = "paused"
  BY <1>1, <1>4, <1>6 DEF Installation!IInv, Installation!PausesHold
<1>7. Installation!PausesHold'
  BY <1>5, <1>6 DEF Installation!PausesHold
<1>. QED
  BY <1>2, <1>7 DEF Installation!IInv

\* Steps that neither learn of apps nor get nearer to clearing.
LEMMA InstallFrames ==
  ASSUME Installation!IInv, iBound' \in Installation!Installs \cup {NoInstall},
         iHook' \in [Installation!Events ->
             {"unsent", "sent", "found", "paused", "lost"} \cup Installation!Done],
         \A e \in Installation!Events : iHook'[e] = "paused" => iHook[e] = "paused",
         UNCHANGED <<iApp, iCall, iOlder>>
  PROVE  Installation!IInv'
<1>1. Installation!TypeOK'
  BY DEF Installation!IInv, Installation!TypeOK
<1>. QED
  BY <1>1, InstallMoves

\* An event that is sent is not handled yet.
LEMMA SendsAreFresh ==
  ASSUME Installation!IInv, NEW e \in Installation!Events, Installation!Send(e)
  PROVE  /\ iHook' \in [Installation!Events ->
                {"unsent", "sent", "found", "paused", "lost"} \cup Installation!Done]
         /\ \A f \in Installation!Events : iHook'[f] = "paused" => iHook[f] = "paused"
<1>1. iHook' = [iHook EXCEPT ![e] = IF iHook[e] = "unsent" THEN "sent" ELSE iHook[e]]
  BY DEF Installation!Send
<1>. QED
  BY <1>1 DEF Installation!IInv, Installation!TypeOK

LEMMA PausingIsKept ==
  ASSUME Installation!IInv, Installation!PauseTeamApps
  PROVE  /\ iApp' \in [Apps -> {"absent", "running", "paused"}]
         /\ \A a \in Apps : /\ iApp[a] # "absent" => iApp'[a] = "paused"
                            /\ iApp[a] = "absent" => iApp'[a] = "absent"
         /\ Installation!Existing' = Installation!Existing
<1>1. \A a \in Apps : iApp'[a] = IF iApp[a] # "absent" THEN "paused" ELSE "absent"
  BY DEF Installation!PauseTeamApps, Installation!Existing
<1>2. iApp' \in [Apps -> {"absent", "running", "paused"}]
  BY DEF Installation!IInv, Installation!TypeOK, Installation!PauseTeamApps
<1>. QED
  BY <1>1, <1>2 DEF Installation!Existing

\* Links, callbacks, what a user does at GitHub, and creates.
LEMMA InstallSteps ==
  ASSUME Installation!IInv,
         \/ \E i \in Installation!Installs :
               \/ Installation!ConfirmInstall(i) \/ Installation!LinkExpires(i)
               \/ Installation!InstallAtGitHub(i) \/ Installation!HandleCallback(i)
               \/ Installation!DeletedByUser(i) \/ Installation!Suspended(i)
               \/ Installation!Unsuspended(i)
         \/ \E a \in Apps : Installation!PreviewCreateApp(a) \/ Installation!ConfirmCreateApp(a)
  PROVE  Installation!IInv'
<1>1. /\ iBound \in Installation!Installs \cup {NoInstall}
      /\ iHook \in [Installation!Events ->
             {"unsent", "sent", "found", "paused", "lost"} \cup Installation!Done]
  BY DEF Installation!IInv, Installation!TypeOK
<1>2. ASSUME NEW i \in Installation!Installs,
             \/ Installation!ConfirmInstall(i) \/ Installation!LinkExpires(i)
             \/ Installation!InstallAtGitHub(i) \/ Installation!HandleCallback(i)
      PROVE  Installation!IInv'
  BY <1>1, <1>2, InstallFrames DEF Installation!ConfirmInstall, Installation!LinkExpires,
     Installation!InstallAtGitHub, Installation!HandleCallback
<1>3. ASSUME NEW i \in Installation!Installs,
             \/ Installation!DeletedByUser(i) \/ Installation!Suspended(i)
             \/ Installation!Unsuspended(i)
      PROVE  Installation!IInv'
  <2>1. /\ <<i, "deleted">> \in Installation!Events /\ <<i, "suspend">> \in Installation!Events
        /\ <<i, "unsuspend">> \in Installation!Events
    BY DEF Installation!Events, Installation!Kinds
  <2>2. \E e \in Installation!Events : Installation!Send(e)
    BY <1>3, <2>1 DEF Installation!DeletedByUser, Installation!Suspended,
                      Installation!Unsuspended
  <2>3. UNCHANGED <<iBound, iApp, iCall, iOlder>>
    BY <1>3 DEF Installation!DeletedByUser, Installation!Suspended, Installation!Unsuspended
  <2>. QED
    BY <1>1, <2>2, <2>3, SendsAreFresh, InstallFrames
<1>4. ASSUME NEW a \in Apps, Installation!PreviewCreateApp(a) PROVE Installation!IInv'
  BY <1>1, <1>4, InstallFrames DEF Installation!PreviewCreateApp
<1>5. ASSUME NEW a \in Apps, Installation!ConfirmCreateApp(a) PROVE Installation!IInv'
  <2>1. /\ iApp' = [iApp EXCEPT ![a] = "running"] /\ iApp[a] = "absent"
        /\ UNCHANGED <<iBound, iHook, iCall, iOlder>>
    BY <1>5 DEF Installation!ConfirmCreateApp
  <2>2. Installation!TypeOK'
    BY <2>1 DEF Installation!IInv, Installation!TypeOK
  <2>3. \A b \in Apps : /\ iApp[b] # "absent" => iApp'[b] # "absent"
                        /\ iApp[b] = "paused" => iApp'[b] = "paused"
    BY <2>1 DEF Installation!IInv, Installation!TypeOK
  <2>. QED
    BY <2>1, <2>2, <2>3, InstallMoves
<1>. QED
  BY <1>2, <1>3, <1>4, <1>5

LEMMA HookPreserves ==
  ASSUME Installation!IInv, NEW e \in Installation!Events,
         Installation!HookStep(e) \/ Installation!HookFails(e)
  PROVE  Installation!IInv'
<1>1. /\ iBound \in Installation!Installs \cup {NoInstall}
      /\ iApp \in [Apps -> {"absent", "running", "paused"}]
      /\ iHook \in [Installation!Events ->
             {"unsent", "sent", "found", "paused", "lost"} \cup Installation!Done]
      /\ iCall \in [Requests -> [at : Installation!Places,
                                 target : Installation!Installs \cup {NoInstall}]]
      /\ iOlder \in [Installation!Clearers -> SUBSET Apps]
  BY DEF Installation!IInv, Installation!TypeOK
<1>2. e \in Installation!Clearers /\ e \notin Requests
  BY InstallAssumption DEF Installation!Clearers
<1>3. Installation!Existing \in SUBSET Apps
  BY DEF Installation!Existing
<1>4. CASE Installation!RegisterWebhookDelivery(e)
  <2>1. UNCHANGED <<iBound, iApp, iCall>>
    BY <1>4 DEF Installation!RegisterWebhookDelivery
  <2>2. \/ /\ iHook' = [iHook EXCEPT ![e] = "found"]
           /\ iOlder' = [iOlder EXCEPT ![e] = Installation!Existing]
        \/ iHook' = [iHook EXCEPT ![e] = "handled"] /\ iOlder' = iOlder
    BY <1>4 DEF Installation!RegisterWebhookDelivery, Installation!FindTeam
  <2>3. Installation!TypeOK'
    BY <1>1, <1>2, <1>3, <2>1, <2>2 DEF Installation!TypeOK, Installation!Done
  <2>4. Installation!Existing' = Installation!Existing
    BY <2>1 DEF Installation!Existing
  <2>5. \A h \in Installation!Clearers :
           iOlder'[h] \subseteq iOlder[h] \/ iOlder'[h] \subseteq Installation!Existing'
    BY <1>1, <1>2, <2>2, <2>4
  <2>6. \A f \in Installation!Events : iHook'[f] = "paused" =>
           iHook[f] = "paused" /\ f # e
    BY <1>1, <2>2
  <2>7. \A h \in Installation!Clearers : h # e => iOlder'[h] = iOlder[h]
    BY <1>1, <2>2
  <2>8. \A f \in Installation!Events : iHook'[f] = "paused" =>
           iHook[f] = "paused" /\ iOlder'[f] \subseteq iOlder[f]
    BY <2>6, <2>7 DEF Installation!Clearers
  <2>9. \A r \in Requests : iOlder'[r] \subseteq iOlder[r]
    BY <1>2, <2>7 DEF Installation!Clearers
  <2>. QED
    BY <2>1, <2>3, <2>5, <2>8, <2>9, InstallMoves
<1>5. ASSUME NEW to \in {"paused", "cleared", "lost"},
             iHook' = [iHook EXCEPT ![e] = to],
             iOlder' = iOlder \/ iOlder' = [iOlder EXCEPT ![e] = {}],
             iApp' = iApp \/ Installation!PauseTeamApps,
             to = "paused" => Installation!PauseTeamApps,
             iBound' = iBound \/ iBound' = NoInstall, UNCHANGED iCall
      PROVE  Installation!IInv'
  <2>1. iApp' \in [Apps -> {"absent", "running", "paused"}]
        /\ \A a \in Apps : /\ iApp[a] # "absent" => iApp'[a] # "absent"
                           /\ iApp[a] = "paused" => iApp'[a] = "paused"
    BY <1>1, <1>5, PausingIsKept
  <2>2. Installation!TypeOK'
    BY <1>1, <1>2, <1>5, <2>1 DEF Installation!TypeOK, Installation!Done
  <2>3. \A h \in Installation!Clearers : iOlder'[h] \subseteq iOlder[h]
    BY <1>1, <1>5
  <2>4. ASSUME to = "paused", NEW a \in iOlder'[e] PROVE iApp'[a] = "paused"
    <3>1. a \in Apps /\ iApp[a] # "absent"
      BY <1>1, <1>2, <2>3, <2>4 DEF Installation!IInv, Installation!SeenAppsExist, Installation!Existing
    <3>. QED
      BY <1>5, <2>4, <3>1, PausingIsKept
  <2>5. \A f \in Installation!Events : iHook'[f] = "paused" =>
           \/ iHook[f] = "paused" /\ iOlder'[f] \subseteq iOlder[f]
           \/ \A a \in iOlder'[f] : iApp'[a] = "paused"
    BY <1>1, <1>5, <2>3, <2>4 DEF Installation!Clearers
  <2>6. \A r \in Requests : iOlder'[r] \subseteq iOlder[r]
    BY <2>3 DEF Installation!Clearers
  <2>. QED
    BY <1>5, <2>1, <2>2, <2>3, <2>5, <2>6, InstallMoves
<1>6. CASE Installation!HookPauses(e)
  BY <1>5, <1>6 DEF Installation!HookPauses
<1>7. CASE Installation!HookClears(e)
  BY <1>5, <1>7 DEF Installation!HookClears, Installation!SetTeamGitHubInstall,
                    Installation!Forget
<1>8. CASE Installation!HookFails(e)
  BY <1>5, <1>8 DEF Installation!HookFails, Installation!SetTeamGitHubInstall,
                    Installation!Forget
<1>. QED
  BY <1>4, <1>6, <1>7, <1>8 DEF Installation!HookStep

LEMMA UninstallPreserves ==
  ASSUME Installation!IInv, NEW r \in Requests,
         \/ Installation!ConfirmUninstall(r) \/ Installation!UninstallStep(r)
         \/ Installation!UninstallFails(r)
  PROVE  Installation!IInv'
<1>1. /\ iBound \in Installation!Installs \cup {NoInstall}
      /\ iApp \in [Apps -> {"absent", "running", "paused"}]
      /\ iHook \in [Installation!Events ->
             {"unsent", "sent", "found", "paused", "lost"} \cup Installation!Done]
      /\ iCall \in [Requests -> [at : Installation!Places,
                                 target : Installation!Installs \cup {NoInstall}]]
      /\ iOlder \in [Installation!Clearers -> SUBSET Apps]
  BY DEF Installation!IInv, Installation!TypeOK
<1>2. r \in Installation!Clearers /\ r \notin Installation!Events
  BY InstallAssumption DEF Installation!Clearers
<1>3. Installation!Existing \in SUBSET Apps
  BY DEF Installation!Existing
<1>4. CASE Installation!ConfirmUninstall(r)
  <2>1. PICK at \in {"deleted", "loaded"} :
           iCall' = [iCall EXCEPT ![r] = [at |-> at, target |-> iBound]]
    BY <1>4 DEF Installation!ConfirmUninstall
  <2>2. /\ iOlder' = [iOlder EXCEPT ![r] = Installation!Existing]
        /\ UNCHANGED <<iBound, iApp, iHook>>
    BY <1>4 DEF Installation!ConfirmUninstall
  <2>3. [at |-> at, target |-> iBound] \in
           [at : Installation!Places, target : Installation!Installs \cup {NoInstall}]
    BY <1>1 DEF Installation!Places
  <2>4. Installation!TypeOK'
    BY <1>1, <1>2, <1>3, <2>1, <2>2, <2>3 DEF Installation!TypeOK
  <2>5. Installation!Existing' = Installation!Existing
    BY <2>2 DEF Installation!Existing
  <2>6. \A h \in Installation!Clearers :
           iOlder'[h] \subseteq iOlder[h] \/ iOlder'[h] \subseteq Installation!Existing'
    BY <1>1, <1>2, <2>2, <2>5
  <2>7. \A h \in Installation!Clearers : h # r => iOlder'[h] = iOlder[h]
    BY <1>1, <2>2
  <2>8. \A e \in Installation!Events : iOlder'[e] \subseteq iOlder[e]
    BY <1>2, <2>7 DEF Installation!Clearers
  <2>9. \A s \in Requests : iCall'[s].at = "paused" =>
           iCall[s].at = "paused" /\ iOlder'[s] \subseteq iOlder[s]
    <3>1. ASSUME NEW s \in Requests, iCall'[s].at = "paused" PROVE s # r /\ iCall[s].at = "paused"
      BY <1>1, <2>1, <3>1
    <3>. QED
      BY <2>7, <3>1 DEF Installation!Clearers
  <2>. QED
    BY <2>2, <2>4, <2>6, <2>8, <2>9, InstallMoves
<1>5. ASSUME NEW c \in [at : Installation!Places, target : Installation!Installs \cup {NoInstall}],
             iCall' = [iCall EXCEPT ![r] = c],
             iOlder' = iOlder \/ iOlder' = [iOlder EXCEPT ![r] = {}],
             iApp' = iApp \/ Installation!PauseTeamApps,
             c.at = "paused" => Installation!PauseTeamApps,
             iBound' = iBound \/ iBound' = NoInstall,
             iHook' = iHook \/ \E e \in Installation!Events : Installation!Send(e)
      PROVE  Installation!IInv'
  <2>1. iApp' \in [Apps -> {"absent", "running", "paused"}]
        /\ \A a \in Apps : /\ iApp[a] # "absent" => iApp'[a] # "absent"
                           /\ iApp[a] = "paused" => iApp'[a] = "paused"
    BY <1>1, <1>5, PausingIsKept
  <2>2. /\ iHook' \in [Installation!Events ->
              {"unsent", "sent", "found", "paused", "lost"} \cup Installation!Done]
        /\ \A e \in Installation!Events : iHook'[e] = "paused" => iHook[e] = "paused"
    BY <1>1, <1>5, SendsAreFresh
  <2>3. Installation!TypeOK'
    BY <1>1, <1>2, <1>5, <2>1, <2>2 DEF Installation!TypeOK
  <2>4. \A h \in Installation!Clearers : iOlder'[h] \subseteq iOlder[h]
    BY <1>1, <1>5
  <2>5. ASSUME c.at = "paused", NEW a \in iOlder'[r] PROVE iApp'[a] = "paused"
    <3>1. a \in Apps /\ iApp[a] # "absent"
      BY <1>1, <1>2, <2>4, <2>5 DEF Installation!IInv, Installation!SeenAppsExist, Installation!Existing
    <3>. QED
      BY <1>5, <2>5, <3>1, PausingIsKept
  <2>6. \A s \in Requests : iCall'[s] = IF s = r THEN c ELSE iCall[s]
    BY <1>1, <1>5
  <2>7. \A s \in Requests : iCall'[s].at = "paused" =>
           \/ iCall[s].at = "paused" /\ iOlder'[s] \subseteq iOlder[s]
           \/ \A a \in iOlder'[s] : iApp'[a] = "paused"
    BY <2>4, <2>5, <2>6 DEF Installation!Clearers
  <2>8. \A e \in Installation!Events : iOlder'[e] \subseteq iOlder[e]
    BY <2>4 DEF Installation!Clearers
  <2>. QED
    BY <2>1, <2>2, <2>3, <2>4, <2>7, <2>8, InstallMoves
<1>6. ASSUME NEW at \in Installation!Places, Installation!Goto(r, at)
      PROVE  \E c \in [at : Installation!Places, target : Installation!Installs \cup {NoInstall}] :
                iCall' = [iCall EXCEPT ![r] = c] /\ c.at = at
  <2>1. iCall' = [iCall EXCEPT ![r] = [iCall[r] EXCEPT !.at = at]]
    BY <1>6 DEF Installation!Goto
  <2>2. [iCall[r] EXCEPT !.at = at] \in
           [at : Installation!Places, target : Installation!Installs \cup {NoInstall}]
        /\ [iCall[r] EXCEPT !.at = at].at = at
    BY <1>1
  <2>. QED
    BY <2>1, <2>2
<1>7. {"deleted", "paused", "failed"} \subseteq Installation!Places
      /\ "deleted" # "paused" /\ "failed" # "paused"
  BY DEF Installation!Places
<1>8. ASSUME iCall[r].at = "loaded", Installation!Deletes(iCall[r].target)
      PROVE  iHook' = iHook \/ \E e \in Installation!Events : Installation!Send(e)
  <2>1. Installation!Send(<<iCall[r].target, "deleted">>)
    BY <1>8 DEF Installation!Deletes
  <2>2. CASE <<iCall[r].target, "deleted">> \in Installation!Events
    BY <2>1, <2>2
  <2>3. CASE <<iCall[r].target, "deleted">> \notin Installation!Events
    <3> DEFINE e == <<iCall[r].target, "deleted">>
    <3>1. iHook' = [iHook EXCEPT ![e] = IF iHook[e] = "unsent" THEN "sent" ELSE iHook[e]]
      BY <2>1 DEF Installation!Send
    <3>2. e \notin Installation!Events
      BY <2>3
    <3> HIDE DEF e
    <3>. QED
      BY <1>1, <3>1, <3>2
  <2>. QED
    BY <2>2, <2>3
<1>9. CASE Installation!DeleteInstallation(r)
  <2>1. PICK c \in [at : Installation!Places, target : Installation!Installs \cup {NoInstall}] :
           iCall' = [iCall EXCEPT ![r] = c] /\ c.at = "deleted"
    BY <1>6, <1>7, <1>9 DEF Installation!DeleteInstallation
  <2>2. iHook' = iHook \/ \E e \in Installation!Events : Installation!Send(e)
    BY <1>8, <1>9 DEF Installation!DeleteInstallation
  <2>. QED
    BY <1>5, <1>9, <2>1, <2>2 DEF Installation!DeleteInstallation
<1>10. CASE Installation!UninstallPauses(r)
  <2>1. PICK c \in [at : Installation!Places, target : Installation!Installs \cup {NoInstall}] :
           iCall' = [iCall EXCEPT ![r] = c] /\ c.at = "paused"
    BY <1>6, <1>7, <1>10 DEF Installation!UninstallPauses
  <2>. QED
    BY <1>5, <1>10, <2>1 DEF Installation!UninstallPauses
<1>11. CASE Installation!UninstallClears(r)
  <2>1. Installation!Idle \in [at : Installation!Places,
                               target : Installation!Installs \cup {NoInstall}]
        /\ Installation!Idle.at # "paused"
    BY DEF Installation!Idle, Installation!Places
  <2>. QED
    BY <1>5, <1>11, <2>1 DEF Installation!UninstallClears, Installation!SetTeamGitHubInstall,
                             Installation!Forget
<1>12. CASE Installation!UninstallFails(r)
  <2>1. PICK c \in [at : Installation!Places, target : Installation!Installs \cup {NoInstall}] :
           iCall' = [iCall EXCEPT ![r] = c] /\ c.at = "failed"
    BY <1>6, <1>7, <1>12 DEF Installation!UninstallFails
  <2>2. iHook' = iHook \/ \E e \in Installation!Events : Installation!Send(e)
    BY <1>8, <1>12 DEF Installation!UninstallFails
  <2>3. /\ iOlder' = [iOlder EXCEPT ![r] = {}]
        /\ iApp' = iApp \/ Installation!PauseTeamApps
        /\ iBound' = iBound \/ iBound' = NoInstall
    BY <1>12 DEF Installation!UninstallFails, Installation!Forget,
                 Installation!SetTeamGitHubInstall
  <2>. QED
    BY <1>5, <2>1, <2>2, <2>3
<1>. QED
  BY <1>4, <1>9, <1>10, <1>11, <1>12 DEF Installation!UninstallStep

LEMMA InstallPreserves ==
  ASSUME Installation!IInv, [Installation!Next]_iVars
  PROVE  Installation!IInv'
<1>1. CASE Installation!Next
  BY <1>1, InstallSteps, HookPreserves, UninstallPreserves DEF Installation!Next
<1>2. CASE UNCHANGED iVars
  BY <1>2 DEF iVars, Installation!IInv, Installation!TypeOK, Installation!SeenAppsExist,
              Installation!PausesHold, Installation!Existing
<1>. QED
  BY <1>1, <1>2

LEMMA ResourceSteps ==
  ASSUME [ResourceNext]_ResourceVars PROVE [Installation!Next]_iVars
  BY DEF ResourceNext, UploadMoves, InstallationMoves, LimitMoves, ResourceVars

LEMMA InstallInvariant == ResourceSpec => []Installation!IInv
<1>1. ResourceInit => Installation!IInv
  BY InstallInit DEF ResourceInit
<1>2. Installation!IInv /\ [ResourceNext]_ResourceVars => Installation!IInv'
  BY ResourceSteps, InstallPreserves
<1>. QED
  BY <1>1, <1>2, PTL DEF ResourceSpec

\* A binding is cleared by a handler that has paused all it found, whoever else
\* binds, pauses, creates or fails meanwhile (SetTeamGitHubInstall, PauseTeamApps).
\* A handler that fails at its last statement may have cleared too, and had paused.
LEMMA ClearersPaused ==
  ASSUME Installation!IInv, Installation!Next, iBound # NoInstall, iBound' = NoInstall
  PROVE  \E h \in Installation!Clearers :
            /\ \/ h \in Installation!Events /\ iHook[h] = "paused" /\ iHook'[h] # iHook[h]
               \/ h \in Requests /\ iCall[h].at = "paused" /\ iCall'[h] # iCall[h]
            /\ \A a \in iOlder[h] : iApp[a] = "paused"
<1>1. /\ iHook \in [Installation!Events ->
             {"unsent", "sent", "found", "paused", "lost"} \cup Installation!Done]
      /\ iCall \in [Requests -> [at : Installation!Places,
                                 target : Installation!Installs \cup {NoInstall}]]
  BY DEF Installation!IInv, Installation!TypeOK
<1>2. \A i \in Installation!Installs : i # NoInstall
  BY InstallAssumption
<1>3. \/ \E e \in Installation!Events : Installation!HookClears(e) \/ Installation!HookFails(e)
      \/ \E r \in Requests : Installation!UninstallClears(r) \/ Installation!UninstallFails(r)
  BY <1>2 DEF Installation!Next, Installation!ConfirmInstall, Installation!LinkExpires,
     Installation!InstallAtGitHub, Installation!HandleCallback, Installation!DeletedByUser,
     Installation!Suspended, Installation!Unsuspended, Installation!PreviewCreateApp,
     Installation!ConfirmCreateApp, Installation!HookStep,
     Installation!RegisterWebhookDelivery, Installation!HookPauses,
     Installation!ConfirmUninstall, Installation!UninstallStep,
     Installation!DeleteInstallation, Installation!UninstallPauses
<1>4. ASSUME NEW e \in Installation!Events, Installation!HookClears(e) \/ Installation!HookFails(e)
      PROVE  e \in Installation!Clearers /\ iHook[e] = "paused" /\ iHook'[e] # iHook[e]
             /\ \A a \in iOlder[e] : iApp[a] = "paused"
  <2>1. iHook[e] = "paused"
    BY <1>4 DEF Installation!HookClears, Installation!HookFails
  <2>2. iHook' = [iHook EXCEPT ![e] = "cleared"] \/ iHook' = [iHook EXCEPT ![e] = "lost"]
    BY <1>4 DEF Installation!HookClears, Installation!HookFails
  <2>3. iHook'[e] # "paused"
    BY <1>1, <2>2
  <2>. QED
    BY <2>1, <2>3 DEF Installation!Clearers, Installation!IInv, Installation!PausesHold
<1>5. ASSUME NEW r \in Requests, Installation!UninstallClears(r) \/ Installation!UninstallFails(r)
      PROVE  r \in Installation!Clearers /\ iCall[r].at = "paused" /\ iCall'[r] # iCall[r]
             /\ \A a \in iOlder[r] : iApp[a] = "paused"
  <2>1. iCall[r].at = "paused"
    BY <1>5 DEF Installation!UninstallClears, Installation!UninstallFails
  <2>2. iCall' = [iCall EXCEPT ![r] = Installation!Idle] \/ iCall' = [iCall EXCEPT ![r].at = "failed"]
    BY <1>5 DEF Installation!UninstallClears, Installation!UninstallFails, Installation!Goto
  <2>3. iCall'[r].at # "paused"
    BY <1>1, <2>2 DEF Installation!Idle
  <2>. QED
    BY <2>1, <2>3 DEF Installation!Clearers, Installation!IInv, Installation!PausesHold
<1>. QED
  BY <1>3, <1>4, <1>5

\* When the binding is cleared every app that the clearing handler found is
\* paused: the statements are two, and nothing between them unpauses an app.
THEOREM ClearingIsPaused == ResourceSpec => ClearedTeamsArePaused
<1>1. Installation!IInv /\ [ResourceNext]_ResourceVars =>
        [iBound # NoInstall /\ iBound' = NoInstall =>
           \E h \in Installation!Clearers :
              /\ \/ h \in Installation!Events /\ iHook[h] = "paused" /\ iHook'[h] # iHook[h]
                 \/ h \in Requests /\ iCall[h].at = "paused" /\ iCall'[h] # iCall[h]
              /\ \A a \in iOlder[h] : iApp[a] = "paused"]_iVars
  BY ResourceSteps, ClearersPaused
<1>. QED
  BY <1>1, InstallInvariant, PTL
     DEF ResourceSpec, ClearedTeamsArePaused, Installation!ClearedTeamsArePaused,
         Installation!vars, iVars

-----------------------------------------------------------------------------
(* The limits of requests: buckets and quotas.                               *)

LEMMA LeastOf ==
    ASSUME NEW T \in SUBSET Nat, T # {}
    PROVE  \E l \in T : \A n \in T : l <= n
<1> DEFINE R == OpToRel(<, Nat)
<1>1. IsWellFoundedOn(R, Nat)
  BY NatLessThanWellFounded
<1>2. ASSUME NEW n \in Nat, NEW l \in Nat, n < l PROVE <<n, l>> \in R
  BY <1>2 DEF OpToRel
<1> HIDE DEF R
<1>3. PICK l \in T : \A n \in T : ~(<<n, l>> \in R)
  BY <1>1, WFMin
<1>4. ASSUME NEW n \in T PROVE l <= n
  <2>1. ~(n < l)
    BY <1>2, <1>3
  <2>. QED
    BY <2>1
<1>. QED
  BY <1>4

\* The limiter brings the definitions of finite sets with it.
LEMMA SameFinite == ASSUME NEW S PROVE Limits!IsFiniteSet(S) <=> IsFiniteSet(S)
BY DEF Limits!IsFiniteSet, IsFiniteSet

LEMMA SameSize == ASSUME NEW S PROVE Limits!Cardinality(S) = Cardinality(S)
BY DEF Limits!Cardinality, Cardinality

\* The largest quota of a key is one of its quotas.
LEMMA MostBounds ==
    ASSUME NEW k \in Limits!Keys
    PROVE  Limits!MostOf(k) \in Nat /\ \A p \in Plans : Quota[k][p] <= Limits!MostOf(k)
<1> DEFINE quotas == {Quota[k][p] : p \in Plans}
           bounds == {b \in Nat : \A p \in Plans : Quota[k][p] <= b}
<1>1. \A p \in Plans : Quota[k][p] \in Nat /\ Quota[k][p] <= IdleTTL
  <2>1. Quota[k] \in [Plans -> 0..IdleTTL] /\ IdleTTL \in Nat
    BY LimitsAssumption
  <2>2. ASSUME NEW p \in Plans PROVE Quota[k][p] \in 0..IdleTTL
    BY <2>1
  <2> HIDE DEF quotas, bounds
  <2>. QED
    BY <2>1, <2>2
<1>2. Quota[k][Free] \in quotas
  BY LimitsAssumption
<1>3. IdleTTL \in bounds
  BY <1>1, LimitsAssumption
<1>4. PICK b \in bounds : \A c \in bounds : b <= c
  <2> HIDE DEF bounds
  <2>1. bounds \in SUBSET Nat
    BY DEF bounds
  <2>. QED
    BY <1>3, <2>1, LeastOf
<1>5. b \in quotas
  <2> SUFFICES ASSUME b \notin quotas PROVE FALSE
    OBVIOUS
  <2>1. \A p \in Plans : Quota[k][p] <= b - 1 /\ Quota[k][p] \in Nat
    BY <1>1
  <2>2. b - 1 \in bounds
    BY <2>1, <1>2
  <2>. QED
    BY <1>4, <2>2
<1>6. \E q \in quotas : \A p \in Plans : Quota[k][p] <= q
  BY <1>5
<1>7. Limits!MostOf(k) \in quotas /\ \A p \in Plans : Quota[k][p] <= Limits!MostOf(k)
  BY <1>6 DEF Limits!MostOf
<1>. QED
  BY <1>1, <1>7

\* A bucket has no fewer tokens than none, and no more than its plan allows.
LEMMA LevelBounds ==
    ASSUME NEW e \in Limits!Entries, lClock \in Nat, e.used <= lClock,
           e.tokens <= Quota[e.key][e.plan]
    PROVE  /\ Limits!Level(e) \in 0..Quota[e.key][e.plan]
           /\ Quota[e.key][e.plan] \in Nat /\ Quota[e.key][e.plan] <= Limits!MostOf(e.key)
           /\ Quota[e.key][e.plan] <= IdleTTL
<1>1. Quota[e.key][e.plan] \in 0..IdleTTL /\ IdleTTL \in Nat
  BY LimitsAssumption DEF Limits!Entries
<1>2. e.used \in Nat /\ e.tokens \in Nat /\ e.key \in Limits!Keys /\ e.plan \in Plans
  BY DEF Limits!Entries
<1>. QED
  BY <1>1, <1>2, MostBounds DEF Limits!Level

\* What the bucket of a key lacks is no more than the largest quota.
LEMMA LacksBounds ==
    ASSUME Limits!TypeOK, Limits!MapHasTheLive, Limits!BucketsAreBounded, NEW k \in Limits!Keys
    PROVE  Limits!Lacks(k) \in 0..Limits!MostOf(k)
<1>1. CASE lBucket[k] = NoBucket
  BY <1>1, MostBounds DEF Limits!Lacks
<1>2. CASE lBucket[k] # NoBucket
  <2> DEFINE e == lEntry[lBucket[k]]
  <2>1. e \in Limits!Entries /\ e.key = k /\ e.used <= lClock /\ e.tokens <= Quota[e.key][e.plan]
    BY <1>2 DEF Limits!TypeOK, Limits!MapHasTheLive, Limits!BucketsAreBounded
  <2>2. Limits!Lacks(k) = Quota[k][e.plan] - Limits!Level(e)
    BY <1>2 DEF Limits!Lacks
  <2>3. lClock \in Nat
    BY DEF Limits!TypeOK
  <2> HIDE DEF e
  <2>4. /\ Limits!Level(e) \in 0..Quota[k][e.plan] /\ Quota[k][e.plan] \in Nat
        /\ Quota[k][e.plan] <= Limits!MostOf(k) /\ Limits!MostOf(k) \in Nat
    BY <2>1, <2>3, LevelBounds, MostBounds
  <2>. QED
    BY <2>2, <2>4
<1>. QED
  BY <1>1, <1>2

LEMMA TimesOneMore ==
    ASSUME NEW m \in Nat, NEW r \in Nat, NEW s \in Nat, r <= s
    PROVE  /\ m * r \in Nat /\ m * r <= m * s
           /\ m * (r + 1) = m * r + m /\ m * (1 + r) = m * r + m
<1>1. m * s = m * r + m * (s - r) /\ m * (s - r) >= 0
  OBVIOUS
<1>. QED
  BY <1>1

LEMMA CountIsANumber ==
    ASSUME Limits!TypeOK, NEW k, NEW f, NEW t
    PROVE  Limits!AdmittedIn(k, f, t) \in Nat
BY SameFinite, SameSize, FS_Subset, FS_CardinalityType DEF Limits!TypeOK, Limits!AdmittedIn

-----------------------------------------------------------------------------
(* What a step does to the buckets.                                          *)

\* What has to be so of the map and its entries.
MapInv == /\ Limits!TypeOK /\ Limits!EntriesAreOfTheirKey /\ Limits!MapHasTheLive
          /\ Limits!OthersAreDropped /\ Limits!BucketsAreBounded /\ Limits!SweptAreFull

LEMMA EntryWritten ==
    ASSUME NEW R, NEW s \in Seq(R), NEW i \in DOMAIN s, NEW v \in R
    PROVE  /\ [s EXCEPT ![i] = v] \in Seq(R)
           /\ DOMAIN [s EXCEPT ![i] = v] = DOMAIN s
           /\ [s EXCEPT ![i] = v][i] = v
           /\ \A j \in DOMAIN s \ {i} : [s EXCEPT ![i] = v][j] = s[j]
OBVIOUS

\* A step that leaves the map alone.
LEMMA QuietSteps ==
    ASSUME MapInv,
           \/ Limits!ChangePlan
           \/ \E r \in Limited : Limits!Arrive(r) \/ Limits!Lookup(r)
           \/ \E k \in Limits!Keys : Limits!FindIdle(k)
    PROVE  MapInv' /\ UNCHANGED <<lBucket, lEntry, lClock, lAdmitted, lRenewed>>
<1> USE LimitsAssumption DEF MapInv, Limits!TypeOK, Limits!Keys
<1>0. UNCHANGED <<lBucket, lEntry, lClock, lAdmitted, lRenewed>>
  BY DEF Limits!ChangePlan, Limits!Arrive, Limits!Lookup, Limits!FindIdle
<1>1. Limits!MapHasTheLive' /\ Limits!OthersAreDropped' /\ Limits!BucketsAreBounded'
  BY <1>0 DEF Limits!MapHasTheLive, Limits!OthersAreDropped, Limits!BucketsAreBounded
<1>2. CASE Limits!ChangePlan
  BY <1>0, <1>1, <1>2 DEF Limits!ChangePlan, Limits!EntriesAreOfTheirKey, Limits!SweptAreFull
<1>3. ASSUME NEW r \in Limited, Limits!Arrive(r) PROVE MapInv'
  <2> DEFINE p == [at |-> "lookup", plan |-> IF r \in Scoped THEN lPlan ELSE Free,
                   key |-> TokenOf[r], entry |-> NoBucket, due |-> 0,
                   tries |-> IF lRequest[r].at = "idle" THEN 0 ELSE lRequest[r].tries + 1]
  <2>a. lRequest' = [lRequest EXCEPT ![r] = p] /\ UNCHANGED <<lPlan, lSweep, lChanges>>
    BY <1>3 DEF Limits!Arrive
  <2>b. /\ p \in [at : Limits!Stages, plan : Plans, key : Limits!Keys \cup {NoKey},
                  entry : Nat \cup {NoBucket}, tries : Nat, due : Nat]
        /\ p.at = "lookup" /\ p.key \in Limits!Keys
    <3>1. lRequest[r].tries \in Nat /\ TokenOf[r] \in Tokens
      OBVIOUS
    <3>. QED
      BY <3>1 DEF Limits!Stages
  <2> HIDE DEF p
  <2>1. /\ lRequest' \in [Limited -> [at : Limits!Stages, plan : Plans,
                                      key : Limits!Keys \cup {NoKey},
                                      entry : Nat \cup {NoBucket}, tries : Nat, due : Nat]]
        /\ lRequest'[r].at = "lookup" /\ lRequest'[r].key \in Limits!Keys
        /\ \A q \in Limited \ {r} : lRequest'[q] = lRequest[q]
        /\ UNCHANGED <<lPlan, lSweep, lChanges>>
    BY <2>a, <2>b
  <2>2. Limits!EntriesAreOfTheirKey'
    BY <1>0, <2>1 DEF Limits!EntriesAreOfTheirKey
  <2>3. Limits!SweptAreFull'
    BY <1>0, <2>1 DEF Limits!SweptAreFull, Limits!NoSweep
  <2>. QED
    BY <1>0, <1>1, <2>1, <2>2, <2>3
<1>4. ASSUME NEW r \in Limited, Limits!Lookup(r) PROVE MapInv'
  <2> DEFINE q == lRequest[r]
  <2>1. q.at = "lookup" /\ q.key \in Limits!Keys /\ UNCHANGED <<lPlan, lSweep, lChanges>>
    BY <1>4 DEF Limits!Lookup, Limits!EntriesAreOfTheirKey
  <2>2. PICK p : /\ lRequest' = [lRequest EXCEPT ![r] = p]
                 /\ \/ p = [q EXCEPT !.at = "served"]
                    \/ p = [q EXCEPT !.at = "lookup", !.key = Team, !.entry = NoBucket]
                    \/ p = [q EXCEPT !.at = "store"] \/ p = [q EXCEPT !.at = "rebuild"]
                    \/ /\ p = [q EXCEPT !.at = "take", !.entry = lBucket[q.key]]
                       /\ lBucket[q.key] # NoBucket
    BY <1>4 DEF Limits!Lookup, Limits!Passed
  <2>3. p \in [at : Limits!Stages, plan : Plans, key : Limits!Keys \cup {NoKey},
               entry : Nat \cup {NoBucket}, tries : Nat, due : Nat]
    <3>1. /\ q.plan \in Plans /\ q.key \in Limits!Keys /\ q.entry \in Nat \cup {NoBucket}
          /\ q.tries \in Nat /\ q.due \in Nat
          /\ q = [at |-> q.at, plan |-> q.plan, key |-> q.key, entry |-> q.entry,
                  tries |-> q.tries, due |-> q.due]
      BY <2>1
    <3>2. lBucket[q.key] \in Nat \cup {NoBucket} /\ Team \in Limits!Keys
      BY <2>1
    <3>3. /\ p.plan \in Plans /\ p.key \in Limits!Keys /\ p.entry \in Nat \cup {NoBucket}
          /\ p.tries \in Nat /\ p.due \in Nat /\ p.at \in Limits!Stages
          /\ p = [at |-> p.at, plan |-> p.plan, key |-> p.key, entry |-> p.entry,
                  tries |-> p.tries, due |-> p.due]
      <4> HIDE DEF q
      <4> HIDE LimitsAssumption DEF MapInv, Limits!TypeOK, Limits!Keys
      <4>1. CASE p = [q EXCEPT !.at = "lookup", !.key = Team, !.entry = NoBucket]
        BY <3>1, <3>2, <4>1 DEF Limits!Stages
      <4>2. CASE p # [q EXCEPT !.at = "lookup", !.key = Team, !.entry = NoBucket]
        BY <2>2, <3>1, <3>2, <4>2 DEF Limits!Stages
      <4>. QED
        BY <4>1, <4>2
    <3>. QED
      BY <3>3
  <2>4. /\ p.at \in {"lookup", "rebuild", "store", "take"} => p.key \in Limits!Keys
        /\ p.at = "take" => p.entry \in DOMAIN lEntry /\ lEntry[p.entry].key = p.key
    <3>1. q \in [at : Limits!Stages, plan : Plans, key : Limits!Keys \cup {NoKey},
                 entry : Nat \cup {NoBucket}, tries : Nat, due : Nat]
      OBVIOUS
    <3>2. lBucket[q.key] # NoBucket =>
             lBucket[q.key] \in DOMAIN lEntry /\ lEntry[lBucket[q.key]].key = q.key
      BY <2>1 DEF Limits!MapHasTheLive
    <3>3. /\ p.key = q.key \/ p.key = Team
          /\ p.at = "take" => /\ p.entry = lBucket[q.key] /\ p.key = q.key
                              /\ lBucket[q.key] # NoBucket
      <4> HIDE DEF q
      <4>. QED
        BY <2>2, <3>1
    <3>. QED
      BY <2>1, <3>2, <3>3
  <2>5. Limits!EntriesAreOfTheirKey'
    BY <1>0, <2>2, <2>4 DEF Limits!EntriesAreOfTheirKey
  <2>6. Limits!SweptAreFull'
    BY <1>0, <2>1 DEF Limits!SweptAreFull, Limits!NoSweep
  <2>. QED
    BY <1>0, <1>1, <2>1, <2>2, <2>3, <2>5, <2>6
<1>5. ASSUME NEW k \in Limits!Keys, Limits!FindIdle(k) PROVE MapInv'
  <2>1. /\ lSweep' = [key |-> k, at |-> lClock] /\ UNCHANGED <<lPlan, lRequest, lChanges>>
        /\ lEntry[lBucket[k]].used < lClock - IdleTTL
    BY <1>5 DEF Limits!FindIdle, Limits!Stale
  <2>2. Limits!SweptAreFull' /\ Limits!EntriesAreOfTheirKey'
    BY <1>0, <2>1 DEF Limits!SweptAreFull, Limits!EntriesAreOfTheirKey
  <2>. QED
    BY <1>0, <1>1, <2>1, <2>2
<1>. QED
  BY <1>0, <1>2, <1>3, <1>4, <1>5

LEMMA TickMap ==
    ASSUME MapInv, Limits!Tick
    PROVE  /\ MapInv' /\ lClock' = lClock + 1
           /\ UNCHANGED <<lBucket, lEntry, lAdmitted, lRenewed>>
<1> USE DEF MapInv, Limits!TypeOK
<1>1. lClock' = lClock + 1 /\ UNCHANGED <<lPlan, lBucket, lEntry, lRequest, lSweep, lChanges, lAdmitted, lRenewed>>
  BY DEF Limits!Tick
<1>2. lAdmitted \subseteq [key : Limits!Keys, at : 0..lClock + 1, n : Nat]
  <2>1. \A t \in 0..lClock : t \in 0..lClock + 1
    OBVIOUS
  <2> SUFFICES ASSUME NEW x \in lAdmitted
               PROVE  x \in [key : Limits!Keys, at : 0..lClock + 1, n : Nat]
    OBVIOUS
  <2>2. x \in [key : Limits!Keys, at : 0..lClock, n : Nat]
    OBVIOUS
  <2>. QED
    BY <2>1, <2>2
<1>3. Limits!BucketsAreBounded'
  <2>1. \A e \in DOMAIN lEntry : lEntry[e] \in Limits!Entries
    OBVIOUS
  <2>2. \A e \in DOMAIN lEntry : lEntry[e].used \in Nat
    BY <2>1 DEF Limits!Entries
  <2>. QED
    BY <1>1, <2>2 DEF Limits!BucketsAreBounded
<1>4. Limits!SweptAreFull' /\ Limits!MapHasTheLive' /\ Limits!OthersAreDropped'
      /\ Limits!EntriesAreOfTheirKey'
  BY <1>1 DEF Limits!SweptAreFull, Limits!MapHasTheLive, Limits!OthersAreDropped,
     Limits!EntriesAreOfTheirKey, Limits!NoSweep
<1>. QED
  BY <1>1, <1>2, <1>3, <1>4

\* What dropping the bucket of a key leaves.
LEMMA DropMoves ==
    ASSUME MapInv, NEW k \in Limits!Keys, NEW excused \in BOOLEAN, Limits!Drop(k, excused)
    PROVE  /\ lBucket' = [lBucket EXCEPT ![k] = NoBucket]
           /\ lEntry' \in Seq(Limits!Entries) /\ DOMAIN lEntry' = DOMAIN lEntry
           /\ \A e \in DOMAIN lEntry :
                 /\ lEntry'[e].key = lEntry[e].key /\ lEntry'[e].plan = lEntry[e].plan
                 /\ lEntry'[e].used = lEntry[e].used /\ lEntry'[e].tokens = lEntry[e].tokens
                 /\ lEntry'[e].dropped <=> lEntry[e].dropped \/ e = lBucket[k]
           /\ lRenewed' \in [Limits!Keys -> Nat]
           /\ \A j \in Limits!Keys \ {k} : lRenewed'[j] = lRenewed[j]
           /\ \/ lRenewed'[k] = lRenewed[k] + 1
              \/ /\ lRenewed'[k] = lRenewed[k]
                 /\ \/ lBucket[k] = NoBucket \/ ~excused
                    \/ ~Limits!PartUsed(lEntry[lBucket[k]])
<1> USE LimitsAssumption DEF MapInv, Limits!TypeOK
<1>1. CASE lBucket[k] = NoBucket
  BY <1>1 DEF Limits!Drop
<1>2. CASE lBucket[k] # NoBucket
  <2> DEFINE i == lBucket[k]
             v == [lEntry[i] EXCEPT !.dropped = TRUE]
  <2>1. i \in DOMAIN lEntry /\ lEntry[i] \in Limits!Entries
    BY <1>2 DEF Limits!MapHasTheLive
  <2>2. /\ lBucket' = [lBucket EXCEPT ![k] = NoBucket]
        /\ lEntry' = [lEntry EXCEPT ![i].dropped = TRUE]
        /\ lRenewed' = [lRenewed EXCEPT ![k] =
              IF excused /\ Limits!PartUsed(lEntry[i]) THEN @ + 1 ELSE @]
    BY <1>2 DEF Limits!Drop
  <2>3. lEntry' = [lEntry EXCEPT ![i] = v]
    BY <2>2
  <2>4. /\ v \in Limits!Entries /\ v.key = lEntry[i].key /\ v.plan = lEntry[i].plan
        /\ v.used = lEntry[i].used /\ v.tokens = lEntry[i].tokens /\ v.dropped
    BY <2>1 DEF Limits!Entries
  <2>5. /\ lEntry' \in Seq(Limits!Entries) /\ DOMAIN lEntry' = DOMAIN lEntry
        /\ lEntry'[i] = v /\ \A j \in DOMAIN lEntry \ {i} : lEntry'[j] = lEntry[j]
    <3> HIDE DEF v, i
    <3>. QED
      BY <2>1, <2>3, <2>4, EntryWritten
  <2>6. \A e \in DOMAIN lEntry :
           /\ lEntry'[e].key = lEntry[e].key /\ lEntry'[e].plan = lEntry[e].plan
           /\ lEntry'[e].used = lEntry[e].used /\ lEntry'[e].tokens = lEntry[e].tokens
           /\ lEntry'[e].dropped <=> lEntry[e].dropped \/ e = i
    <3> HIDE DEF v, i
    <3>. QED
      BY <2>4, <2>5
  <2>. QED
    BY <2>2, <2>5, <2>6
<1>. QED
  BY <1>1, <1>2

LEMMA DropMap ==
    ASSUME MapInv, NEW k \in Limits!Keys, NEW excused \in BOOLEAN, Limits!Drop(k, excused),
           UNCHANGED lClock
    PROVE  Limits!MapHasTheLive' /\ Limits!OthersAreDropped' /\ Limits!BucketsAreBounded'
<1>1. /\ lBucket \in [Limits!Keys -> Nat \cup {NoBucket}]
      /\ Limits!MapHasTheLive /\ Limits!OthersAreDropped /\ Limits!BucketsAreBounded
      /\ \A e \in DOMAIN lEntry : lEntry[e] \in Limits!Entries
  BY DEF MapInv, Limits!TypeOK
<1>2. /\ lBucket'[k] = NoBucket
      /\ \A j \in Limits!Keys \ {k} : lBucket'[j] = lBucket[j]
      /\ DOMAIN lEntry' = DOMAIN lEntry
      /\ \A e \in DOMAIN lEntry :
            /\ lEntry'[e].key = lEntry[e].key /\ lEntry'[e].plan = lEntry[e].plan
            /\ lEntry'[e].used = lEntry[e].used /\ lEntry'[e].tokens = lEntry[e].tokens
            /\ lEntry'[e].dropped <=> lEntry[e].dropped \/ e = lBucket[k]
  BY <1>1, DropMoves
<1>3. Limits!MapHasTheLive'
  <2> SUFFICES ASSUME NEW j \in Limits!Keys, lBucket'[j] # NoBucket
               PROVE  /\ lBucket'[j] \in DOMAIN lEntry'
                      /\ lEntry'[lBucket'[j]].key = j /\ ~lEntry'[lBucket'[j]].dropped
    BY DEF Limits!MapHasTheLive
  <2>1. j # k /\ lBucket'[j] = lBucket[j]
    BY <1>2
  <2>2. lBucket[j] \in DOMAIN lEntry /\ lEntry[lBucket[j]].key = j /\ ~lEntry[lBucket[j]].dropped
    BY <1>1, <2>1 DEF Limits!MapHasTheLive
  <2>3. lBucket[j] # lBucket[k]
    BY <1>1, <2>1, <2>2 DEF Limits!MapHasTheLive
  <2>. QED
    BY <1>2, <2>1, <2>2, <2>3
<1>4. Limits!OthersAreDropped'
  <2> SUFFICES ASSUME NEW e \in DOMAIN lEntry', ~lEntry'[e].dropped
               PROVE  lBucket'[lEntry'[e].key] = e
    BY DEF Limits!OthersAreDropped
  <2>1. e \in DOMAIN lEntry /\ ~lEntry[e].dropped /\ e # lBucket[k] /\ lEntry'[e].key = lEntry[e].key
    BY <1>2
  <2>2. lBucket[lEntry[e].key] = e
    BY <1>1, <2>1 DEF Limits!OthersAreDropped
  <2>3. lEntry[e].key \in Limits!Keys \ {k}
    BY <1>1, <2>1, <2>2 DEF Limits!Entries
  <2>. QED
    BY <1>2, <2>1, <2>2, <2>3
<1>5. Limits!BucketsAreBounded'
  BY <1>1, <1>2 DEF Limits!BucketsAreBounded
<1>. QED
  BY <1>3, <1>4, <1>5

\* Nothing the history does not count is lost with a bucket.
LEMMA DropBudget ==
    ASSUME MapInv, NEW k \in Limits!Keys, NEW excused \in BOOLEAN, Limits!Drop(k, excused),
           UNCHANGED lClock, excused \/ Limits!Lacks(k) = 0, NEW j \in Limits!Keys
    PROVE  /\ lRenewed[j] <= lRenewed'[j]
           /\ Limits!MostOf(j) * lRenewed[j] + Limits!Lacks(j)
                 <= Limits!MostOf(j) * lRenewed'[j] + Limits!Lacks(j)'
<1>1. /\ lBucket \in [Limits!Keys -> Nat \cup {NoBucket}] /\ lRenewed \in [Limits!Keys -> Nat]
      /\ Limits!TypeOK /\ Limits!MapHasTheLive /\ Limits!BucketsAreBounded /\ lClock \in Nat
  BY DEF MapInv, Limits!TypeOK
<1>2. /\ lBucket' = [lBucket EXCEPT ![k] = NoBucket]
      /\ \A e \in DOMAIN lEntry :
            /\ lEntry'[e].key = lEntry[e].key /\ lEntry'[e].plan = lEntry[e].plan
            /\ lEntry'[e].used = lEntry[e].used /\ lEntry'[e].tokens = lEntry[e].tokens
      /\ lRenewed' \in [Limits!Keys -> Nat]
      /\ \A i \in Limits!Keys \ {k} : lRenewed'[i] = lRenewed[i]
      /\ \/ lRenewed'[k] = lRenewed[k] + 1
         \/ /\ lRenewed'[k] = lRenewed[k]
            /\ \/ lBucket[k] = NoBucket \/ ~excused
               \/ ~Limits!PartUsed(lEntry[lBucket[k]])
  BY DropMoves
<1>3. CASE j # k
  <2>1. lRenewed'[j] = lRenewed[j] /\ lBucket'[j] = lBucket[j]
    BY <1>1, <1>2, <1>3
  <2>2. Limits!Lacks(j)' = Limits!Lacks(j)
    <3>1. CASE lBucket[j] = NoBucket
      BY <2>1, <3>1 DEF Limits!Lacks
    <3>2. CASE lBucket[j] # NoBucket
      <4>1. lBucket[j] \in DOMAIN lEntry
        BY <1>1, <3>2 DEF Limits!MapHasTheLive
      <4>2. Limits!Level(lEntry[lBucket[j]])' = Limits!Level(lEntry[lBucket[j]])
        BY <1>2, <2>1, <4>1 DEF Limits!Level
      <4>. QED
        BY <1>2, <2>1, <3>2, <4>1, <4>2 DEF Limits!Lacks
    <3>. QED
      BY <3>1, <3>2
  <2>. QED
    BY <1>1, <2>1, <2>2, LacksBounds, MostBounds, TimesOneMore
<1>4. CASE j = k
  <2>1. Limits!Lacks(k)' = 0
    BY <1>1, <1>2 DEF Limits!Lacks
  <2>2. Limits!Lacks(k) \in 0..Limits!MostOf(k) /\ Limits!MostOf(k) \in Nat
    BY <1>1, LacksBounds, MostBounds
  <2>3. CASE lRenewed'[k] = lRenewed[k] + 1
    <3>1. Limits!MostOf(k) * lRenewed'[k] = Limits!MostOf(k) * lRenewed[k] + Limits!MostOf(k)
      BY <1>1, <2>2, <2>3, TimesOneMore
    <3>2. Limits!MostOf(k) * lRenewed[k] \in Nat /\ lRenewed[k] \in Nat
      BY <1>1, <2>2, TimesOneMore
    <3> DEFINE paid == Limits!MostOf(k) * lRenewed[k]
               paidThen == Limits!MostOf(k) * lRenewed'[k]
    <3>3. paidThen = paid + Limits!MostOf(k) /\ paid \in Nat
      BY <3>1, <3>2
    <3> HIDE DEF paid, paidThen
    <3>4. paid + Limits!Lacks(k) <= paidThen + 0
      BY <2>2, <3>3
    <3>. QED
      BY <1>4, <2>1, <2>3, <3>2, <3>4 DEF paid, paidThen
  <2>4. CASE lRenewed'[k] = lRenewed[k] /\ Limits!Lacks(k) = 0
    BY <1>1, <1>4, <2>1, <2>2, <2>4, TimesOneMore
  <2>5. Limits!Lacks(k) = 0 \/ lRenewed'[k] = lRenewed[k] + 1
    <3>1. ASSUME lBucket[k] # NoBucket, ~Limits!PartUsed(lEntry[lBucket[k]])
          PROVE  Limits!Lacks(k) = 0
      <4> DEFINE e == lEntry[lBucket[k]]
      <4>1. e \in Limits!Entries /\ e.key = k /\ e.used <= lClock /\ e.tokens <= Quota[e.key][e.plan]
        BY <1>1, <3>1 DEF Limits!TypeOK, Limits!MapHasTheLive, Limits!BucketsAreBounded
      <4>2. Limits!Lacks(k) = Quota[k][e.plan] - Limits!Level(e)
        BY <3>1 DEF Limits!Lacks
      <4>3. ~(Limits!Level(e) < Quota[e.key][e.plan])
        BY <3>1 DEF Limits!PartUsed
      <4> HIDE DEF e
      <4>4. Limits!Level(e) \in 0..Quota[k][e.plan] /\ Quota[k][e.plan] \in Nat
        BY <1>1, <4>1, LevelBounds
      <4>. QED
        BY <4>1, <4>2, <4>3, <4>4
    <3>2. lBucket[k] = NoBucket => Limits!Lacks(k) = 0
      BY DEF Limits!Lacks
    <3>. QED
      BY <1>2, <3>1, <3>2
  <2>. QED
    BY <1>2, <2>3, <2>4, <2>5
<1>. QED
  BY <1>3, <1>4

LEMMA RebuildMap ==
    ASSUME MapInv, NEW r \in Limited, Limits!Rebuild(r)
    PROVE  /\ MapInv' /\ UNCHANGED <<lClock, lAdmitted>>
           /\ lRequest[r].key \in Limits!Keys /\ Limits!Drop(lRequest[r].key, TRUE)
<1> USE DEF MapInv, Limits!TypeOK
<1> DEFINE k == lRequest[r].key
           reqs == [at : Limits!Stages, plan : Plans, key : Limits!Keys \cup {NoKey},
                    entry : Nat \cup {NoBucket}, tries : Nat, due : Nat]
<1>1. /\ lRequest[r].at = "rebuild" /\ k \in Limits!Keys /\ Limits!Drop(k, TRUE)
      /\ lRequest' = [lRequest EXCEPT ![r].at = "store"]
      /\ UNCHANGED <<lPlan, lSweep, lClock, lChanges, lAdmitted>>
  BY DEF Limits!Rebuild, Limits!EntriesAreOfTheirKey
<1>2. /\ lRequest' \in [Limited -> reqs]
      /\ lRequest'[r].at = "store" /\ lRequest'[r].key = k
      /\ \A q \in Limited \ {r} : lRequest'[q] = lRequest[q]
  <2> DEFINE v == [lRequest[r] EXCEPT !.at = "store"]
  <2>1. lRequest[r] \in reqs /\ lRequest \in [Limited -> reqs]
    OBVIOUS
  <2>2. lRequest' = [lRequest EXCEPT ![r] = v]
    BY <1>1
  <2>3. v \in reqs /\ v.at = "store" /\ v.key = k
    <3> HIDE DEF MapInv, Limits!TypeOK
    <3>. QED
      BY <2>1 DEF Limits!Stages
  <2> HIDE DEF v, reqs
  <2> HIDE DEF MapInv, Limits!TypeOK
  <2>. QED
    BY <2>1, <2>2, <2>3
<1>3. /\ lBucket' = [lBucket EXCEPT ![k] = NoBucket]
      /\ lEntry' \in Seq(Limits!Entries) /\ DOMAIN lEntry' = DOMAIN lEntry
      /\ \A e \in DOMAIN lEntry : /\ lEntry'[e].key = lEntry[e].key
                                  /\ lEntry'[e].used = lEntry[e].used
      /\ lRenewed' \in [Limits!Keys -> Nat]
  BY <1>1, DropMoves
<1>4. Limits!MapHasTheLive' /\ Limits!OthersAreDropped' /\ Limits!BucketsAreBounded'
  BY <1>1, DropMap
<1> HIDE DEF k
<1>5. Limits!EntriesAreOfTheirKey'
  <2>1. Limits!EntriesAreOfTheirKey
    OBVIOUS
  <2> HIDE DEF MapInv, Limits!TypeOK, reqs
  <2>. QED
    BY <1>1, <1>2, <1>3, <2>1 DEF Limits!EntriesAreOfTheirKey
<1>6. Limits!SweptAreFull'
  <2> SUFFICES ASSUME lSweep' # Limits!NoSweep
               PROVE  /\ lSweep'.key \in Limits!Keys /\ lSweep'.at <= lClock'
                      /\ lBucket'[lSweep'.key] # NoBucket
                            /\ lEntry'[lBucket'[lSweep'.key]].used < lSweep'.at
                         => lEntry'[lBucket'[lSweep'.key]].used < lSweep'.at - IdleTTL
    BY DEF Limits!SweptAreFull, Limits!NoSweep
  <2>1. lSweep.key \in Limits!Keys /\ lSweep.at <= lClock
    BY <1>1 DEF Limits!SweptAreFull
  <2>2. CASE lSweep.key = k
    BY <1>1, <1>3, <2>1, <2>2
  <2>3. CASE lSweep.key # k
    <3>1. lBucket'[lSweep.key] = lBucket[lSweep.key]
      BY <1>3, <2>1, <2>3
    <3>. QED
      BY <1>1, <1>3, <2>1, <3>1 DEF Limits!SweptAreFull, Limits!MapHasTheLive
  <2>. QED
    BY <2>2, <2>3
<1>. QED
  BY <1>1, <1>2, <1>3, <1>4, <1>5, <1>6 DEF k

LEMMA SweepMap ==
    ASSUME MapInv, Limits!SweepIdle
    PROVE  /\ MapInv' /\ UNCHANGED <<lClock, lAdmitted>>
           /\ \E k \in Limits!Keys, excused \in BOOLEAN :
                 Limits!Drop(k, excused) /\ (excused \/ Limits!Lacks(k) = 0)
<1> USE DEF MapInv, Limits!TypeOK
<1> DEFINE k == lSweep.key
           excused == lBucket[k] # NoBucket /\ lEntry[lBucket[k]].used >= lSweep.at
<1>1. /\ lSweep # Limits!NoSweep /\ Limits!Drop(k, excused) /\ lSweep' = Limits!NoSweep
      /\ UNCHANGED <<lPlan, lRequest, lClock, lChanges, lAdmitted>>
  BY DEF Limits!SweepIdle
<1>2. k \in Limits!Keys /\ excused \in BOOLEAN /\ lSweep.at <= lClock
      /\ lSweep.at \in Nat /\ lClock \in Nat
  BY <1>1 DEF Limits!SweptAreFull
<1>3. excused \/ Limits!Lacks(k) = 0
  <2> SUFFICES ASSUME ~excused PROVE Limits!Lacks(k) = 0
    OBVIOUS
  <2>1. CASE lBucket[k] = NoBucket
    BY <2>1 DEF Limits!Lacks
  <2>2. CASE lBucket[k] # NoBucket
    <3> DEFINE e == lEntry[lBucket[k]]
    <3>1. e \in Limits!Entries /\ e.key = k /\ e.used <= lClock /\ e.tokens <= Quota[e.key][e.plan]
      BY <1>2, <2>2 DEF Limits!MapHasTheLive, Limits!BucketsAreBounded
    <3>2. e.used \in Nat /\ e.tokens \in Nat
      BY <3>1 DEF Limits!Entries
    <3>3. e.used < lSweep.at - IdleTTL
      BY <1>1, <1>2, <2>2, <3>2 DEF Limits!SweptAreFull
    <3>4. Limits!Lacks(k) = Quota[k][e.plan] - Limits!Level(e)
      BY <2>2 DEF Limits!Lacks
    <3> HIDE DEF e
    <3>5. Quota[k][e.plan] \in Nat /\ Quota[k][e.plan] <= IdleTTL
      BY <1>2, <3>1, LevelBounds
    <3>6. Limits!Level(e) = Quota[k][e.plan]
      <4> DEFINE full == Quota[k][e.plan]
                 level == e.tokens + (lClock - e.used)
      <4>1. Limits!Level(e) = IF level > full THEN full ELSE level
        BY <3>1 DEF Limits!Level
      <4>2. full \in Nat /\ full <= IdleTTL /\ IdleTTL \in Nat
        BY <3>5, LimitsAssumption
      <4> HIDE DEF full
      <4> HIDE DEF MapInv, Limits!TypeOK
      <4>3. level > full
        BY <1>2, <3>2, <3>3, <4>2
      <4>. QED
        BY <4>1, <4>3 DEF full
    <3>. QED
      BY <3>4, <3>5, <3>6
  <2>. QED
    BY <2>1, <2>2
<1> HIDE DEF excused, k
<1>4. /\ lBucket' = [lBucket EXCEPT ![k] = NoBucket]
      /\ lEntry' \in Seq(Limits!Entries) /\ DOMAIN lEntry' = DOMAIN lEntry
      /\ \A e \in DOMAIN lEntry : lEntry'[e].key = lEntry[e].key
      /\ lRenewed' \in [Limits!Keys -> Nat]
  BY <1>1, <1>2, DropMoves
<1>5. Limits!MapHasTheLive' /\ Limits!OthersAreDropped' /\ Limits!BucketsAreBounded'
  BY <1>1, <1>2, DropMap
<1>6. Limits!EntriesAreOfTheirKey' /\ Limits!SweptAreFull'
  BY <1>1, <1>4 DEF Limits!EntriesAreOfTheirKey, Limits!SweptAreFull, Limits!NoSweep
<1>7. lSweep' \in [key : Limits!Keys \cup {NoKey}, at : Nat]
  BY <1>1 DEF Limits!NoSweep
<1>. QED
  BY <1>1, <1>2, <1>3, <1>4, <1>5, <1>6, <1>7

LEMMA StoreMap ==
    ASSUME MapInv, NEW r \in Limited, Limits!LoadOrStore(r)
    PROVE  /\ MapInv' /\ UNCHANGED <<lClock, lAdmitted, lRenewed>>
           /\ \A k \in Limits!Keys : Limits!Lacks(k)' = Limits!Lacks(k)
<1> USE LimitsAssumption DEF MapInv, Limits!TypeOK
<1> DEFINE q == lRequest[r]
           reqs == [at : Limits!Stages, plan : Plans, key : Limits!Keys \cup {NoKey},
                    entry : Nat \cup {NoBucket}, tries : Nat, due : Nat]
           new == [key |-> q.key, plan |-> q.plan, used |-> lClock,
                   tokens |-> Limits!QuotaFor(q), dropped |-> FALSE]
           n == Len(lEntry) + 1
<1>1. /\ q.at = "store" /\ q.key \in Limits!Keys /\ q.plan \in Plans /\ q \in reqs
      /\ UNCHANGED <<lPlan, lSweep, lClock, lChanges, lAdmitted, lRenewed>>
  BY DEF Limits!LoadOrStore, Limits!EntriesAreOfTheirKey
<1>2. CASE lBucket[q.key] = NoBucket
  <2>1. /\ lEntry' = Append(lEntry, new) /\ lBucket' = [lBucket EXCEPT ![q.key] = n]
        /\ lRequest' = [lRequest EXCEPT ![r].at = "take", ![r].entry = n]
    BY <1>2 DEF Limits!LoadOrStore, Limits!Stores
  <2>2. Quota[q.key][q.plan] \in Nat /\ Limits!QuotaFor(q) = Quota[q.key][q.plan]
    <3>1. Quota[q.key] \in [Plans -> 0..IdleTTL]
      BY <1>1
    <3>2. Quota[q.key][q.plan] \in 0..IdleTTL
      BY <1>1, <3>1
    <3>. QED
      BY <3>2 DEF Limits!QuotaFor
  <2>3. /\ new \in Limits!Entries /\ new.key = q.key /\ new.plan = q.plan /\ new.used = lClock
        /\ new.tokens = Quota[q.key][q.plan] /\ ~new.dropped
    BY <1>1, <2>2 DEF Limits!Entries
  <2>4. /\ lEntry' \in Seq(Limits!Entries) /\ DOMAIN lEntry' = DOMAIN lEntry \cup {n}
        /\ lEntry'[n] = new /\ n \notin DOMAIN lEntry /\ n \in Nat
        /\ \A e \in DOMAIN lEntry : lEntry'[e] = lEntry[e]
    <3> HIDE DEF new
    <3>. QED
      BY <2>1, <2>3
  <2>5. /\ lRequest' \in [Limited -> reqs] /\ lRequest'[r].entry = n /\ lRequest'[r].key = q.key
        /\ \A p \in Limited \ {r} : lRequest'[p] = lRequest[p]
    <3>1. lRequest' = [lRequest EXCEPT ![r] = [q EXCEPT !.at = "take", !.entry = n]]
      BY <2>1
    <3>2. [q EXCEPT !.at = "take", !.entry = n] \in reqs
      BY <1>1, <2>4 DEF Limits!Stages
    <3>. QED
      BY <3>1, <3>2
  <2> HIDE DEF new, n, q
  <2>6. /\ lBucket' \in [Limits!Keys -> Nat \cup {NoBucket}] /\ lBucket'[q.key] = n
        /\ \A j \in Limits!Keys \ {q.key} : lBucket'[j] = lBucket[j]
    BY <1>1, <2>1, <2>4
  <2>a. /\ Limits!EntriesAreOfTheirKey /\ Limits!MapHasTheLive /\ Limits!OthersAreDropped
        /\ Limits!BucketsAreBounded /\ Limits!SweptAreFull
        /\ lClock \in Nat /\ lSweep.at \in Nat
        /\ lBucket \in [Limits!Keys -> Nat \cup {NoBucket}]
        /\ \A e \in DOMAIN lEntry : lEntry[e] \in Limits!Entries /\ e \in Nat
    OBVIOUS
  <2> HIDE LimitsAssumption DEF MapInv, Limits!TypeOK, reqs
  <2>7. Limits!EntriesAreOfTheirKey'
    <3> SUFFICES ASSUME NEW p \in Limited
                 PROVE  /\ lRequest'[p].at \in {"lookup", "rebuild", "store", "take"}
                              => lRequest'[p].key \in Limits!Keys
                        /\ lRequest'[p].at = "take" =>
                              /\ lRequest'[p].entry \in DOMAIN lEntry'
                              /\ lEntry'[lRequest'[p].entry].key = lRequest'[p].key
      BY DEF Limits!EntriesAreOfTheirKey
    <3>1. CASE p = r
      BY <1>1, <2>3, <2>4, <2>5, <3>1
    <3>2. CASE p # r
      BY <2>a, <2>4, <2>5, <3>2 DEF Limits!EntriesAreOfTheirKey
    <3>. QED
      BY <3>1, <3>2
  <2>8. Limits!MapHasTheLive'
    <3> SUFFICES ASSUME NEW j \in Limits!Keys, lBucket'[j] # NoBucket
                 PROVE  /\ lBucket'[j] \in DOMAIN lEntry'
                        /\ lEntry'[lBucket'[j]].key = j /\ ~lEntry'[lBucket'[j]].dropped
      BY DEF Limits!MapHasTheLive
    <3>1. CASE j = q.key
      BY <2>3, <2>4, <2>6, <3>1
    <3>2. CASE j # q.key
      BY <2>a, <2>4, <2>6, <3>2 DEF Limits!MapHasTheLive
    <3>. QED
      BY <3>1, <3>2
  <2>9. Limits!OthersAreDropped'
    <3> SUFFICES ASSUME NEW e \in DOMAIN lEntry', ~lEntry'[e].dropped
                 PROVE  lBucket'[lEntry'[e].key] = e
      BY DEF Limits!OthersAreDropped
    <3>1. CASE e = n
      BY <3>1, <2>3, <2>4, <2>6
    <3>2. CASE e # n
      <4>0. e \in DOMAIN lEntry /\ lEntry'[e] = lEntry[e]
        BY <3>2, <2>4
      <4>1. lEntry[e] \in Limits!Entries /\ e \in Nat
        BY <2>a, <4>0
      <4>2. lBucket[lEntry[e].key] = e /\ lEntry[e].key \in Limits!Keys
        BY <2>a, <4>0, <4>1 DEF Limits!OthersAreDropped, Limits!Entries
      <4>. QED
        BY <1>2, <2>6, <4>0, <4>1, <4>2, LimitsAssumption
    <3>. QED
      BY <3>1, <3>2
  <2>10. Limits!BucketsAreBounded'
    <3> SUFFICES ASSUME NEW e \in DOMAIN lEntry'
                 PROVE  /\ lEntry'[e].used <= lClock'
                        /\ lEntry'[e].tokens <= Quota[lEntry'[e].key][lEntry'[e].plan]
      BY DEF Limits!BucketsAreBounded
    <3>1. CASE e = n
      <4>1. /\ lEntry'[e].used = lClock' /\ lClock' \in Nat
            /\ lEntry'[e].tokens = Quota[lEntry'[e].key][lEntry'[e].plan]
        BY <1>1, <2>a, <2>3, <2>4, <3>1
      <4>2. Quota[lEntry'[e].key][lEntry'[e].plan] \in Nat
        BY <2>2, <2>3, <2>4, <3>1
      <4>. QED
        BY <4>1, <4>2
    <3>2. CASE e # n
      BY <1>1, <2>a, <2>4, <3>2 DEF Limits!BucketsAreBounded
    <3>. QED
      BY <3>1, <3>2
  <2>11. Limits!SweptAreFull'
    <3> SUFFICES ASSUME lSweep' # Limits!NoSweep
                 PROVE  /\ lSweep'.key \in Limits!Keys /\ lSweep'.at <= lClock'
                        /\ lBucket'[lSweep'.key] # NoBucket
                              /\ lEntry'[lBucket'[lSweep'.key]].used < lSweep'.at
                           => lEntry'[lBucket'[lSweep'.key]].used < lSweep'.at - IdleTTL
      BY DEF Limits!SweptAreFull, Limits!NoSweep
    <3>1. lSweep.key \in Limits!Keys /\ lSweep.at <= lClock /\ lSweep.at \in Nat
      BY <1>1, <2>a DEF Limits!SweptAreFull
    <3>2. CASE lSweep.key = q.key
      BY <1>1, <2>a, <2>3, <2>4, <2>6, <3>1, <3>2
    <3>3. CASE lSweep.key # q.key
      <4>1. lBucket'[lSweep'.key] = lBucket[lSweep.key]
        BY <1>1, <2>6, <3>1, <3>3
      <4>2. lBucket[lSweep.key] # NoBucket => lEntry'[lBucket[lSweep.key]] = lEntry[lBucket[lSweep.key]]
        BY <2>a, <2>4, <3>1 DEF Limits!MapHasTheLive
      <4>3. lBucket[lSweep.key] # NoBucket /\ lEntry[lBucket[lSweep.key]].used < lSweep.at
               => lEntry[lBucket[lSweep.key]].used < lSweep.at - IdleTTL
        BY <1>1, <2>a DEF Limits!SweptAreFull
      <4>. QED
        BY <1>1, <3>1, <4>1, <4>2, <4>3
    <3>. QED
      BY <3>2, <3>3
  <2>12. ASSUME NEW k \in Limits!Keys PROVE Limits!Lacks(k)' = Limits!Lacks(k)
    <3>1. CASE k = q.key
      <4>0. lEntry'[lBucket'[k]] = new /\ lBucket'[k] # NoBucket
        BY <2>4, <2>6, <3>1, LimitsAssumption
      <4>1. Limits!Lacks(k)' = Quota[k][q.plan] - Limits!Level(lEntry[lBucket[k]])'
        BY <2>3, <4>0 DEF Limits!Lacks
      <4>2. Limits!Level(lEntry[lBucket[k]])' = Quota[k][q.plan]
        <5>1. lEntry'[lBucket'[k]].key = k /\ lEntry'[lBucket'[k]].plan = q.plan
              /\ lEntry'[lBucket'[k]].used = lClock' /\ lClock' \in Nat
              /\ lEntry'[lBucket'[k]].tokens = Quota[k][q.plan] /\ Quota[k][q.plan] \in Nat
          BY <1>1, <2>a, <2>2, <2>3, <3>1, <4>0
        <5>. QED
          BY <5>1 DEF Limits!Level
      <4>3. Limits!Lacks(k) = 0
        BY <1>2, <3>1 DEF Limits!Lacks
      <4>. QED
        BY <2>2, <3>1, <4>1, <4>2, <4>3
    <3>2. CASE k # q.key
      <4>1. lBucket'[k] = lBucket[k]
        BY <2>6, <3>2
      <4>2. lBucket[k] # NoBucket => lEntry'[lBucket[k]] = lEntry[lBucket[k]]
        BY <2>a, <2>4 DEF Limits!MapHasTheLive
      <4>. QED
        BY <1>1, <4>1, <4>2 DEF Limits!Lacks, Limits!Level
    <3>. QED
      BY <3>1, <3>2
  <2>. QED
    BY <1>1, <2>4, <2>5, <2>6, <2>7, <2>8, <2>9, <2>10, <2>11, <2>12, LimitsAssumption
       DEF MapInv, Limits!TypeOK, reqs
<1>3. CASE lBucket[q.key] # NoBucket
  <2>1. /\ lRequest' = [lRequest EXCEPT ![r].at = "take", ![r].entry = lBucket[q.key]]
        /\ UNCHANGED <<lEntry, lBucket>>
    BY <1>3 DEF Limits!LoadOrStore, Limits!Stores
  <2>2. lBucket[q.key] \in DOMAIN lEntry /\ lEntry[lBucket[q.key]].key = q.key
    BY <1>1, <1>3 DEF Limits!MapHasTheLive
  <2>3. /\ lRequest' \in [Limited -> reqs]
        /\ lRequest'[r].entry = lBucket[q.key] /\ lRequest'[r].key = q.key
        /\ \A p \in Limited \ {r} : lRequest'[p] = lRequest[p]
    <3>1. lRequest' = [lRequest EXCEPT ![r] = [q EXCEPT !.at = "take", !.entry = lBucket[q.key]]]
      BY <2>1
    <3>2. [q EXCEPT !.at = "take", !.entry = lBucket[q.key]] \in reqs
      BY <1>1 DEF Limits!Stages
    <3>. QED
      BY <3>1, <3>2
  <2> HIDE DEF q
  <2>4. Limits!EntriesAreOfTheirKey'
    BY <1>1, <2>1, <2>2, <2>3 DEF Limits!EntriesAreOfTheirKey
  <2>5. Limits!MapHasTheLive' /\ Limits!OthersAreDropped' /\ Limits!BucketsAreBounded'
        /\ Limits!SweptAreFull'
    BY <1>1, <2>1 DEF Limits!MapHasTheLive, Limits!OthersAreDropped, Limits!BucketsAreBounded,
       Limits!SweptAreFull, Limits!NoSweep
  <2>6. \A k \in Limits!Keys : Limits!Lacks(k)' = Limits!Lacks(k)
    BY <1>1, <2>1 DEF Limits!Lacks, Limits!Level
  <2>. QED
    BY <1>1, <2>1, <2>3, <2>4, <2>5, <2>6
<1>. QED
  BY <1>2, <1>3

\* A request takes a token, of the live bucket of its key or of a dropped one.
LEMMA TakeMoves ==
    ASSUME MapInv, NEW r \in Limited, Limits!Take(r)
    PROVE  LET k == lRequest[r].key
               i == lRequest[r].entry
               level == Limits!Level(lEntry[i])
           IN  /\ k \in Limits!Keys /\ i \in DOMAIN lEntry /\ lEntry[i].key = k
               /\ level \in 0..Quota[k][lEntry[i].plan]
               /\ Quota[k][lEntry[i].plan] \in Nat /\ Quota[k][lEntry[i].plan] <= Limits!MostOf(k)
               /\ UNCHANGED <<lPlan, lBucket, lSweep, lClock, lChanges>>
               /\ lEntry' \in Seq(Limits!Entries) /\ DOMAIN lEntry' = DOMAIN lEntry
               /\ \A e \in DOMAIN lEntry \ {i} : lEntry'[e] = lEntry[e]
               /\ lEntry'[i].key = k /\ lEntry'[i].plan = lEntry[i].plan
               /\ lEntry'[i].dropped = lEntry[i].dropped /\ lEntry'[i].used = lClock
               /\ lEntry'[i].tokens = IF level > 0 THEN level - 1 ELSE 0
<1> USE LimitsAssumption DEF MapInv, Limits!TypeOK
<1> DEFINE k == lRequest[r].key
           i == lRequest[r].entry
           level == Limits!Level(lEntry[i])
           left == IF level > 0 THEN level - 1 ELSE 0
           v == [lEntry[i] EXCEPT !.tokens = left, !.used = lClock]
<1>1. /\ k \in Limits!Keys /\ i \in DOMAIN lEntry /\ lEntry[i].key = k
      /\ UNCHANGED <<lPlan, lBucket, lSweep, lClock, lChanges>>
      /\ lEntry' = [lEntry EXCEPT ![i].tokens = left, ![i].used = lClock]
  BY DEF Limits!Take, Limits!EntriesAreOfTheirKey
<1>2. lEntry[i] \in Limits!Entries /\ lEntry[i].used <= lClock
      /\ lEntry[i].tokens <= Quota[k][lEntry[i].plan]
  BY <1>1 DEF Limits!BucketsAreBounded
<1>3. lEntry' = [lEntry EXCEPT ![i] = v]
  BY <1>1
<1> HIDE DEF k, i
<1>4. /\ level \in 0..Quota[k][lEntry[i].plan]
      /\ Quota[k][lEntry[i].plan] \in Nat /\ Quota[k][lEntry[i].plan] <= Limits!MostOf(k)
  BY <1>1, <1>2, LevelBounds
<1> HIDE DEF level
<1>a. left \in Nat /\ i \in DOMAIN lEntry /\ lEntry[i].key = k /\ lClock \in Nat
      /\ lEntry \in Seq(Limits!Entries)
  BY <1>1, <1>4
<1> HIDE DEF left
<1>5. /\ v \in Limits!Entries /\ v.key = k /\ v.plan = lEntry[i].plan
      /\ v.dropped = lEntry[i].dropped /\ v.used = lClock /\ v.tokens = left
  BY <1>2, <1>a DEF Limits!Entries
<1> HIDE DEF v
<1>6. /\ lEntry' \in Seq(Limits!Entries) /\ DOMAIN lEntry' = DOMAIN lEntry
      /\ lEntry'[i] = v /\ \A e \in DOMAIN lEntry \ {i} : lEntry'[e] = lEntry[e]
  BY <1>3, <1>5, <1>a, EntryWritten
<1>. QED
  BY <1>1, <1>4, <1>5, <1>6 DEF k, i, level, left

LEMMA TakeMap ==
    ASSUME MapInv, NEW r \in Limited, Limits!Take(r), Limits!TypeOK'
    PROVE  MapInv'
<1> DEFINE k == lRequest[r].key
           i == lRequest[r].entry
<1>1. /\ k \in Limits!Keys /\ i \in DOMAIN lEntry /\ lEntry[i].key = k
      /\ UNCHANGED <<lPlan, lBucket, lSweep, lClock, lChanges>>
      /\ DOMAIN lEntry' = DOMAIN lEntry
      /\ \A e \in DOMAIN lEntry \ {i} : lEntry'[e] = lEntry[e]
      /\ lEntry'[i].key = k /\ lEntry'[i].plan = lEntry[i].plan
      /\ lEntry'[i].dropped = lEntry[i].dropped /\ lEntry'[i].used = lClock
  BY TakeMoves
<1>2. lEntry'[i].tokens <= Quota[k][lEntry[i].plan]
  <2> DEFINE level == Limits!Level(lEntry[i])
             full == Quota[k][lEntry[i].plan]
  <2>1. level \in 0..full /\ full \in Nat
    BY TakeMoves
  <2>2. lEntry'[i].tokens = IF level > 0 THEN level - 1 ELSE 0
    BY TakeMoves
  <2> HIDE DEF level, full
  <2>3. lEntry'[i].tokens <= full
    BY <2>1, <2>2
  <2>. QED
    BY <2>3 DEF full
<1>3. \A e \in DOMAIN lEntry : lEntry'[e].key = lEntry[e].key /\ lEntry'[e].dropped = lEntry[e].dropped
                               /\ lEntry'[e].plan = lEntry[e].plan
  BY <1>1
<1>4. lClock \in Nat /\ lSweep.at \in Nat
  BY DEF MapInv, Limits!TypeOK
<1> HIDE DEF i
<1>5. Limits!MapHasTheLive' /\ Limits!OthersAreDropped'
  BY <1>1, <1>3 DEF MapInv, Limits!MapHasTheLive, Limits!OthersAreDropped
<1>6. Limits!BucketsAreBounded'
  <2> SUFFICES ASSUME NEW e \in DOMAIN lEntry
               PROVE  /\ lEntry'[e].used <= lClock'
                      /\ lEntry'[e].tokens <= Quota[lEntry'[e].key][lEntry'[e].plan]
    BY <1>1 DEF Limits!BucketsAreBounded
  <2>1. CASE e = i
    BY <1>1, <1>2, <1>4, <2>1
  <2>2. CASE e # i
    BY <1>1, <2>2 DEF MapInv, Limits!BucketsAreBounded
  <2>. QED
    BY <2>1, <2>2
<1>7. Limits!SweptAreFull'
  <2> SUFFICES ASSUME lSweep' # Limits!NoSweep
               PROVE  /\ lSweep'.key \in Limits!Keys /\ lSweep'.at <= lClock'
                      /\ lBucket'[lSweep'.key] # NoBucket
                            /\ lEntry'[lBucket'[lSweep'.key]].used < lSweep'.at
                         => lEntry'[lBucket'[lSweep'.key]].used < lSweep'.at - IdleTTL
    BY DEF Limits!SweptAreFull, Limits!NoSweep
  <2>1. lSweep.key \in Limits!Keys /\ lSweep.at <= lClock
    BY <1>1 DEF MapInv, Limits!SweptAreFull
  <2>2. CASE lBucket[lSweep.key] = i
    BY <1>1, <1>4, <2>1, <2>2
  <2>3. CASE lBucket[lSweep.key] # i
    BY <1>1, <2>1, <2>3 DEF MapInv, Limits!SweptAreFull, Limits!MapHasTheLive
  <2>. QED
    BY <2>2, <2>3
<1>8. Limits!EntriesAreOfTheirKey'
  <2> SUFFICES ASSUME NEW p \in Limited
               PROVE  /\ lRequest'[p].at \in {"lookup", "rebuild", "store", "take"}
                            => lRequest'[p].key \in Limits!Keys
                      /\ lRequest'[p].at = "take" =>
                            /\ lRequest'[p].entry \in DOMAIN lEntry'
                            /\ lEntry'[lRequest'[p].entry].key = lRequest'[p].key
    BY DEF Limits!EntriesAreOfTheirKey
  <2>1. CASE p # r
    <3>1. lRequest'[p] = lRequest[p]
      BY <2>1 DEF Limits!Take, MapInv, Limits!TypeOK
    <3>. QED
      BY <1>1, <1>3, <3>1 DEF MapInv, Limits!EntriesAreOfTheirKey
  <2>2. CASE p = r
    <3> DEFINE q == lRequest[r]
    <3>1. PICK w \in {[q EXCEPT !.at = "served"],
                     [q EXCEPT !.at = "lookup", !.key = Team, !.entry = NoBucket],
                     [q EXCEPT !.at = "refused", !.due = lClock + 1]} :
             lRequest' = [lRequest EXCEPT ![r] = w]
      BY DEF Limits!Take, Limits!Passed
    <3>2. q \in [at : Limits!Stages, plan : Plans, key : Limits!Keys \cup {NoKey},
                 entry : Nat \cup {NoBucket}, tries : Nat, due : Nat]
          /\ lRequest'[r] = w
      BY <3>1 DEF MapInv, Limits!TypeOK
    <3> HIDE DEF q
    <3>3. \/ w.at \in {"served", "refused"}
          \/ w.at = "lookup" /\ w.key = Team
      BY <3>1, <3>2
    <3>4. \/ lRequest'[r].at \in {"served", "refused"}
          \/ lRequest'[r].at = "lookup" /\ lRequest'[r].key = Team
      BY <3>2, <3>3
    <3>. QED
      BY <2>2, <3>4 DEF Limits!Keys
  <2>. QED
    BY <2>1, <2>2
<1>. QED
  BY <1>5, <1>6, <1>7, <1>8 DEF MapInv

\* What a token takes from the bucket, or from the excused.
LEMMA TakeBudget ==
    ASSUME MapInv, NEW r \in Limited, Limits!Take(r), NEW j \in Limits!Keys,
           Limits!TypeOK', MapInv'
    PROVE  LET granted == Limits!Level(lEntry[lRequest[r].entry]) > 0
               one == IF granted /\ j = lRequest[r].key THEN 1 ELSE 0
           IN  /\ lRenewed[j] <= lRenewed'[j]
               /\ Limits!MostOf(j) * lRenewed[j] + Limits!Lacks(j) + one
                     <= Limits!MostOf(j) * lRenewed'[j] + Limits!Lacks(j)'
<1> DEFINE k == lRequest[r].key
           i == lRequest[r].entry
           level == Limits!Level(lEntry[i])
           full == Quota[k][lEntry[i].plan]
           most == Limits!MostOf(j)
           paid == most * lRenewed[j]
           paidThen == most * lRenewed'[j]
           one == IF level > 0 /\ j = k THEN 1 ELSE 0
<1>1. /\ k \in Limits!Keys /\ i \in DOMAIN lEntry /\ lEntry[i].key = k
      /\ UNCHANGED <<lBucket, lClock>> /\ lClock \in Nat
      /\ \A e \in DOMAIN lEntry \ {i} : lEntry'[e] = lEntry[e]
      /\ lEntry'[i].key = k /\ lEntry'[i].plan = lEntry[i].plan /\ lEntry'[i].used = lClock
  BY TakeMoves DEF MapInv, Limits!TypeOK
<1>2. level \in 0..full /\ full \in Nat /\ full <= Limits!MostOf(k)
      /\ lEntry'[i].tokens = IF level > 0 THEN level - 1 ELSE 0
  BY TakeMoves
<1>3. /\ Limits!TypeOK /\ Limits!MapHasTheLive /\ Limits!BucketsAreBounded /\ Limits!OthersAreDropped
      /\ lRenewed \in [Limits!Keys -> Nat] /\ lRenewed' \in [Limits!Keys -> Nat]
      /\ lBucket \in [Limits!Keys -> Nat \cup {NoBucket}]
  BY DEF MapInv, Limits!TypeOK
<1>a. i \in Nat
  <2>1. DOMAIN lEntry \subseteq Nat
    BY DEF MapInv, Limits!TypeOK
  <2>. QED
    BY <1>1, <2>1
<1>4. Limits!Lacks(j) \in 0..most /\ most \in Nat
  BY <1>3, LacksBounds, MostBounds
<1>5. paid \in Nat
  BY <1>3, <1>4, TimesOneMore
<1>6. \/ level > 0 /\ lRenewed' = [lRenewed EXCEPT ![k] = IF lEntry[i].dropped THEN @ + 1 ELSE @]
      \/ ~(level > 0) /\ lRenewed' = lRenewed
  BY DEF Limits!Take
<1>7. ASSUME lBucket[j] # i PROVE Limits!Lacks(j)' = Limits!Lacks(j)
  <2>1. CASE lBucket[j] = NoBucket
    BY <1>1, <2>1 DEF Limits!Lacks
  <2>2. CASE lBucket[j] # NoBucket
    <3>1. lEntry'[lBucket'[j]] = lEntry[lBucket[j]] /\ lBucket'[j] # NoBucket
      BY <1>1, <1>3, <1>7, <2>2 DEF Limits!MapHasTheLive
    <3>2. Limits!Level(lEntry[lBucket[j]])' = Limits!Level(lEntry[lBucket[j]])
      BY <1>1, <3>1 DEF Limits!Level
    <3>. QED
      BY <2>2, <3>1, <3>2 DEF Limits!Lacks
  <2>. QED
    BY <2>1, <2>2
<1>8. CASE j # k
  <2>1. lRenewed'[j] = lRenewed[j] /\ lBucket[j] # i
    <3>1. lRenewed'[j] = lRenewed[j]
      BY <1>1, <1>3, <1>6, <1>8
    <3>2. ASSUME lBucket[j] = i PROVE FALSE
      <4>1. i # NoBucket
        BY <1>a, LimitsAssumption
      <4>. QED
        BY <1>1, <1>3, <1>8, <3>2, <4>1 DEF Limits!MapHasTheLive
    <3>. QED
      BY <3>1, <3>2
  <2>2. Limits!Lacks(j)' = Limits!Lacks(j)
    BY <1>7, <2>1
  <2>3. paidThen = paid /\ one = 0 /\ lRenewed[j] \in Nat
    BY <1>3, <1>8, <2>1
  <2> HIDE DEF paid, paidThen, one
  <2>4. lRenewed[j] <= lRenewed'[j] /\ paid + Limits!Lacks(j) + one <= paidThen + Limits!Lacks(j)'
    BY <1>4, <1>5, <2>1, <2>2, <2>3
  <2>. QED
    BY <2>4 DEF paid, paidThen, one
<1>9. CASE j = k /\ lBucket[k] = i
  <2>1. i # NoBucket /\ ~lEntry[i].dropped
    <3>1. i # NoBucket
      BY <1>a, LimitsAssumption
    <3>. QED
      BY <1>1, <1>3, <1>9, <3>1 DEF Limits!MapHasTheLive
  <2>2. lRenewed'[j] = lRenewed[j] /\ lRenewed[j] \in Nat
    BY <1>3, <1>6, <1>9, <2>1
  <2>3. Limits!Lacks(j) = full - level
    BY <1>9, <2>1 DEF Limits!Lacks
  <2>4. Limits!Lacks(j)' = full - Limits!Level(lEntry[lBucket[j]])'
    BY <1>1, <1>9, <2>1 DEF Limits!Lacks
  <2>5. Limits!Level(lEntry[lBucket[j]])' = IF level > 0 THEN level - 1 ELSE 0
    <3>1. /\ lEntry'[lBucket'[j]].used = lClock' /\ lClock' \in Nat
          /\ lEntry'[lBucket'[j]].key = k /\ lEntry'[lBucket'[j]].plan = lEntry[i].plan
          /\ lEntry'[lBucket'[j]].tokens = IF level > 0 THEN level - 1 ELSE 0
      BY <1>1, <1>2, <1>9
    <3> DEFINE left == IF level > 0 THEN level - 1 ELSE 0
    <3>2. Limits!Level(lEntry[lBucket[j]])' =
             IF left + (lClock' - lClock') > full THEN full ELSE left + (lClock' - lClock')
      BY <3>1 DEF Limits!Level
    <3> HIDE DEF level, full
    <3>3. left \in 0..full /\ full \in Nat
      BY <1>2
    <3> HIDE DEF left
    <3>4. left + (lClock' - lClock') = left
      BY <3>1, <3>3
    <3>5. Limits!Level(lEntry[lBucket[j]])' = left
      BY <3>2, <3>3, <3>4
    <3>. QED
      BY <3>5 DEF left
  <2>6. one = IF level > 0 THEN 1 ELSE 0
    BY <1>9
  <2>7. paidThen = paid
    BY <2>2
  <2> HIDE DEF paid, paidThen, one, level, full
  <2>8. lRenewed[j] <= lRenewed'[j] /\ paid + Limits!Lacks(j) + one <= paidThen + Limits!Lacks(j)'
    BY <1>2, <1>4, <1>5, <2>2, <2>3, <2>4, <2>5, <2>6, <2>7
  <2>. QED
    BY <2>8 DEF paid, paidThen, one, level
<1>10. CASE j = k /\ lBucket[k] # i
  <2>1. lEntry[i].dropped
    BY <1>1, <1>3, <1>10 DEF Limits!OthersAreDropped
  <2>2. Limits!Lacks(j)' = Limits!Lacks(j)
    BY <1>7, <1>10
  <2>3. CASE level > 0
    <3>1. lRenewed'[j] = lRenewed[j] + 1 /\ lRenewed[j] \in Nat
      BY <1>3, <1>6, <1>10, <2>1, <2>3
    <3>2. paidThen = paid + most
      BY <1>4, <3>1, TimesOneMore
    <3>3. one = 1 /\ most >= 1
      <4> HIDE DEF level, full
      <4>. QED
        BY <1>2, <1>4, <1>10, <2>3
    <3> HIDE DEF paid, paidThen, one, most
    <3>4. lRenewed[j] <= lRenewed'[j] /\ paid + Limits!Lacks(j) + one <= paidThen + Limits!Lacks(j)'
      BY <1>4, <1>5, <2>2, <3>1, <3>2, <3>3
    <3>. QED
      BY <3>4 DEF paid, paidThen, one, most
  <2>4. CASE ~(level > 0)
    <3>1. lRenewed'[j] = lRenewed[j] /\ lRenewed[j] \in Nat /\ one = 0
      BY <1>3, <1>6, <2>4
    <3>2. paidThen = paid
      BY <3>1
    <3> HIDE DEF paid, paidThen, one, most
    <3>3. lRenewed[j] <= lRenewed'[j] /\ paid + Limits!Lacks(j) + one <= paidThen + Limits!Lacks(j)'
      BY <1>4, <1>5, <2>2, <3>1, <3>2
    <3>. QED
      BY <3>3 DEF paid, paidThen, one, most
  <2>. QED
    BY <2>3, <2>4
<1>. QED
  BY <1>8, <1>9, <1>10

-----------------------------------------------------------------------------
(* What was admitted.                                                        *)

LEMMA TakeTyped ==
    ASSUME MapInv, NEW r \in Limited, Limits!Take(r)
    PROVE  Limits!TypeOK'
<1> DEFINE q == lRequest[r]
           reqs == [at : Limits!Stages, plan : Plans, key : Limits!Keys \cup {NoKey},
                    entry : Nat \cup {NoBucket}, tries : Nat, due : Nat]
           x == [key |-> q.key, at |-> lClock,
                 n |-> Limits!AdmittedIn(q.key, lClock, lClock) + 1]
<1>1. /\ q.key \in Limits!Keys /\ lEntry' \in Seq(Limits!Entries)
      /\ UNCHANGED <<lPlan, lBucket, lSweep, lClock, lChanges>>
  BY TakeMoves
<1>2. lRequest' \in [Limited -> reqs]
  <2>1. PICK w \in {[q EXCEPT !.at = "served"],
                   [q EXCEPT !.at = "lookup", !.key = Team, !.entry = NoBucket],
                   [q EXCEPT !.at = "refused", !.due = lClock + 1]} :
           lRequest' = [lRequest EXCEPT ![r] = w]
    BY DEF Limits!Take, Limits!Passed
  <2>2. q \in reqs /\ lClock + 1 \in Nat
    BY DEF MapInv, Limits!TypeOK
  <2> HIDE DEF q
  <2>3. w \in reqs
    BY <2>1, <2>2 DEF Limits!Stages, Limits!Keys
  <2>. QED
    BY <2>1, <2>3 DEF MapInv, Limits!TypeOK
<1>3. lRenewed' \in [Limits!Keys -> Nat]
  <2>1. \/ lRenewed' = lRenewed
        \/ lRenewed' = [lRenewed EXCEPT ![q.key] = IF lEntry[q.entry].dropped THEN @ + 1 ELSE @]
    BY DEF Limits!Take
  <2> HIDE DEF q
  <2>. QED
    BY <1>1, <2>1 DEF MapInv, Limits!TypeOK
<1>4. lAdmitted' = lAdmitted \/ lAdmitted' = lAdmitted \cup {x}
  BY DEF Limits!Take
<1>5. x \in [key : Limits!Keys, at : 0..lClock, n : Nat]
  <2>1. Limits!AdmittedIn(q.key, lClock, lClock) + 1 \in Nat /\ lClock \in 0..lClock
    BY CountIsANumber DEF MapInv, Limits!TypeOK
  <2>. QED
    BY <1>1, <2>1
<1> HIDE DEF x, reqs
<1>6. Limits!IsFiniteSet(lAdmitted') /\ lAdmitted' \subseteq [key : Limits!Keys, at : 0..lClock', n : Nat]
  <2>1. /\ IsFiniteSet(lAdmitted) /\ lAdmitted \subseteq [key : Limits!Keys, at : 0..lClock, n : Nat]
    BY SameFinite DEF MapInv, Limits!TypeOK
  <2>2. IsFiniteSet(lAdmitted')
    BY <1>4, <2>1, FS_AddElement
  <2>. QED
    BY <1>1, <1>4, <1>5, <2>1, <2>2, SameFinite
<1>. QED
  BY <1>1, <1>2, <1>3, <1>6 DEF MapInv, Limits!TypeOK, reqs

\* A token is admitted to its key, at its time, and to no other.
LEMMA TakeCounts ==
    ASSUME MapInv, Limits!TokensAreNumbered, NEW r \in Limited, Limits!Take(r),
           Limits!Level(lEntry[lRequest[r].entry]) > 0,
           NEW j, NEW f \in Nat, NEW t \in Nat
    PROVE  Limits!AdmittedIn(j, f, t)' =
              IF j = lRequest[r].key /\ lClock \in f..t
              THEN Limits!AdmittedIn(j, f, t) + 1 ELSE Limits!AdmittedIn(j, f, t)
<1> DEFINE k == lRequest[r].key
           x == [key |-> k, at |-> lClock, n |-> Limits!AdmittedIn(k, lClock, lClock) + 1]
           S == {y \in lAdmitted : y.key = j /\ y.at \in f..t}
           T == {y \in lAdmitted' : y.key = j /\ y.at \in f..t}
<1>1. lAdmitted' = lAdmitted \cup {x}
  BY DEF Limits!Take
<1>2. x \notin lAdmitted
  <2>1. Limits!AdmittedIn(k, lClock, lClock) \in Nat
    BY CountIsANumber DEF MapInv
  <2> SUFFICES ASSUME x \in lAdmitted PROVE FALSE
    OBVIOUS
  <2>2. x.n <= Limits!AdmittedIn(x.key, x.at, x.at)
    BY DEF Limits!TokensAreNumbered
  <2>. QED
    BY <2>1, <2>2
<1>3. x.key = k /\ x.at = lClock
  OBVIOUS
<1> HIDE DEF x, k
<1>4. IsFiniteSet(S)
  BY SameFinite, FS_Subset DEF MapInv, Limits!TypeOK
<1>5. Limits!AdmittedIn(j, f, t) = Cardinality(S) /\ Limits!AdmittedIn(j, f, t)' = Cardinality(T)
  BY SameSize DEF Limits!AdmittedIn
<1>6. CASE j = k /\ lClock \in f..t
  <2>1. T = S \cup {x} /\ x \notin S
    BY <1>1, <1>2, <1>3, <1>6
  <2> HIDE DEF S, T
  <2>2. Cardinality(T) = Cardinality(S) + 1
    BY <1>4, <2>1, FS_AddElement
  <2>. QED
    BY <1>5, <1>6, <2>2 DEF k
<1>7. CASE ~(j = k /\ lClock \in f..t)
  <2>1. T = S
    BY <1>1, <1>3, <1>7
  <2>. QED
    BY <1>5, <1>7, <2>1 DEF k
<1>. QED
  BY <1>6, <1>7

Counted == /\ \A k \in Limits!Keys : Limits!Lacks(k) \in Nat /\ Limits!Lacks(k) <= Limits!MostOf(k)
           /\ \A k \in Limits!Keys, f \in Nat, t \in Nat : Limits!AdmittedIn(k, f, t) \in Nat

LEMMA CountsAreNumbers == MapInv => Counted
<1>1. ASSUME MapInv, NEW k \in Limits!Keys
      PROVE  Limits!Lacks(k) \in Nat /\ Limits!Lacks(k) <= Limits!MostOf(k)
  <2>1. Limits!Lacks(k) \in 0..Limits!MostOf(k) /\ Limits!MostOf(k) \in Nat
    BY <1>1, LacksBounds, MostBounds DEF MapInv
  <2>. QED
    BY <2>1
<1>. QED
  BY <1>1, CountIsANumber DEF MapInv, Counted

\* The quota is what the budget leaves, since no bucket lacks more than all.
LEMMA QuotaFollows ==
    ASSUME Limits!IInv, MapInv', Limits!AdmittedIsLacking',
           lClock' = lClock \/ lClock' = lClock + 1,
           \A k \in Limits!Keys : lRenewed[k] <= lRenewed'[k],
           \A k \in Limits!Keys, f \in Nat, t \in Nat :
              t < lClock' => Limits!AdmittedIn(k, f, t)' = Limits!AdmittedIn(k, f, t)
    PROVE  Limits!QuotaHolds'
<1> SUFFICES ASSUME NEW k \in Limits!Keys, NEW f \in 0..lClock', NEW t \in f..lClock'
             PROVE  Limits!AdmittedIn(k, f, t)'
                       <= Limits!MostOf(k) * (1 + lRenewed'[k]) + (t - f)
  BY DEF Limits!QuotaHolds
<1>0. /\ \A j \in Limits!Keys : Limits!Lacks(j)' \in Nat /\ Limits!Lacks(j)' <= Limits!MostOf(j)
      /\ \A j \in Limits!Keys, b \in Nat, c \in Nat : Limits!AdmittedIn(j, b, c)' \in Nat
  <2>1. Counted'
    BY CountsAreNumbers, PTL
  <2>. QED
    BY <2>1 DEF Counted, Limits!MostOf
<1> DEFINE most == Limits!MostOf(k)
<1>1. /\ lClock \in Nat /\ lClock' \in Nat /\ f \in Nat /\ t \in Nat /\ f <= t /\ t <= lClock'
      /\ lRenewed[k] \in Nat /\ lRenewed'[k] \in Nat
  BY DEF Limits!IInv, MapInv, Limits!TypeOK
<1>2. most \in Nat
  BY MostBounds
<1> DEFINE grant == most * (1 + lRenewed[k])
           grantThen == most * (1 + lRenewed'[k])
           paidThen == most * lRenewed'[k]
<1>3. grant \in Nat /\ grant <= grantThen
  <2>1. 1 + lRenewed[k] \in Nat /\ 1 + lRenewed'[k] \in Nat /\ 1 + lRenewed[k] <= 1 + lRenewed'[k]
    BY <1>1
  <2>. QED
    BY <1>2, <2>1, TimesOneMore
<1>4. grantThen = paidThen + most /\ paidThen \in Nat
  BY <1>1, <1>2, TimesOneMore
<1>5. CASE t < lClock'
  <2>1. Limits!AdmittedIn(k, f, t)' = Limits!AdmittedIn(k, f, t)
    BY <1>1, <1>5
  <2>2. f \in 0..lClock /\ t \in f..lClock
    BY <1>1, <1>5
  <2>3. Limits!AdmittedIn(k, f, t) <= grant + (t - f)
    BY <2>2 DEF Limits!IInv, Limits!QuotaHolds
  <2>4. Limits!AdmittedIn(k, f, t) \in Nat
    BY CountIsANumber DEF Limits!IInv
  <2> HIDE DEF grant, grantThen
  <2>5. Limits!AdmittedIn(k, f, t)' <= grantThen + (t - f)
    BY <1>1, <1>3, <1>4, <2>1, <2>3, <2>4
  <2>. QED
    BY <2>5 DEF grantThen
<1>6. CASE t = lClock'
  <2>1. Limits!AdmittedIn(k, f, t)' <= paidThen + (lClock' - f) + Limits!Lacks(k)'
    BY <1>6 DEF Limits!AdmittedIsLacking
  <2>2. Limits!Lacks(k)' \in Nat /\ Limits!Lacks(k)' <= Limits!MostOf(k)
    BY <1>0
  <2>3. Limits!AdmittedIn(k, f, t)' \in Nat
    BY <1>0, <1>1
  <2> HIDE DEF most, grantThen, paidThen
  <2>4. Limits!AdmittedIn(k, f, t)' <= grantThen + (t - f)
    BY <1>1, <1>2, <1>4, <1>6, <2>1, <2>2, <2>3 DEF most
  <2>. QED
    BY <2>4 DEF grantThen, most
<1>. QED
  BY <1>1, <1>5, <1>6

\* A step that admits nothing keeps the quota if it loses no budget.
LEMMA BudgetFollows ==
    ASSUME Limits!IInv, MapInv', UNCHANGED <<lClock, lAdmitted>>,
           \A k \in Limits!Keys :
              /\ lRenewed[k] <= lRenewed'[k]
              /\ Limits!MostOf(k) * lRenewed[k] + Limits!Lacks(k)
                    <= Limits!MostOf(k) * lRenewed'[k] + Limits!Lacks(k)'
    PROVE  Limits!IInv'
<1>1. ASSUME NEW k, NEW f, NEW t
      PROVE  Limits!AdmittedIn(k, f, t)' = Limits!AdmittedIn(k, f, t)
  BY DEF Limits!AdmittedIn
<1>2. Limits!TokensAreNumbered'
  BY <1>1 DEF Limits!IInv, Limits!TokensAreNumbered
<1>3. Limits!AdmittedIsLacking'
  <2> SUFFICES ASSUME NEW k \in Limits!Keys, NEW f \in 0..lClock'
               PROVE  Limits!AdmittedIn(k, f, lClock)'
                         <= Limits!MostOf(k) * lRenewed'[k] + (lClock' - f) + Limits!Lacks(k)'
    BY DEF Limits!AdmittedIsLacking
  <2>1. Limits!AdmittedIn(k, f, lClock)' = Limits!AdmittedIn(k, f, lClock) /\ f \in 0..lClock
    BY DEF Limits!AdmittedIn
  <2>2. Limits!AdmittedIn(k, f, lClock)
           <= Limits!MostOf(k) * lRenewed[k] + (lClock - f) + Limits!Lacks(k)
    BY <2>1 DEF Limits!IInv, Limits!AdmittedIsLacking
  <2>3. /\ lClock \in Nat /\ lRenewed[k] \in Nat /\ lRenewed'[k] \in Nat
        /\ Limits!MostOf(k) \in Nat
    BY MostBounds DEF Limits!IInv, MapInv, Limits!TypeOK
  <2>4. /\ Limits!Lacks(k) \in Nat /\ Limits!Lacks(k)' \in Nat
        /\ Limits!AdmittedIn(k, f, lClock) \in Nat
    <3>1. Counted'
      BY CountsAreNumbers, PTL
    <3>2. Counted
      BY CountsAreNumbers DEF Limits!IInv, MapInv
    <3>. QED
      BY <2>1, <2>3, <3>1, <3>2 DEF Counted
  <2> DEFINE paid == Limits!MostOf(k) * lRenewed[k]
             paidThen == Limits!MostOf(k) * lRenewed'[k]
  <2>5. paid \in Nat /\ paidThen \in Nat
    BY <2>3, TimesOneMore
  <2>6. paid + Limits!Lacks(k) <= paidThen + Limits!Lacks(k)'
    OBVIOUS
  <2> HIDE DEF paid, paidThen
  <2>7. Limits!AdmittedIn(k, f, lClock)' <= paidThen + (lClock' - f) + Limits!Lacks(k)'
    BY <2>1, <2>2, <2>3, <2>4, <2>5, <2>6 DEF paid
  <2>. QED
    BY <2>7 DEF paidThen
<1>4. Limits!QuotaHolds'
  BY <1>1, <1>3, QuotaFollows
<1>. QED
  BY <1>2, <1>3, <1>4 DEF Limits!IInv, MapInv

\* Time passes: what was admitted so far is all there is, and what the buckets
\* gain meanwhile is no more than the time that passed.
LEMMA TickKeeps ==
    ASSUME Limits!IInv, Limits!Tick
    PROVE  Limits!IInv'
<1>1. /\ MapInv' /\ lClock' = lClock + 1 /\ UNCHANGED <<lBucket, lEntry, lAdmitted, lRenewed>>
  BY TickMap DEF Limits!IInv, MapInv
<1>2. /\ lClock \in Nat /\ lRenewed \in [Limits!Keys -> Nat]
      /\ Limits!IsFiniteSet(lAdmitted) /\ \A x \in lAdmitted : x.at \in 0..lClock
  BY DEF Limits!IInv, Limits!TypeOK
<1>a. Counted'
  BY <1>1, CountsAreNumbers, PTL
<1>b. Counted
  BY CountsAreNumbers DEF Limits!IInv, MapInv
<1>3. ASSUME NEW k, NEW f, NEW t
      PROVE  Limits!AdmittedIn(k, f, t)' = Limits!AdmittedIn(k, f, t)
  BY <1>1 DEF Limits!AdmittedIn
<1>4. Limits!TokensAreNumbered'
  BY <1>1, <1>3 DEF Limits!IInv, Limits!TokensAreNumbered
<1>5. ASSUME NEW k \in Limits!Keys PROVE Limits!Lacks(k) <= Limits!Lacks(k)' + 1
  <2>1. CASE lBucket[k] = NoBucket
    BY <1>1, <2>1 DEF Limits!Lacks
  <2>2. CASE lBucket[k] # NoBucket
    <3>0. PICK e : e = lEntry[lBucket[k]]
      OBVIOUS
    <3>1. /\ e \in Limits!Entries /\ e.key = k /\ e.used <= lClock
          /\ e.tokens <= Quota[e.key][e.plan]
      BY <2>2, <3>0 DEF Limits!IInv, Limits!TypeOK, Limits!MapHasTheLive, Limits!BucketsAreBounded
    <3>2. /\ Limits!Lacks(k) = Quota[k][e.plan] - Limits!Level(e)
          /\ Limits!Lacks(k)' = Quota[k][e.plan] - Limits!Level(e)'
      BY <1>1, <2>2, <3>0 DEF Limits!Lacks
    <3> DEFINE full == Quota[k][e.plan]
               now  == e.tokens + (lClock - e.used)
               then == e.tokens + (lClock' - e.used)
    <3>3. /\ Limits!Level(e) = IF now > full THEN full ELSE now
          /\ Limits!Level(e)' = IF then > full THEN full ELSE then
      BY <1>1, <3>1 DEF Limits!Level
    <3>4. e.tokens \in Nat /\ e.used \in Nat /\ full \in Nat
      BY <1>2, <3>1, LevelBounds DEF Limits!Entries
    <3> HIDE DEF full
    <3>. QED
      BY <1>1, <1>2, <3>2, <3>3, <3>4 DEF full
  <2>. QED
    BY <2>1, <2>2
<1>6. Limits!AdmittedIsLacking'
  <2> SUFFICES ASSUME NEW k \in Limits!Keys, NEW f \in 0..lClock'
               PROVE  Limits!AdmittedIn(k, f, lClock)'
                         <= Limits!MostOf(k) * lRenewed'[k] + (lClock' - f) + Limits!Lacks(k)'
    BY DEF Limits!AdmittedIsLacking
  <2> DEFINE paid == Limits!MostOf(k) * lRenewed[k]
  <2>1. /\ paid \in Nat /\ Limits!Lacks(k) \in Nat /\ Limits!Lacks(k)' \in Nat
        /\ lRenewed' = lRenewed
    <3>1. Limits!MostOf(k) \in Nat /\ lRenewed[k] \in Nat
      BY <1>2, MostBounds
    <3>2. Limits!Lacks(k) \in Nat /\ Limits!Lacks(k)' \in Nat
      BY <1>a, <1>b DEF Counted
    <3>. QED
      BY <1>1, <3>1, <3>2, TimesOneMore
  <2>2. CASE f = lClock + 1
    <3>1. Limits!AdmittedIn(k, f, lClock)' = 0
      <4>1. {x \in lAdmitted : x.key = k /\ x.at \in f..(lClock + 1)} = {}
        BY <1>2, <2>2
      <4>2. Limits!AdmittedIn(k, f, lClock)'
               = Limits!Cardinality({x \in lAdmitted : x.key = k /\ x.at \in f..(lClock + 1)})
        BY <1>1 DEF Limits!AdmittedIn
      <4>. QED
        BY <4>1, <4>2, SameSize, FS_EmptySet
    <3> HIDE DEF paid
    <3>2. 0 <= paid + (lClock' - f) + Limits!Lacks(k)'
      BY <1>1, <1>2, <2>1, <2>2
    <3>. QED
      BY <2>1, <3>1, <3>2 DEF paid
  <2>3. CASE f # lClock + 1
    <3>1. f \in 0..lClock
      BY <1>1, <1>2, <2>3
    <3>2. Limits!AdmittedIn(k, f, lClock)' = Limits!AdmittedIn(k, f, lClock)
      <4>1. {x \in lAdmitted : x.key = k /\ x.at \in f..(lClock + 1)}
               = {x \in lAdmitted : x.key = k /\ x.at \in f..lClock}
        BY <1>2, <3>1
      <4>. QED
        BY <1>1, <4>1 DEF Limits!AdmittedIn
    <3>3. Limits!AdmittedIn(k, f, lClock) <= paid + (lClock - f) + Limits!Lacks(k)
      BY <3>1 DEF Limits!IInv, Limits!AdmittedIsLacking
    <3>4. Limits!Lacks(k) <= Limits!Lacks(k)' + 1 /\ Limits!AdmittedIn(k, f, lClock) \in Nat
      <4>1. f \in Nat /\ lClock \in Nat
        BY <1>2, <3>1
      <4>. QED
        BY <1>b, <1>5, <4>1 DEF Counted
    <3> HIDE DEF paid
    <3>5. Limits!AdmittedIn(k, f, lClock)' <= paid + (lClock' - f) + Limits!Lacks(k)'
      BY <1>1, <1>2, <2>1, <3>1, <3>2, <3>3, <3>4
    <3>. QED
      BY <2>1, <3>5 DEF paid
  <2>. QED
    BY <2>2, <2>3
<1>7. Limits!QuotaHolds'
  <2>1. \A k \in Limits!Keys : lRenewed[k] <= lRenewed'[k]
    BY <1>1, <1>2
  <2>. QED
    BY <1>1, <1>3, <1>6, <2>1, QuotaFollows
<1>. QED
  BY <1>1, <1>4, <1>6, <1>7 DEF Limits!IInv, MapInv

\* A request takes a token or is refused one.
LEMMA TakeKeeps ==
    ASSUME Limits!IInv, NEW r \in Limited, Limits!Take(r)
    PROVE  Limits!IInv'
<1> DEFINE k == lRequest[r].key
           granted == Limits!Level(lEntry[lRequest[r].entry]) > 0
<1>0. MapInv
  BY DEF Limits!IInv, MapInv
<1>1. Limits!TypeOK' /\ MapInv'
  BY <1>0, TakeTyped, TakeMap
<1>2. /\ k \in Limits!Keys /\ lClock' = lClock /\ lClock \in Nat
      /\ lRenewed \in [Limits!Keys -> Nat] /\ lRenewed' \in [Limits!Keys -> Nat]
  BY <1>0, <1>1, TakeMoves DEF MapInv, Limits!TypeOK
<1>3. ASSUME NEW j \in Limits!Keys
      PROVE  /\ lRenewed[j] <= lRenewed'[j]
             /\ Limits!MostOf(j) * lRenewed[j] + Limits!Lacks(j) + (IF granted /\ j = k THEN 1 ELSE 0)
                   <= Limits!MostOf(j) * lRenewed'[j] + Limits!Lacks(j)'
  BY <1>0, <1>1, TakeBudget
<1>a. Counted
  BY <1>0, CountsAreNumbers
<1>b. Counted'
  BY <1>1, CountsAreNumbers, PTL
<1> DEFINE paid(j) == Limits!MostOf(j) * lRenewed[j]
           paidThen(j) == Limits!MostOf(j) * lRenewed'[j]
<1>c. ASSUME NEW j \in Limits!Keys
      PROVE  paid(j) \in Nat /\ paidThen(j) \in Nat /\ Limits!Lacks(j) \in Nat /\ Limits!Lacks(j)' \in Nat
  <2>1. Limits!MostOf(j) \in Nat /\ lRenewed[j] \in Nat /\ lRenewed'[j] \in Nat
    BY <1>2, MostBounds
  <2>2. paid(j) \in Nat /\ paidThen(j) \in Nat
    BY <2>1, TimesOneMore
  <2>. QED
    BY <1>a, <1>b, <2>2 DEF Counted
<1>4. CASE ~granted
  <2>1. lAdmitted' = lAdmitted
    BY <1>4 DEF Limits!Take
  <2>2. ASSUME NEW j \in Limits!Keys
        PROVE  paid(j) + Limits!Lacks(j) <= paidThen(j) + Limits!Lacks(j)'
    <3>1. paid(j) + Limits!Lacks(j) + 0 <= paidThen(j) + Limits!Lacks(j)'
      BY <1>3, <1>4
    <3> HIDE DEF paid, paidThen
    <3>. QED
      BY <1>c, <3>1
  <2>. QED
    BY <1>1, <1>2, <1>3, <2>1, <2>2, BudgetFollows
<1>5. CASE granted
  <2>1. ASSUME NEW j, NEW f \in Nat, NEW t \in Nat
        PROVE  Limits!AdmittedIn(j, f, t)' =
                  IF j = k /\ lClock \in f..t
                  THEN Limits!AdmittedIn(j, f, t) + 1 ELSE Limits!AdmittedIn(j, f, t)
    BY <1>0, <1>5, TakeCounts DEF Limits!IInv
  <2>2. Limits!TokensAreNumbered'
    <3> DEFINE n == Limits!AdmittedIn(k, lClock, lClock) + 1
               new == [key |-> k, at |-> lClock, n |-> n]
    <3> SUFFICES ASSUME NEW x \in lAdmitted'
                 PROVE  x.n <= Limits!AdmittedIn(x.key, x.at, x.at)'
      BY DEF Limits!TokensAreNumbered
    <3>1. lAdmitted' = lAdmitted \cup {new}
      BY <1>5 DEF Limits!Take
    <3>2. CASE x \in lAdmitted
      <4>1. x.at \in Nat /\ x.key \in Limits!Keys /\ x.n \in Nat
        BY <3>2 DEF Limits!IInv, Limits!TypeOK
      <4>2. Limits!AdmittedIn(x.key, x.at, x.at) \in Nat
        BY <1>a, <4>1 DEF Counted
      <4>3. x.n <= Limits!AdmittedIn(x.key, x.at, x.at)
        BY <3>2 DEF Limits!IInv, Limits!TokensAreNumbered
      <4>4. \/ Limits!AdmittedIn(x.key, x.at, x.at)' = Limits!AdmittedIn(x.key, x.at, x.at)
            \/ Limits!AdmittedIn(x.key, x.at, x.at)' = Limits!AdmittedIn(x.key, x.at, x.at) + 1
        BY <2>1, <4>1
      <4>. QED
        BY <4>1, <4>2, <4>3, <4>4
    <3>3. CASE x = new
      <4>1. x.key = k /\ x.at = lClock /\ x.n = n
        BY <3>3
      <4>2. Limits!AdmittedIn(x.key, x.at, x.at)' = Limits!AdmittedIn(x.key, x.at, x.at) + 1
        BY <1>2, <2>1, <4>1
      <4>3. Limits!AdmittedIn(x.key, x.at, x.at) = Limits!AdmittedIn(k, lClock, lClock)
        BY <4>1
      <4>4. n \in Nat
        <5>1. Limits!AdmittedIn(k, lClock, lClock) \in Nat
          BY <1>2, <1>a DEF Counted
        <5>. QED
          BY <5>1
      <4>. QED
        BY <4>1, <4>2, <4>3, <4>4
    <3>. QED
      BY <3>1, <3>2, <3>3
  <2>3. Limits!AdmittedIsLacking'
    <3> SUFFICES ASSUME NEW j \in Limits!Keys, NEW f \in 0..lClock'
                 PROVE  Limits!AdmittedIn(j, f, lClock)'
                           <= paidThen(j) + (lClock' - f) + Limits!Lacks(j)'
      BY DEF Limits!AdmittedIsLacking
    <3> DEFINE one == IF granted /\ j = k THEN 1 ELSE 0
    <3>1. f \in Nat /\ f \in 0..lClock /\ lClock \in f..lClock
      BY <1>2
    <3>2. PICK t \in Nat : t = lClock
      BY <1>2
    <3>3. Limits!AdmittedIn(j, f, t)' = Limits!AdmittedIn(j, f, t) + one
      <4>1. Limits!AdmittedIn(j, f, t) \in Nat
        BY <1>a, <3>1 DEF Counted
      <4>. QED
        BY <1>5, <2>1, <3>1, <3>2, <4>1
    <3>4. /\ Limits!AdmittedIn(j, f, lClock)' = Limits!AdmittedIn(j, f, t)'
          /\ Limits!AdmittedIn(j, f, lClock) = Limits!AdmittedIn(j, f, t)
      BY <1>2, <3>2 DEF Limits!AdmittedIn
    <3>5. Limits!AdmittedIn(j, f, lClock) <= paid(j) + (lClock - f) + Limits!Lacks(j)
      BY <3>1 DEF Limits!IInv, Limits!AdmittedIsLacking
    <3>6. Limits!AdmittedIn(j, f, t) \in Nat /\ one \in Nat
      BY <1>a, <3>1 DEF Counted
    <3>7. paid(j) + Limits!Lacks(j) + one <= paidThen(j) + Limits!Lacks(j)'
      BY <1>3
    <3> HIDE DEF paid, paidThen, one
    <3>. QED
      BY <1>2, <1>c, <3>1, <3>3, <3>4, <3>5, <3>6, <3>7
  <2>4. Limits!QuotaHolds'
    <3>1. ASSUME NEW j \in Limits!Keys, NEW f \in Nat, NEW t \in Nat, t < lClock'
          PROVE  Limits!AdmittedIn(j, f, t)' = Limits!AdmittedIn(j, f, t)
      <4>1. ~(lClock \in f..t)
        BY <1>2, <3>1
      <4>. QED
        BY <2>1, <4>1
    <3>. QED
      BY <1>1, <1>2, <1>3, <2>3, <3>1, QuotaFollows
  <2>. QED
    BY <1>1, <2>2, <2>3, <2>4 DEF Limits!IInv, MapInv
<1>. QED
  BY <1>4, <1>5

LEMMA LimitsInit == Limits!Init => Limits!IInv
<1> SUFFICES ASSUME Limits!Init PROVE Limits!IInv
  OBVIOUS
<1> USE LimitsAssumption DEF Limits!Init
<1>1. Limits!TypeOK
  <2>1. Limits!IsFiniteSet(lAdmitted) /\ lAdmitted = {}
    BY SameFinite, FS_EmptySet
  <2>. QED
    BY <2>1 DEF Limits!TypeOK, Limits!Stages, Limits!NoSweep
<1>2. MapInv
  BY <1>1 DEF MapInv, Limits!EntriesAreOfTheirKey, Limits!MapHasTheLive, Limits!OthersAreDropped,
     Limits!BucketsAreBounded, Limits!SweptAreFull
<1>3. ASSUME NEW k, NEW f, NEW t PROVE Limits!AdmittedIn(k, f, t) = 0
  <2>1. {x \in lAdmitted : x.key = k /\ x.at \in f..t} = {}
    OBVIOUS
  <2>. QED
    BY <2>1, SameSize, FS_EmptySet DEF Limits!AdmittedIn
<1>4. ASSUME NEW k \in Limits!Keys
      PROVE  /\ Limits!MostOf(k) * lRenewed[k] = 0 /\ Limits!Lacks(k) = 0
             /\ Limits!MostOf(k) * (1 + lRenewed[k]) = Limits!MostOf(k) /\ Limits!MostOf(k) \in Nat
  BY MostBounds DEF Limits!Lacks
<1>5. Limits!AdmittedIsLacking /\ Limits!TokensAreNumbered
  BY <1>3, <1>4 DEF Limits!AdmittedIsLacking, Limits!TokensAreNumbered
<1>6. Limits!QuotaHolds
  BY <1>3, <1>4 DEF Limits!QuotaHolds
<1>. QED
  BY <1>2, <1>5, <1>6 DEF MapInv, Limits!IInv

LEMMA LimitsSteps == Limits!IInv /\ (Limits!Next \/ UNCHANGED lVars) => Limits!IInv'
<1> SUFFICES ASSUME Limits!IInv, Limits!Next \/ UNCHANGED lVars PROVE Limits!IInv'
  OBVIOUS
<1>0. MapInv /\ lRenewed \in [Limits!Keys -> Nat] /\ Counted
  BY CountsAreNumbers DEF Limits!IInv, MapInv, Limits!TypeOK
<1>1. ASSUME MapInv', UNCHANGED <<lBucket, lEntry, lClock, lAdmitted, lRenewed>>
      PROVE  Limits!IInv'
  <2>1. ASSUME NEW k \in Limits!Keys
        PROVE  /\ lRenewed[k] <= lRenewed'[k] /\ Limits!Lacks(k)' = Limits!Lacks(k)
               /\ Limits!MostOf(k) * lRenewed[k] \in Nat /\ Limits!Lacks(k) \in Nat
    <3>1. Limits!Lacks(k)' = Limits!Lacks(k)
      BY <1>1 DEF Limits!Lacks, Limits!Level
    <3>2. Limits!MostOf(k) \in Nat /\ lRenewed[k] \in Nat /\ lRenewed'[k] = lRenewed[k]
      BY <1>0, <1>1, MostBounds
    <3>3. Limits!MostOf(k) * lRenewed[k] \in Nat
      BY <3>2, TimesOneMore
    <3>. QED
      BY <1>0, <3>1, <3>2, <3>3 DEF Counted
  <2>. QED
    BY <1>1, <2>1, BudgetFollows
<1>2. CASE UNCHANGED lVars
  <2>1. MapInv'
    BY <1>0, <1>2 DEF lVars, MapInv, Limits!TypeOK, Limits!EntriesAreOfTheirKey,
       Limits!MapHasTheLive, Limits!OthersAreDropped, Limits!BucketsAreBounded,
       Limits!SweptAreFull, Limits!NoSweep
  <2>. QED
    BY <1>1, <1>2, <2>1 DEF lVars
<1>3. CASE \/ Limits!ChangePlan
           \/ \E r \in Limited : Limits!Arrive(r) \/ Limits!Lookup(r)
           \/ \E k \in Limits!Keys : Limits!FindIdle(k)
  <2>1. MapInv' /\ UNCHANGED <<lBucket, lEntry, lClock, lAdmitted, lRenewed>>
    BY <1>0, <1>3, QuietSteps
  <2>. QED
    BY <1>1, <2>1
<1>4. CASE Limits!Tick
  BY <1>4, TickKeeps
<1>5. ASSUME NEW k \in Limits!Keys, NEW excused \in BOOLEAN, Limits!Drop(k, excused),
             excused \/ Limits!Lacks(k) = 0, MapInv', UNCHANGED <<lClock, lAdmitted>>
      PROVE  Limits!IInv'
  BY <1>0, <1>5, DropBudget, BudgetFollows
<1>6. CASE Limits!SweepIdle
  <2>1. MapInv' /\ UNCHANGED <<lClock, lAdmitted>>
    BY <1>0, <1>6, SweepMap
  <2>2. PICK k \in Limits!Keys, excused \in BOOLEAN :
           Limits!Drop(k, excused) /\ (excused \/ Limits!Lacks(k) = 0)
    BY <1>0, <1>6, SweepMap
  <2>. QED
    BY <1>5, <2>1, <2>2
<1>7. ASSUME NEW r \in Limited, Limits!Rebuild(r) PROVE Limits!IInv'
  <2>1. /\ MapInv' /\ UNCHANGED <<lClock, lAdmitted>>
        /\ lRequest[r].key \in Limits!Keys /\ Limits!Drop(lRequest[r].key, TRUE)
    BY <1>0, <1>7, RebuildMap
  <2>2. PICK k \in Limits!Keys : k = lRequest[r].key
    BY <2>1
  <2>. QED
    BY <1>5, <2>1, <2>2
<1>8. ASSUME NEW r \in Limited, Limits!LoadOrStore(r) PROVE Limits!IInv'
  <2>1. /\ MapInv' /\ UNCHANGED <<lClock, lAdmitted, lRenewed>>
        /\ \A k \in Limits!Keys : Limits!Lacks(k)' = Limits!Lacks(k)
    BY <1>0, <1>8, StoreMap
  <2>2. ASSUME NEW k \in Limits!Keys
        PROVE  /\ lRenewed[k] <= lRenewed'[k] /\ Limits!Lacks(k)' = Limits!Lacks(k)
               /\ Limits!MostOf(k) * lRenewed[k] \in Nat /\ Limits!Lacks(k) \in Nat
    <3>1. Limits!MostOf(k) \in Nat /\ lRenewed[k] \in Nat /\ lRenewed'[k] = lRenewed[k]
      BY <1>0, <2>1, MostBounds
    <3>2. Limits!MostOf(k) * lRenewed[k] \in Nat
      BY <3>1, TimesOneMore
    <3>. QED
      BY <1>0, <2>1, <3>1, <3>2 DEF Counted
  <2>. QED
    BY <2>1, <2>2, BudgetFollows
<1>9. ASSUME NEW r \in Limited, Limits!Take(r) PROVE Limits!IInv'
  BY <1>9, TakeKeeps
<1>. QED
  BY <1>2, <1>3, <1>4, <1>6, <1>7, <1>8, <1>9 DEF Limits!Next

\* In no stretch of time does a key admit more than a full bucket and what it
\* gains meanwhile, but for what the history excuses: requests that race to
\* make, to replace or to use the bucket of a key share one (entry, Allow), and
\* the sweeper drops a part-used one only if it was used since it was found idle
\* (SweepIdle).
THEOREM QuotaIsKept == ResourceSpec => []QuotaHolds
<1>1. ResourceInit => Limits!IInv
  BY LimitsInit DEF ResourceInit
<1>2. Limits!IInv /\ [ResourceNext]_ResourceVars => Limits!IInv'
  <2>1. [ResourceNext]_ResourceVars => Limits!Next \/ UNCHANGED lVars
    BY DEF ResourceNext, ResourceVars, UploadMoves, InstallationMoves, LimitMoves
  <2>. QED
    BY <2>1, LimitsSteps
<1>3. Limits!IInv => QuotaHolds
  BY DEF Limits!IInv, QuotaHolds
<1>. QED
  BY <1>1, <1>2, <1>3, PTL DEF ResourceSpec
=============================================================================
