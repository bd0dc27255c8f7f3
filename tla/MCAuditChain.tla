---------------------------- MODULE MCAuditChain ----------------------------
(* What the server keeps and hands out, on small instances: the audit chain, *)
(* the retention and the listing of audit rows, the incidents.  They share   *)
(* no state, so one of them moves in each behaviour and the state spaces add *)
(* up.                                                                       *)
EXTENDS AuditTrail, TLC

WriterSymmetry == Permutations(Writers)

\* A record that is archived and one that is not, a listing without --since;
\* two closers of one team, one of them with a note.
MCKind   == [w |-> "delete_app_confirm", x |-> "other"]
MCSince  == [r |-> NoSince]
MCTeamOf == [x \in {"c", "d", "r"} |-> "t"]
MCNote   == [x \in {"c", "d"} |-> IF x = "c" THEN NoNote ELSE "n"]
MCStatus == [r |-> "open"]

VARIABLE part  \* the component that moves, and on which instance

\* Of the chain, no row has the stamp 3, or none has the stamp 2.
ChainParts == {"chain", "last second"}
Unused == IF part = "chain" THEN 3 ELSE 2
WithoutUnused == /\ \A w \in Writers : stamp'[w] # Unused
                 /\ \A r \in auditLog' : r.at # Unused

AllInit ==
    /\ part \in ChainParts \cup {"records", "incidents"}
    /\ TrailInit

AllNext ==
    /\ \/ part \in ChainParts /\ ChainMoves /\ WithoutUnused
       \/ part = "records" /\ RecordMoves
       \/ part = "incidents" /\ IncidentMoves
    /\ UNCHANGED part

AllSpec == AllInit /\ [][AllNext]_<<part, TrailVars>>
=============================================================================
