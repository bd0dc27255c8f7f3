-------------------------- MODULE DeployRunProofs --------------------------
(* Proofs about DeployRun, for any runs, pipelines and fault budget.         *)
EXTENDS DeployRun, FiniteSetTheorems, TLAPS

\* A callback between its two statements is acceptable and owns its delivery
\* id: it is recorded, and no other callback has or had the use of it.
HandlersOwnTheirId ==
    \A m \in handling :
        /\ ~Rejected(m)
        /\ DeliveryId(m) \in seen
        /\ applied[m] = 0
        /\ \A n \in Messages : DeliveryId(n) = DeliveryId(m) /\ n # m =>
              n \notin handling /\ applied[n] = 0

\* What has been written to a row was recorded first.
AppliedIsSeen == \A m \in Messages : applied[m] # 0 => DeliveryId(m) \in seen

\* The inductive invariant.
IInv == /\ TypeOK
        /\ HandlersOwnTheirId
        /\ AppliedIsSeen
        /\ DeliveryAppliesOnce
        /\ FailuresAreClassified
        /\ TerminalRunsAreFinished

-----------------------------------------------------------------------------
LEMMA MessageFacts ==
    ASSUME NEW m \in Messages
    PROVE  /\ m.run \in Runs
           /\ m.status \in Building \cup Terminal
           /\ DeliveryId(m) \in DeliveryIds
           /\ ClassOf(m) \in {"none", "pipeline"}
           /\ m.status \in Classified /\ ~Rejected(m) => ClassOf(m) = "pipeline"
<1>1. m.run \in Runs
  BY ConstantsAssumption DEF Messages
<1>2. m.status \in LocalStatuses \cup ActionStatuses
  BY DEF Messages
<1>3. m.run \in LocalRuns => m.status \in LocalStatuses
  BY DEF Messages
<1>. QED
  BY <1>1, <1>2, <1>3 DEF LocalStatuses, ActionStatuses, Building, Terminal, DeliveryId,
     DeliveryIds, ClassOf, Rejected, Classified

LEMMA InitEstablishes == Init => IInv
BY ConstantsAssumption DEF Init, IInv, TypeOK, HandlersOwnTheirId, AppliedIsSeen,
   DeliveryAppliesOnce, FailuresAreClassified, TerminalRunsAreFinished, Classified,
   Terminal, Ages

-----------------------------------------------------------------------------
\* The part of the invariant about the callback endpoint.
Endpoint == HandlersOwnTheirId /\ AppliedIsSeen /\ DeliveryAppliesOnce

\* The part of the invariant about the rows.
RowsOK == FailuresAreClassified /\ TerminalRunsAreFinished

RowTypes == /\ status \in [Runs -> {"absent"} \cup Building \cup Terminal]
            /\ class \in [Runs -> {"none", "pipeline", "reconciler"}]
            /\ finished \in [Runs -> BOOLEAN]

LEMMA EndpointUnchanged == Endpoint /\ UNCHANGED hookVars => Endpoint'
BY DEF Endpoint, HandlersOwnTheirId, AppliedIsSeen, DeliveryAppliesOnce, hookVars

LEMMA RowsUnchanged == RowTypes /\ RowsOK /\ UNCHANGED rowVars => RowTypes' /\ RowsOK'
BY DEF RowTypes, RowsOK, FailuresAreClassified, TerminalRunsAreFinished, rowVars

LEMMA DeliverPreserves ==
    ASSUME IInv, NEW m \in Messages, Deliver(m)
    PROVE  Endpoint'
<1> USE DEF IInv, TypeOK, Endpoint, HandlersOwnTheirId, AppliedIsSeen, DeliveryAppliesOnce
<1>1. CASE ~Rejected(m) /\ IsNew(m)
  <2>1. /\ seen' = seen \cup {DeliveryId(m)}
        /\ handling' = handling \cup {m}
        /\ applied' = applied
    BY <1>1 DEF Deliver
  <2>2. \A n \in Messages : DeliveryId(n) = DeliveryId(m) =>
            n \notin handling /\ applied[n] = 0
    BY <1>1 DEF IsNew
  <2>. QED
    BY <1>1, <2>1, <2>2
<1>2. CASE Rejected(m) \/ ~IsNew(m)
  BY <1>2, EndpointUnchanged DEF Deliver, hookVars
<1>. QED
  BY <1>1, <1>2

LEMMA ApplyPreserves ==
    ASSUME IInv, NEW m \in Messages, Apply(m)
    PROVE  Endpoint' /\ RowTypes' /\ RowsOK'
<1> USE DEF IInv, TypeOK
<1>0. m \in handling /\ applied[m] = 0
  BY DEF Apply, HandlersOwnTheirId
<1>1. /\ handling' = handling \ {m}
      /\ applied' = [applied EXCEPT ![m] = 1]
      /\ seen' = seen
  <2>1. applied' = [applied EXCEPT ![m] = applied[m] + 1]
    BY DEF Apply
  <2>. QED
    BY <1>0, <2>1 DEF Apply
<1>2. /\ DeliveryId(m) \in seen
      /\ \A n \in Messages : DeliveryId(n) = DeliveryId(m) /\ n # m =>
            n \notin handling /\ applied[n] = 0
  BY DEF Apply, HandlersOwnTheirId
<1>3. HandlersOwnTheirId'
  BY <1>1, <1>2 DEF HandlersOwnTheirId
<1>4. AppliedIsSeen'
  BY <1>1, <1>2 DEF AppliedIsSeen
<1>5. DeliveryAppliesOnce'
  BY <1>1, <1>2 DEF DeliveryAppliesOnce
<1>6. RowTypes'
  <2>1. status' \in [Runs -> {"absent"} \cup Building \cup Terminal]
    BY MessageFacts DEF Apply
  <2>2. class' \in [Runs -> {"none", "pipeline", "reconciler"}]
    BY MessageFacts DEF Apply
  <2>3. \E b \in BOOLEAN : finished' = [finished EXCEPT ![m.run] = b]
    BY MessageFacts DEF Apply
  <2>4. finished' \in [Runs -> BOOLEAN]
    BY <2>3, MessageFacts
  <2>. QED
    BY <2>1, <2>2, <2>4 DEF RowTypes
<1>7. FailuresAreClassified'
  <2>1. ~Rejected(m)
    BY DEF Apply, HandlersOwnTheirId
  <2>. QED
    BY <2>1, MessageFacts DEF Apply, FailuresAreClassified
<1>8. TerminalRunsAreFinished'
  <2>1. \A r \in Runs : r # m.run => status'[r] = status[r] /\ finished'[r] = finished[r]
    BY MessageFacts DEF Apply
  <2>2. status'[m.run] \in Terminal => finished'[m.run]
    BY MessageFacts DEF Apply
  <2>. QED
    BY <2>1, <2>2 DEF TerminalRunsAreFinished
<1>. QED
  BY <1>3, <1>4, <1>5, <1>6, <1>7, <1>8 DEF Endpoint, RowsOK

LEMMA TransitionPreserves ==
    ASSUME IInv, NEW r \in Runs, NEW from, NEW to \in {"pushing", "live", "failed"},
           Transition(r, from, to)
    PROVE  RowTypes' /\ RowsOK'
<1> USE DEF IInv, TypeOK
<1>1. CASE CasGuard(r, from)
  <2>1. /\ status' = [status EXCEPT ![r] = to]
        /\ class' = IF to = "failed" THEN [class EXCEPT ![r] = "reconciler"] ELSE class
    BY <1>1 DEF Transition
  <2>2. \E b \in BOOLEAN : finished' = [finished EXCEPT ![r] = b]
                           /\ (to \in Terminal => b)
    BY <1>1 DEF Transition
  <2>3. RowTypes'
    BY <2>1, <2>2 DEF RowTypes, Building, Terminal
  <2>4. FailuresAreClassified'
    BY <2>1 DEF FailuresAreClassified, Classified
  <2>5. TerminalRunsAreFinished'
    BY <2>1, <2>2 DEF TerminalRunsAreFinished
  <2>. QED
    BY <2>3, <2>4, <2>5 DEF RowsOK
<1>2. CASE ~CasGuard(r, from)
  BY <1>2, RowsUnchanged DEF Transition, RowTypes, RowsOK
<1>. QED
  BY <1>1, <1>2

LEMMA RowsPreserved == IInv /\ [Next]_vars => RowTypes' /\ RowsOK' /\ Endpoint'
<1> SUFFICES ASSUME IInv, [Next]_vars PROVE RowTypes' /\ RowsOK' /\ Endpoint'
  OBVIOUS
<1>0. TypeOK /\ RowTypes /\ RowsOK /\ Endpoint
  BY DEF IInv, TypeOK, RowTypes, RowsOK, Endpoint
<1>1. ASSUME NEW r \in Runs, InsertRun(r) PROVE RowTypes' /\ RowsOK' /\ Endpoint'
  <2>1. status' = [status EXCEPT ![r] = "queued"] /\ UNCHANGED <<class, finished, hookVars>>
    BY <1>1 DEF InsertRun
  <2>2. RowTypes' /\ RowsOK'
    BY <1>0, <2>1 DEF RowTypes, RowsOK, Building, FailuresAreClassified, Classified,
       TerminalRunsAreFinished, Terminal
  <2>. QED
    BY <1>0, <2>1, <2>2, EndpointUnchanged
<1>2. ASSUME NEW r \in Runs, CancelDeployRun(r) PROVE RowTypes' /\ RowsOK' /\ Endpoint'
  <2>1. /\ status' = [status EXCEPT ![r] = "canceled"]
        /\ finished' = [finished EXCEPT ![r] = TRUE]
        /\ UNCHANGED <<class, hookVars>>
    BY <1>2 DEF CancelDeployRun
  <2>2. RowTypes' /\ RowsOK'
    BY <1>0, <2>1 DEF RowTypes, RowsOK, FailuresAreClassified, Classified,
       TerminalRunsAreFinished, Terminal
  <2>. QED
    BY <1>0, <2>1, <2>2, EndpointUnchanged
<1>3. ASSUME UNCHANGED <<rowVars, hookVars>> PROVE RowTypes' /\ RowsOK' /\ Endpoint'
  BY <1>0, <1>3, RowsUnchanged, EndpointUnchanged
<1>4. ASSUME NEW m \in Messages, Deliver(m) PROVE RowTypes' /\ RowsOK' /\ Endpoint'
  <2>1. UNCHANGED rowVars
    BY <1>4 DEF Deliver
  <2>. QED
    BY <1>0, <1>4, <2>1, DeliverPreserves, RowsUnchanged
<1>5. ASSUME NEW m \in Messages, ApplyFails(m) PROVE RowTypes' /\ RowsOK' /\ Endpoint'
  <2>1. UNCHANGED <<rowVars, seen, applied>> /\ handling' = handling \ {m}
    BY <1>5 DEF ApplyFails
  <2>2. Endpoint'
    BY <1>0, <2>1 DEF Endpoint, HandlersOwnTheirId, AppliedIsSeen, DeliveryAppliesOnce
  <2>. QED
    BY <1>0, <2>1, <2>2, RowsUnchanged
<1>6. ASSUME NEW row \in listed, PullWorkflow(row) \/ PullArgo(row)
      PROVE  RowTypes' /\ RowsOK' /\ Endpoint'
  <2>1. row.run \in Runs
    BY <1>0 DEF TypeOK
  <2>2. UNCHANGED hookVars
    BY <1>6 DEF PullWorkflow, PullArgo
  <2>3. \E to \in {"pushing", "live", "failed"} : Transition(row.run, row.from, to)
    BY <1>6 DEF PullWorkflow, PullArgo
  <2>. QED
    BY <1>0, <2>1, <2>2, <2>3, TransitionPreserves, EndpointUnchanged
<1>. QED
  BY <1>1, <1>2, <1>3, <1>4, <1>5, <1>6, ApplyPreserves
     DEF Next, TimePasses, SendLocal, SendAction, Callback, ClientTimeout, Lose,
         ListStuck, Skip, vars

LEMMA TypePreserved == IInv /\ [Next]_vars => TypeOK'
<1> SUFFICES ASSUME IInv, [Next]_vars PROVE TypeOK'
  OBVIOUS
<1> USE DEF IInv, TypeOK
<1>1. RowTypes'
  BY RowsPreserved
<1>2. /\ age' \in [Runs -> Ages]
      /\ dispatched' \in [Runs -> BOOLEAN]
  BY DEF Next, InsertRun, TimePasses, CancelDeployRun, SendLocal, SendAction, Callback,
     ClientTimeout, Lose, Deliver, Apply, ApplyFails, ListStuck, Skip, PullWorkflow,
     PullArgo, vars, sendVars, Ages
<1>3. sent' \in SUBSET Messages /\ answered' \in SUBSET Messages
  BY DEF Next, InsertRun, TimePasses, CancelDeployRun, SendLocal, SendAction, Callback,
     ClientTimeout, Lose, Deliver, Apply, ApplyFails, ListStuck, Skip, PullWorkflow,
     PullArgo, vars, sendVars, Messages
<1>4. seen' \in SUBSET DeliveryIds /\ handling' \in SUBSET Messages
  BY MessageFacts DEF Next, InsertRun, TimePasses, CancelDeployRun, SendLocal, SendAction,
     Callback, ClientTimeout, Lose, Deliver, Apply, ApplyFails, ListStuck, Skip,
     PullWorkflow, PullArgo, vars, hookVars
<1>5. applied' \in [Messages -> Nat]
  BY DEF Next, InsertRun, TimePasses, CancelDeployRun, SendLocal, SendAction, Callback,
     ClientTimeout, Lose, Deliver, Apply, ApplyFails, ListStuck, Skip, PullWorkflow,
     PullArgo, vars, hookVars
<1>6. listed' \in SUBSET [run : Runs, from : {"building", "syncing"}]
  BY DEF Next, InsertRun, TimePasses, CancelDeployRun, SendLocal, SendAction, Callback,
     ClientTimeout, Lose, Deliver, Apply, ApplyFails, ListStuck, Skip, PullWorkflow,
     PullArgo, vars
<1>7. faults' \in Nat
  BY ConstantsAssumption DEF Next, InsertRun, TimePasses, CancelDeployRun, SendLocal,
     SendAction, Callback, ClientTimeout, Lose, Deliver, Apply, ApplyFails, ListStuck,
     Skip, PullWorkflow, PullArgo, Fault, vars
<1>. QED
  BY <1>1, <1>2, <1>3, <1>4, <1>5, <1>6, <1>7 DEF RowTypes

\* The inductive invariant holds in every reachable state.
THEOREM InductiveInvariant == Spec => []IInv
<1>1. IInv /\ [Next]_vars => IInv'
  BY TypePreserved, RowsPreserved DEF IInv, Endpoint, RowsOK
<1>. QED
  BY InitEstablishes, <1>1, PTL DEF Spec

\* At most one of the requests with one delivery id is written to the row.
THEOREM AtMostOnce == Spec => []DeliveryAppliesOnce
BY InductiveInvariant, PTL DEF IInv

\* A failed or rolled back run has a failure classification.
THEOREM Classification == Spec => []FailuresAreClassified
BY InductiveInvariant, PTL DEF IInv

\* A run in a terminal status has its finished_at.
THEOREM Finished == Spec => []TerminalRunsAreFinished
BY InductiveInvariant, PTL DEF IInv

-----------------------------------------------------------------------------
\* No writer of a run gives up on it for good: the status is in the schema only.
NoneIsGivenUp == \A r \in Runs : status[r] # "failed_permanently"

LEMMA GivenUpByNone == IInv /\ NoneIsGivenUp /\ [Next]_vars => NoneIsGivenUp'
<1> SUFFICES ASSUME TypeOK, NoneIsGivenUp, [Next]_vars PROVE NoneIsGivenUp'
  BY DEF IInv
<1>1. ASSUME NEW r \in Runs, InsertRun(r) \/ CancelDeployRun(r) PROVE NoneIsGivenUp'
  BY <1>1 DEF TypeOK, NoneIsGivenUp, InsertRun, CancelDeployRun
<1>2. ASSUME NEW m \in Messages, Apply(m) PROVE NoneIsGivenUp'
  <2>1. m.run \in Runs /\ m.status # "failed_permanently"
    BY MessageFacts DEF Messages, LocalStatuses, ActionStatuses
  <2>. QED
    BY <1>2, <2>1 DEF TypeOK, NoneIsGivenUp, Apply
<1>3. ASSUME NEW row \in listed, PullWorkflow(row) \/ PullArgo(row) PROVE NoneIsGivenUp'
  BY <1>3 DEF TypeOK, NoneIsGivenUp, PullWorkflow, PullArgo, Transition, rowVars
<1>4. ASSUME UNCHANGED status PROVE NoneIsGivenUp'
  BY <1>4 DEF NoneIsGivenUp
<1>. QED
  BY <1>1, <1>2, <1>3, <1>4
  DEF Next, TimePasses, SendLocal, SendAction, Callback, ClientTimeout, Lose, Deliver,
      ApplyFails, ListStuck, Skip, rowVars, vars

\* A scanner, however old its list, and a delete leave a run alone that has
\* ended: only a callback writes over it.
THEOREM ReopenedByCallbacks == Spec => OnlyCallbacksReopen
<1> DEFINE Reopens == \A r \in Runs : status[r] \in Terminal /\ status'[r] # status[r]
                         => \E m \in handling : m.run = r /\ m \notin handling'
<1>1. ASSUME TypeOK, NoneIsGivenUp, [Next]_vars PROVE Reopens
  <2>1. ASSUME NEW r \in Runs, InsertRun(r) \/ CancelDeployRun(r) PROVE Reopens
    BY <1>1, <2>1
    DEF TypeOK, NoneIsGivenUp, InsertRun, CancelDeployRun, Cancelable, Terminal
  <2>2. ASSUME NEW m \in Messages, Apply(m) PROVE Reopens
    BY <1>1, <2>2, MessageFacts DEF TypeOK, Apply
  <2>3. ASSUME NEW row \in listed, PullWorkflow(row) \/ PullArgo(row) PROVE Reopens
    BY <1>1, <2>3
    DEF TypeOK, PullWorkflow, PullArgo, Transition, CasGuard, Terminal, rowVars
  <2>4. ASSUME UNCHANGED status PROVE Reopens
    BY <2>4
  <2>. QED
    BY <1>1, <2>1, <2>2, <2>3, <2>4
    DEF Next, TimePasses, SendLocal, SendAction, Callback, ClientTimeout, Lose, Deliver,
        ApplyFails, ListStuck, Skip, rowVars, vars
<1>2. Init => NoneIsGivenUp
  BY DEF Init, NoneIsGivenUp
<1>3. IInv => TypeOK
  BY DEF IInv
<1>. QED
  BY <1>1, <1>2, <1>3, GivenUpByNone, InductiveInvariant, PTL DEF Spec, OnlyCallbacksReopen

-----------------------------------------------------------------------------
(* What becomes of the statuses of a local build.                            *)

\* A recorded delivery of a local build is being handled, is written, or its
\* sender no longer waits.
SeenHasAFate ==
    \A m \in Messages : m.run \in LocalRuns /\ DeliveryId(m) \in seen =>
        m \in handling \/ applied[m] # 0 \/ m \in answered

Charged == IsFiniteSet(Forgotten) /\ EachForgottenTakesAFault

\* A local build has an id for each of its statuses.
LEMMA LocalIdsDiffer ==
    ASSUME NEW m \in Messages, NEW n \in Messages, m.run \in LocalRuns,
           DeliveryId(m) = DeliveryId(n)
    PROVE  m = n
<1>1. m.run = n.run
  BY DEF DeliveryId
<1>2. m.status = n.status
  BY <1>1 DEF DeliveryId
<1>. QED
  BY <1>1, <1>2 DEF Messages

\* Nothing but a failure adds to the forgotten, and it adds one status.
LEMMA ChargedStep ==
    ASSUME TypeOK, Charged, NEW x,
           \/ faults' = faults + 1 /\ Forgotten' \subseteq Forgotten \cup {x}
           \/ faults' = faults /\ Forgotten' \subseteq Forgotten
    PROVE  Charged'
<1>1. IsFiniteSet(Forgotten \cup {x}) /\ Cardinality(Forgotten) \in Nat
  BY FS_AddElement, FS_CardinalityType DEF Charged
<1>2. IsFiniteSet(Forgotten') /\ Cardinality(Forgotten') \in Nat
  BY <1>1, FS_Subset, FS_CardinalityType
<1>3. CASE faults' = faults + 1 /\ Forgotten' \subseteq Forgotten \cup {x}
  <2>1. Cardinality(Forgotten \cup {x}) <= Cardinality(Forgotten) + 1
    BY <1>1, FS_AddElement DEF Charged
  <2>2. Cardinality(Forgotten') <= Cardinality(Forgotten \cup {x})
    BY <1>1, <1>3, FS_Subset
  <2>3. Cardinality(Forgotten \cup {x}) \in Nat
    BY <1>1, FS_CardinalityType
  <2>. QED
    BY <1>1, <1>2, <1>3, <2>1, <2>2, <2>3 DEF Charged, EachForgottenTakesAFault, TypeOK
<1>4. CASE faults' = faults /\ Forgotten' \subseteq Forgotten
  <2>1. Cardinality(Forgotten') <= Cardinality(Forgotten)
    BY <1>4, FS_Subset DEF Charged
  <2>. QED
    BY <1>1, <1>2, <1>4, <2>1 DEF Charged, EachForgottenTakesAFault, TypeOK
<1>. QED
  BY <1>3, <1>4

LEMMA ChargedPreserved ==
    IInv /\ SeenHasAFate /\ Charged /\ [Next]_vars => SeenHasAFate' /\ Charged'
<1> SUFFICES ASSUME IInv, SeenHasAFate, Charged, [Next]_vars
             PROVE  SeenHasAFate' /\ Charged'
  OBVIOUS
<1>0. TypeOK
  BY DEF IInv
<1>1. ASSUME UNCHANGED <<answered, hookVars>>, faults' = faults \/ faults' = faults + 1
      PROVE  SeenHasAFate' /\ Charged'
  <2>1. SeenHasAFate' /\ Forgotten' = Forgotten
    BY <1>1 DEF SeenHasAFate, Forgotten, hookVars
  <2>. QED
    BY <1>0, <1>1, <2>1, ChargedStep
<1>2. ASSUME NEW m \in Messages, ClientTimeout(m) \/ Lose(m) \/ ApplyFails(m)
      PROVE  SeenHasAFate' /\ Charged'
  <2>1. /\ answered' = answered \cup {m}
        /\ faults' = faults + 1
        /\ handling' = handling \/ handling' = handling \ {m}
        /\ UNCHANGED <<seen, applied>>
    BY <1>2 DEF ClientTimeout, Lose, ApplyFails, Fault, hookVars
  <2>2. SeenHasAFate'
    BY <2>1 DEF SeenHasAFate
  <2>3. Forgotten' \subseteq Forgotten \cup {m}
    BY <2>1 DEF Forgotten
  <2>. QED
    BY <1>0, <2>1, <2>2, <2>3, ChargedStep
<1>3. ASSUME NEW m \in Messages, Deliver(m) PROVE SeenHasAFate' /\ Charged'
  <2>1. CASE ~Rejected(m) /\ IsNew(m)
    <3>1. /\ seen' = seen \cup {DeliveryId(m)}
          /\ handling' = handling \cup {m}
          /\ UNCHANGED <<answered, applied, faults>>
      BY <1>3, <2>1 DEF Deliver
    <3>2. SeenHasAFate'
      BY <3>1, LocalIdsDiffer DEF SeenHasAFate
    <3>3. Forgotten' = Forgotten
      BY <3>1 DEF Forgotten
    <3>. QED
      BY <1>0, <3>1, <3>2, <3>3, ChargedStep
  <2>2. CASE Rejected(m) \/ ~IsNew(m)
    <3>1. /\ answered' = answered \cup {m}
          /\ m \notin handling
          /\ UNCHANGED <<seen, handling, applied, faults>>
      BY <1>3, <2>2 DEF Deliver
    <3>2. m.run \in LocalRuns => DeliveryId(m) \in seen
      BY <2>2 DEF Rejected, ClassOf, IsNew
    <3>3. m.run \in LocalRuns => applied[m] # 0 \/ m \in answered
      BY <3>1, <3>2 DEF SeenHasAFate
    <3>4. Forgotten' \subseteq Forgotten
      BY <3>1, <3>3 DEF Forgotten
    <3>5. SeenHasAFate'
      BY <3>1 DEF SeenHasAFate
    <3>. QED
      BY <1>0, <3>1, <3>4, <3>5, ChargedStep
  <2>. QED
    BY <2>1, <2>2
<1>4. ASSUME NEW m \in Messages, Apply(m) PROVE SeenHasAFate' /\ Charged'
  <2>1. /\ answered' = answered \cup {m}
        /\ handling' = handling \ {m}
        /\ applied' = [applied EXCEPT ![m] = 1]
        /\ UNCHANGED <<seen, faults>>
    <3>1. applied' = [applied EXCEPT ![m] = applied[m] + 1]
      BY <1>4 DEF Apply
    <3>2. applied[m] = 0
      BY <1>4 DEF Apply, IInv, HandlersOwnTheirId
    <3>. QED
      BY <1>4, <3>1, <3>2 DEF Apply
  <2>2. SeenHasAFate'
    BY <1>0, <2>1 DEF SeenHasAFate, TypeOK
  <2>3. Forgotten' \subseteq Forgotten
    BY <1>0, <2>1 DEF Forgotten, TypeOK
  <2>. QED
    BY <1>0, <2>1, <2>2, <2>3, ChargedStep
<1>5. ASSUME NEW r \in Runs, InsertRun(r) PROVE SeenHasAFate' /\ Charged'
  BY <1>1, <1>5 DEF InsertRun, Fault
<1>6. ASSUME \/ \E r \in Runs : TimePasses(r) \/ CancelDeployRun(r)
             \/ \E r \in Runs, s \in LocalStatuses : SendLocal(r, s)
             \/ \E r \in Runs, s \in ActionStatuses : SendAction(r, s)
             \/ \E from \in {"building", "syncing"} : ListStuck(from)
             \/ \E row \in listed : Skip(row) \/ PullWorkflow(row) \/ PullArgo(row)
             \/ UNCHANGED vars
      PROVE  SeenHasAFate' /\ Charged'
  <2>1. UNCHANGED <<answered, hookVars, faults>>
    BY <1>6 DEF TimePasses, CancelDeployRun, SendLocal, SendAction, ListStuck, Skip,
       PullWorkflow, PullArgo, sendVars, vars
  <2>. QED
    BY <1>1, <2>1
<1>. QED
  BY <1>2, <1>3, <1>4, <1>5, <1>6 DEF Next, Callback

\* A local build loses at most one status to each failure.
THEOREM ForgottenAreCharged == Spec => []EachForgottenTakesAFault
<1>1. Init => SeenHasAFate /\ Charged
  <2>. SUFFICES ASSUME Init PROVE SeenHasAFate /\ Charged
    OBVIOUS
  <2>1. Forgotten = {} /\ SeenHasAFate /\ faults = 0
    BY DEF Init, Forgotten, SeenHasAFate
  <2>. QED
    BY <2>1, FS_EmptySet DEF Charged, EachForgottenTakesAFault
<1>2. Charged => EachForgottenTakesAFault
  BY DEF Charged
<1>. QED
  BY <1>1, <1>2, ChargedPreserved, InductiveInvariant, PTL DEF Spec
=============================================================================
