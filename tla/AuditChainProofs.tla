-------------------------- MODULE AuditChainProofs --------------------------
(* Proofs about AuditTrail, for any writers, verifiers, clocks, months,      *)
(* seconds, pages, rollovers, closers and listings.                          *)
EXTENDS AuditTrail, Keyset, FiniteSetTheorems, SequenceTheorems, WellFoundedInduction, TLAPS

-----------------------------------------------------------------------------
(* Months and hashes.                                                        *)

LEMMA StampsHaveMonths ==
    /\ AnyStamp \in Stamps /\ AnyMonth \in Months
    /\ \A at \in Stamps : at \in Nat /\ Month[at] \in Months
BY ConstantsAssumption DEF AnyStamp, AnyMonth, Months

LEMMA MonthsAreNumbers == ASSUME NEW m \in Months PROVE m \in Nat
<1>1. PICK at \in Stamps : m = Month[at]
  BY DEF Months
<1>2. at \in Nat /\ Month[at] = at \div MonthLength
  BY ConstantsAssumption DEF Month
<1>. QED
  BY <1>1, <1>2, ConstantsAssumption

LEMMA GenesisIsAHash == ASSUME NEW m \in Months PROVE GenesisHash(m) \in Hashes
BY MonthsAreNumbers DEF GenesisHash, Hashes

LEMMA DefaultsAreTyped ==
    NoHash \in Hashes /\ NoHead \in Heads /\ NoCursor \in [at : Nat, id : Nat]
<1>1. NoHash \in Hashes
  BY DEF NoHash, Hashes
<1>. QED
  BY <1>1 DEF NoHead, Heads, NoCursor

\* A hash is one longer than the one it chains to, and never NULL.
LEMMA RowHashIsAHash ==
    ASSUME NEW prev \in Hashes, NEW i \in Nat, NEW at \in Nat
    PROVE  /\ RowHash(prev, <<i, at>>) \in Hashes
           /\ RowHash(prev, <<i, at>>) # NoHash
<1>1. <<i, at>> \in Seq(Nat)
  OBVIOUS
<1>2. ASSUME NEW core \in Seq(Nat) PROVE Append(prev, core) \in Hashes /\ Append(prev, core) # << >>
  BY AppendProperties DEF Hashes
<1>. QED
  BY <1>1, <1>2 DEF RowHash, NoHash

-----------------------------------------------------------------------------
(* Chains.                                                                   *)

\* The row with the greatest id is the last one.
LEMMA LastIsGreatest ==
    ASSUME NEW S \in SUBSET Rows, NEW r \in Rows, \A q \in S : q.id < r.id
    PROVE  Last(S \cup {r}) = r
<1> DEFINE T == S \cup {r}
<1>1. \A q \in T : q.id <= r.id /\ q.id \in Nat
  BY DEF Rows
<1>2. PICK l \in T : l = Last(T) /\ \A q \in T : q.id <= l.id
  BY <1>1 DEF Last
<1>. QED
  BY <1>1, <1>2 DEF Rows

\* A chain that verifies, extended by a row that chains to its tip, verifies
\* against the head advanced by that row.
LEMMA ExtendedChainVerifies ==
    ASSUME NEW m, NEW S \in SUBSET Rows, IsFiniteSet(S), NEW h \in Heads,
           VerifyChain(m, S, h),
           NEW r \in Rows, \A q \in S : q.id < r.id,
           r.prev = h.tip, r.hash = RowHash(r.prev, Core(r))
    PROVE  VerifyChain(m, S \cup {r}, [tip |-> r.hash, count |-> h.count + 1])
<1> DEFINE T == S \cup {r}
<1>1. Below(r, T) = S
  BY DEF Below, Rows
<1>2. ASSUME NEW q \in S PROVE Below(q, T) = Below(q, S)
  BY <1>2 DEF Below, Rows
<1>3. ASSUME NEW q \in T PROVE q.prev = TipOf(m, Below(q, T)) /\ q.hash = RowHash(q.prev, Core(q))
  <2>1. CASE q = r
    BY <1>1, <2>1 DEF VerifyChain
  <2>2. CASE q \in S
    BY <1>2, <2>2 DEF VerifyChain
  <2>. QED
    BY <2>1, <2>2
<1>4. r \notin S
  BY DEF Rows
<1>5. Cardinality(T) = h.count + 1
  BY <1>4, FS_AddElement DEF VerifyChain
<1>6. TipOf(m, T) = r.hash
  BY LastIsGreatest DEF TipOf
<1>. QED
  BY <1>3, <1>5, <1>6 DEF VerifyChain

-----------------------------------------------------------------------------
(* Type correctness.                                                         *)

LEMMA InitTypes == Init => TypeOK
<1> SUFFICES ASSUME Init PROVE TypeOK
  OBVIOUS
<1>1. head \in [Months -> Heads]
  BY GenesisIsAHash DEF Init, Heads
<1>. QED
  BY <1>1, StampsHaveMonths, DefaultsAreTyped DEF Init, TypeOK

\* The row a writer is about to insert.
LEMMA NewRowIsARow ==
    ASSUME TypeOK, NEW w \in Writers
    PROVE  /\ NewRow(w) \in Rows
           /\ NewRow(w).id = id[w] /\ NewRow(w).at = stamp[w] /\ NewRow(w).prev = tip[w]
           /\ NewRow(w).hash = RowHash(tip[w], Core(NewRow(w)))
           /\ NewRow(w).hash # NoHash
<1>1. id[w] \in Nat /\ stamp[w] \in Nat /\ tip[w] \in Hashes
  BY StampsHaveMonths DEF TypeOK
<1>2. /\ RowHash(tip[w], <<id[w], stamp[w]>>) \in Hashes
      /\ RowHash(tip[w], <<id[w], stamp[w]>>) # NoHash
  BY <1>1, RowHashIsAHash
<1>. QED
  BY <1>1, <1>2 DEF NewRow, Rows, Core

\* A page of a finite table is finite.
LEMMA PagesAreFinite ==
    ASSUME IsFiniteSet(auditLog), NEW x
    PROVE  Page(x) \in SUBSET auditLog /\ IsFiniteSet(Page(x)) /\ Cardinality(Page(x)) \in Nat
<1>1. Page(x) \in SUBSET auditLog
  BY DEF Page, Left
<1>. QED
  BY <1>1, FS_Subset, FS_CardinalityType

LEMMA TypePreserved ==
    ASSUME TypeOK, IsFiniteSet(auditLog), [Next]_vars
    PROVE  TypeOK'
<1> USE DEF TypeOK
<1>1. ASSUME NEW w \in Writers, StampRow(w) PROVE TypeOK'
  BY <1>1 DEF StampRow, Go, tableVars, verifyVars
<1>2. ASSUME NEW w \in Writers, LockChainHead(w) PROVE TypeOK'
  BY <1>2, StampsHaveMonths DEF LockChainHead, Go, verifyVars, Heads
<1>3. ASSUME NEW w \in Writers, AllocateId(w) PROVE TypeOK'
  BY <1>3 DEF AllocateId, Go, verifyVars
<1>4. ASSUME NEW w \in Writers, EndTransaction(w)
      PROVE  /\ lock' \in [Months -> Writers \cup {NoWriter}]
             /\ pc' \in [Writers -> {"idle", "stamped", "locked", "numbered"}]
             /\ stamp' \in [Writers -> Stamps] /\ tip' \in [Writers -> Hashes]
             /\ id' \in [Writers -> Nat]
             /\ UNCHANGED <<seq, verifyVars>>
  BY <1>4, StampsHaveMonths, DefaultsAreTyped DEF EndTransaction, Go
<1>5. ASSUME NEW w \in Writers, CommitRow(w) PROVE TypeOK'
  <2>1. auditLog' \in SUBSET Rows
    BY <1>5, NewRowIsARow DEF CommitRow
  <2>2. Month[stamp[w]] \in Months /\ NewRow(w).hash \in Hashes
    BY StampsHaveMonths, NewRowIsARow DEF Rows
  <2>3. head' \in [Months -> Heads]
    BY <1>5, <2>2 DEF CommitRow, Heads
  <2>. QED
    BY <1>4, <1>5, <2>1, <2>3 DEF CommitRow, verifyVars
<1>6. ASSUME NEW w \in Writers, Rollback(w) PROVE TypeOK'
  BY <1>4, <1>6 DEF Rollback, verifyVars
<1>7. CASE AppendAuditLog
  <2>1. PICK at \in Stamps :
           auditLog' = auditLog \cup
                          {[id |-> seq + 1, at |-> at, prev |-> NoHash, hash |-> NoHash]}
    BY <1>7 DEF AppendAuditLog
  <2>2. NoHash \in Hashes /\ at \in Nat
    BY StampsHaveMonths DEF Hashes, NoHash
  <2>3. auditLog' \in SUBSET Rows
    BY <2>1, <2>2 DEF Rows
  <2>. QED
    BY <1>7, <2>3 DEF AppendAuditLog, writerVars, verifyVars
<1>8. ASSUME NEW x \in Verifiers, FetchChain(x) PROVE TypeOK'
  BY <1>8 DEF FetchChain, tableVars, writerVars
<1>9. ASSUME NEW x \in Verifiers, ExportAuditLog(x) PROVE TypeOK'
  <2>1. entries' \in [Verifiers -> SUBSET Rows] /\ sent' \in [Verifiers -> Nat]
    BY <1>9, PagesAreFinite DEF ExportAuditLog
  <2>2. \A r \in Page(x) : [at |-> r.at, id |-> r.id] \in [at : Nat, id : Nat]
    BY PagesAreFinite DEF Rows
  <2>3. cursor' \in [Verifiers -> [at : Nat, id : Nat]]
    BY <1>9, <2>2 DEF ExportAuditLog, NoCursor
  <2>. QED
    BY <1>9, <2>1, <2>3 DEF ExportAuditLog, tableVars, writerVars
<1>10. ASSUME NEW x \in Verifiers, ListChainHeads(x) PROVE TypeOK'
  BY <1>10 DEF ListChainHeads, tableVars, writerVars
<1>11. ASSUME NEW x \in Verifiers, EndVerify(x) PROVE TypeOK'
  <2>1. /\ step' \in [Verifiers -> {"idle", "rows", "heads", "done"}]
        /\ month' \in [Verifiers -> Months]
        /\ cursor' \in [Verifiers -> [at : Nat, id : Nat]]
    BY <1>11, StampsHaveMonths, DefaultsAreTyped DEF EndVerify
  <2>2. /\ entries' \in [Verifiers -> SUBSET Rows] /\ sent' \in [Verifiers -> Nat]
        /\ manifest' \in [Verifiers -> Heads] /\ known' \in [Verifiers -> SUBSET Rows]
    BY <1>11, DefaultsAreTyped DEF EndVerify
  <2>. QED
    BY <1>11, <2>1, <2>2 DEF EndVerify, tableVars, writerVars
<1>12. CASE UNCHANGED vars
  BY <1>12 DEF vars, tableVars, writerVars, verifyVars
<1>. QED
  BY <1>1, <1>2, <1>3, <1>5, <1>6, <1>7, <1>8, <1>9, <1>10, <1>11, <1>12
     DEF Next, Write, Verify

-----------------------------------------------------------------------------
(* The chains verify.  The lock makes the tip a writer has read the tip it   *)
(* will replace; that the id is drawn under the lock makes the ids grow in   *)
(* the order of the chain.                                                   *)

\* A writer past LockChainHead holds the lock of its month, and has its tip.
LocksAreHeld ==
    \A w \in Writers : pc[w] \in {"locked", "numbered"} =>
        /\ lock[Month[stamp[w]]] = w
        /\ tip[w] = head[Month[stamp[w]]].tip

\* Ids come from the sequence, and the next row of a chain has a greater one.
IdsGrow ==
    /\ \A r \in auditLog : r.id <= seq
    /\ \A w \in Writers : pc[w] = "numbered" =>
          /\ id[w] <= seq
          /\ \A r \in auditLog :
                r.hash # NoHash /\ Month[r.at] = Month[stamp[w]] => r.id < id[w]

\* The inductive invariant.
IInv ==
    /\ TypeOK
    /\ IsFiniteSet(auditLog)
    /\ LocksAreHeld
    /\ IdsGrow
    /\ ChainVerifies

LEMMA InitEstablishes == Init => IInv
<1> SUFFICES ASSUME Init PROVE IInv
  OBVIOUS
<1>1. TypeOK
  BY InitTypes
<1>2. IsFiniteSet(auditLog) /\ Cardinality({}) = 0
  BY FS_EmptySet DEF Init
<1>3. LocksAreHeld /\ IdsGrow
  BY DEF Init, LocksAreHeld, IdsGrow
<1>4. ASSUME NEW m \in Months PROVE VerifyChain(m, Chain(m), head[m])
  <2>1. Chain(m) = {}
    BY DEF Init, Chain, Chained
  <2>. QED
    BY <1>2, <2>1 DEF Init, VerifyChain, TipOf
<1>. QED
  BY <1>1, <1>2, <1>3, <1>4 DEF IInv, ChainVerifies

\* Steps that leave table and heads alone leave the chains alone.
LEMMA ChainsStay ==
    ASSUME UNCHANGED <<auditLog, head>>
    PROVE  ChainVerifies => ChainVerifies'
<1>1. ASSUME NEW m \in Months
      PROVE  VerifyChain(m, Chain(m), head[m]) => VerifyChain(m, Chain(m), head[m])'
  BY DEF Chain, Chained, VerifyChain, TipOf, Last, Below
<1>. QED
  BY <1>1 DEF ChainVerifies

LEMMA WritePreserves ==
    ASSUME IInv, NEW w \in Writers, Write(w)
    PROVE  (IsFiniteSet(auditLog) /\ LocksAreHeld /\ IdsGrow /\ ChainVerifies)'
<1> USE DEF IInv
<1>1. CASE StampRow(w)
  <2>1. /\ UNCHANGED <<auditLog, head, lock, seq, tip, id>>
        /\ \A v \in Writers : v # w => UNCHANGED <<pc[v], stamp[v]>>
        /\ pc'[w] = "stamped"
    BY <1>1 DEF StampRow, tableVars, Go, TypeOK
  <2>2. LocksAreHeld'
    BY <2>1 DEF LocksAreHeld
  <2>3. IdsGrow'
    BY <2>1 DEF IdsGrow, TypeOK
  <2>. QED
    BY <2>1, <2>2, <2>3, ChainsStay
<1>2. CASE LockChainHead(w)
  <2>1. /\ UNCHANGED <<auditLog, head, seq, stamp, id>>
        /\ \A v \in Writers : v # w => UNCHANGED <<pc[v], tip[v]>>
        /\ pc[w] = "stamped" /\ pc'[w] = "locked" /\ tip'[w] = head[Month[stamp[w]]].tip
        /\ lock[Month[stamp[w]]] = NoWriter /\ lock' = [lock EXCEPT ![Month[stamp[w]]] = w]
    BY <1>2 DEF LockChainHead, HeadIsFree, Go, TypeOK
  <2>2. ASSUME NEW v \in Writers, v # w, pc[v] \in {"locked", "numbered"}
        PROVE  /\ Month[stamp[v]] \in Months /\ Month[stamp[v]] # Month[stamp[w]]
               /\ lock[Month[stamp[v]]] = v /\ tip[v] = head[Month[stamp[v]]].tip
    <3>1. lock[Month[stamp[v]]] = v /\ tip[v] = head[Month[stamp[v]]].tip
      BY <2>2 DEF LocksAreHeld
    <3>2. Month[stamp[v]] \in Months
      BY StampsHaveMonths DEF TypeOK
    <3>3. Month[stamp[v]] # Month[stamp[w]]
      BY <2>1, <3>1, ConstantsAssumption
    <3>. QED
      BY <3>1, <3>2, <3>3
  <2>3. LocksAreHeld'
    <3>1. lock'[Month[stamp[w]]] = w
      BY <2>1, StampsHaveMonths DEF TypeOK
    <3>. QED
      BY <2>1, <2>2, <3>1 DEF LocksAreHeld, TypeOK
  <2>4. IdsGrow'
    BY <2>1 DEF IdsGrow, TypeOK
  <2>. QED
    BY <2>1, <2>3, <2>4, ChainsStay
<1>3. CASE AllocateId(w)
  <2>1. /\ UNCHANGED <<auditLog, head, lock, stamp, tip>>
        /\ \A v \in Writers : v # w => UNCHANGED <<pc[v], id[v]>>
        /\ pc[w] = "locked" /\ pc'[w] = "numbered" /\ id'[w] = seq + 1 /\ seq' = seq + 1
    BY <1>3 DEF AllocateId, Go, TypeOK
  <2>2. LocksAreHeld'
    BY <2>1 DEF LocksAreHeld
  <2>3. \A r \in auditLog : r.id \in Nat /\ r.id <= seq
    BY DEF IdsGrow, TypeOK, Rows
  <2>4. IdsGrow'
    BY <2>1, <2>3 DEF IdsGrow, TypeOK
  <2>. QED
    BY <2>1, <2>2, <2>4, ChainsStay
<1>4. ASSUME EndTransaction(w)
      PROVE  /\ pc'[w] = "idle" /\ UNCHANGED seq
             /\ \A v \in Writers : v # w => UNCHANGED <<pc[v], stamp[v], tip[v], id[v]>>
             /\ \A m \in Months : lock[m] # w => lock'[m] = lock[m]
  BY <1>4 DEF EndTransaction, Go, TypeOK
<1>5. CASE CommitRow(w)
  <2> DEFINE n == NewRow(w)
  <2> PICK c \in Months : c = Month[stamp[w]]
    BY StampsHaveMonths DEF TypeOK
  <2>1. /\ pc[w] = "numbered" /\ auditLog' = auditLog \cup {n}
        /\ head' = [head EXCEPT ![c] = [tip |-> n.hash, count |-> head[c].count + 1]]
        /\ EndTransaction(w)
    BY <1>5 DEF CommitRow
  <2>2. /\ n \in Rows /\ n.id = id[w] /\ n.at = stamp[w] /\ n.prev = tip[w] /\ n.hash # NoHash
        /\ n.hash = RowHash(n.prev, Core(n))
    BY NewRowIsARow
  <2>3. lock[c] = w /\ n.prev = head[c].tip
    BY <2>1, <2>2, StampsHaveMonths DEF LocksAreHeld, TypeOK
  <2>4. IsFiniteSet(auditLog)'
    BY <2>1, FS_AddElement
  <2>5. \A v \in Writers : v # w /\ pc[v] \in {"locked", "numbered"} => Month[stamp[v]] # c
    BY <2>3 DEF LocksAreHeld
  <2>6. \A m \in Months : m # c => head'[m] = head[m]
    BY <2>1 DEF TypeOK
  <2>7. LocksAreHeld'
    <3>1. ASSUME NEW v \in Writers, pc'[v] \in {"locked", "numbered"}
          PROVE  /\ v # w /\ UNCHANGED <<pc[v], stamp[v], tip[v]>>
                 /\ Month[stamp[v]] \in Months /\ Month[stamp[v]] # c
                 /\ lock[Month[stamp[v]]] = v /\ tip[v] = head[Month[stamp[v]]].tip
      BY <1>4, <2>1, <2>5, <3>1, StampsHaveMonths DEF LocksAreHeld, TypeOK
    <3>2. ASSUME NEW v \in Writers, pc'[v] \in {"locked", "numbered"}
          PROVE  /\ lock'[Month[stamp'[v]]] = v
                 /\ tip'[v] = head'[Month[stamp'[v]]].tip
      <4>1. lock'[Month[stamp[v]]] = lock[Month[stamp[v]]]
        BY <1>4, <2>1, <3>1, <3>2
      <4>2. head'[Month[stamp[v]]] = head[Month[stamp[v]]]
        BY <2>6, <3>1, <3>2
      <4>. QED
        BY <3>1, <3>2, <4>1, <4>2
    <3>. QED
      BY <3>2 DEF LocksAreHeld
  <2>8. Chain(c)' = Chain(c) \cup {n}
    BY <2>1, <2>2 DEF Chain, Chained
  <2>9. \A m \in Months : m # c => Chain(m)' = Chain(m)
    BY <2>1, <2>2 DEF Chain, Chained
  <2>10. IdsGrow'
    <3>1. \A r \in auditLog' : r.id <= seq'
      BY <1>4, <2>1, <2>2 DEF IdsGrow
    <3>2. ASSUME NEW v \in Writers, pc'[v] = "numbered"
          PROVE  /\ v # w /\ UNCHANGED <<pc[v], stamp[v], id[v]>>
                 /\ Month[stamp[v]] # c
      BY <1>4, <2>1, <2>5, <3>2 DEF TypeOK
    <3>3. ASSUME NEW v \in Writers, pc'[v] = "numbered",
                 NEW r \in auditLog', r.hash # NoHash, Month[r.at] = Month[stamp'[v]]
          PROVE  r.id < id'[v]
      <4>1. r # n
        BY <2>2, <3>2, <3>3
      <4>. QED
        BY <2>1, <3>2, <3>3, <4>1 DEF IdsGrow
    <3>4. ASSUME NEW v \in Writers, pc'[v] = "numbered" PROVE id'[v] <= seq'
      BY <1>4, <2>1, <3>2, <3>4 DEF IdsGrow
    <3>. QED
      BY <3>1, <3>3, <3>4 DEF IdsGrow
  <2>11. VerifyChain(c, Chain(c), head[c])'
    <3>1. Chain(c) \in SUBSET auditLog
      BY DEF Chain, Chained
    <3>2. Chain(c) \in SUBSET Rows /\ IsFiniteSet(Chain(c))
      BY <3>1, FS_Subset DEF TypeOK
    <3>3. head[c] \in Heads /\ VerifyChain(c, Chain(c), head[c])
      BY <2>3 DEF TypeOK, ChainVerifies
    <3>4. \A q \in Chain(c) : q.id < n.id
      BY <2>1, <2>2 DEF IdsGrow, Chain, Chained
    <3>5. VerifyChain(c, Chain(c) \cup {n}, [tip |-> n.hash, count |-> head[c].count + 1])
      BY <2>2, <2>3, <3>2, <3>3, <3>4, ExtendedChainVerifies
    <3>6. head'[c] = [tip |-> n.hash, count |-> head[c].count + 1]
      BY <2>1, <2>3 DEF TypeOK
    <3>. QED
      BY <2>8, <3>5, <3>6
  <2>12. ASSUME NEW m \in Months, m # c PROVE VerifyChain(m, Chain(m), head[m])'
    <3>1. VerifyChain(m, Chain(m), head[m]) /\ Chain(m)' = Chain(m) /\ head'[m] = head[m]
      BY <2>6, <2>9, <2>12 DEF ChainVerifies
    <3>. QED
      BY <3>1 DEF VerifyChain, TipOf, Last, Below
  <2>. QED
    BY <2>4, <2>7, <2>10, <2>11, <2>12 DEF ChainVerifies
<1>6. CASE Rollback(w)
  <2>1. EndTransaction(w) /\ UNCHANGED <<auditLog, head>>
    BY <1>6 DEF Rollback
  <2>2. LocksAreHeld'
    BY <1>4, <2>1, StampsHaveMonths DEF LocksAreHeld, TypeOK
  <2>3. IdsGrow'
    BY <1>4, <2>1 DEF IdsGrow, TypeOK
  <2>. QED
    BY <2>1, <2>2, <2>3, ChainsStay
<1>. QED
  BY <1>1, <1>2, <1>3, <1>5, <1>6 DEF Write

LEMMA AppendPreserves ==
    ASSUME IInv, AppendAuditLog
    PROVE  (IsFiniteSet(auditLog) /\ LocksAreHeld /\ IdsGrow /\ ChainVerifies)'
<1> USE DEF IInv
<1>1. PICK at \in Stamps :
         auditLog' = auditLog \cup
                        {[id |-> seq + 1, at |-> at, prev |-> NoHash, hash |-> NoHash]}
  BY DEF AppendAuditLog
<1>2. seq' = seq + 1 /\ UNCHANGED <<head, lock, pc, stamp, tip, id>>
  BY DEF AppendAuditLog, writerVars
<1>3. IsFiniteSet(auditLog)'
  BY <1>1, FS_AddElement
<1>4. LocksAreHeld'
  BY <1>2 DEF LocksAreHeld
<1>5. IdsGrow'
  <2>1. \A r \in auditLog : r.id \in Nat /\ r.id <= seq
    BY DEF IdsGrow, TypeOK, Rows
  <2>2. \A r \in auditLog' : r.id <= seq'
    BY <1>1, <1>2, <2>1 DEF TypeOK
  <2>3. \A r \in auditLog' : r.hash # NoHash => r \in auditLog
    BY <1>1
  <2>. QED
    BY <1>2, <2>2, <2>3 DEF IdsGrow, TypeOK
<1>6. ASSUME NEW m \in Months PROVE VerifyChain(m, Chain(m), head[m])'
  <2>1. Chain(m)' = Chain(m)
    BY <1>1 DEF Chain, Chained
  <2>2. VerifyChain(m, Chain(m), head[m])
    BY DEF ChainVerifies
  <2>. QED
    BY <1>2, <2>1, <2>2
<1>. QED
  BY <1>3, <1>4, <1>5, <1>6 DEF ChainVerifies

\* Verifiers only read.
LEMMA VerifyPreserves ==
    ASSUME IInv, UNCHANGED <<tableVars, writerVars>>
    PROVE  (IsFiniteSet(auditLog) /\ LocksAreHeld /\ IdsGrow /\ ChainVerifies)'
<1>1. UNCHANGED <<auditLog, head, lock, seq, pc, stamp, tip, id>>
  BY DEF tableVars, writerVars
<1>. QED
  BY <1>1, ChainsStay DEF IInv, LocksAreHeld, IdsGrow

LEMMA StepPreserves == IInv /\ [Next]_vars => IInv'
<1> SUFFICES ASSUME IInv, [Next]_vars PROVE IInv'
  OBVIOUS
<1>1. TypeOK'
  BY TypePreserved DEF IInv
<1>2. ASSUME NEW x \in Verifiers, Verify(x) PROVE UNCHANGED <<tableVars, writerVars>>
  BY <1>2 DEF Verify, FetchChain, ExportAuditLog, ListChainHeads, EndVerify
<1>3. CASE UNCHANGED vars
  BY <1>1, <1>3, VerifyPreserves DEF vars, IInv
<1>. QED
  BY <1>1, <1>2, <1>3, WritePreserves, AppendPreserves, VerifyPreserves DEF Next, IInv

\* The inductive invariant holds in every reachable state.
THEOREM InductiveInvariant == Spec => []IInv
BY InitEstablishes, StepPreserves, PTL DEF Spec

\* Type correctness of the log, its writers and its verifiers.
THEOREM TypeCorrect == Spec => []TypeOK
BY InductiveInvariant, PTL DEF IInv

\* The committed rows of every month verify against its head in every state.
THEOREM ChainsVerify == Spec => []ChainVerifies
BY InductiveInvariant, PTL DEF IInv

-----------------------------------------------------------------------------
(* The export is exact.  Between two pages rows may be committed anywhere,   *)
(* before the cursor as well: the argument is about the rows that were there *)
(* when the export began, all of which are either received or behind the     *)
(* cursor, and never both.                                                   *)

\* An id belongs to one row, and the row about to be inserted has a new one.
IdsAreUnique ==
    /\ \A r \in auditLog : r.id > 0
    /\ \A q, r \in auditLog : q.id = r.id => q = r
    /\ \A w \in Writers : pc[w] = "numbered" =>
          /\ id[w] > 0
          /\ \A r \in auditLog : r.id # id[w]
          /\ \A v \in Writers : pc[v] = "numbered" /\ v # w => id[v] # id[w]

InWindow(m, r) == MonthStart(m) <= r.at /\ r.at <= MonthEnd(m)

\* What is still to be received lies behind the cursor, what was received does
\* not.  Without a cursor nothing was received yet, or everything was.
Progress(x) ==
    /\ known[x] \subseteq auditLog
    /\ entries[x] \subseteq auditLog
    /\ sent[x] = Cardinality(entries[x])
    /\ \A r \in entries[x] : InWindow(month[x], r)
    /\ step[x] = "idle" => entries[x] = {} /\ cursor[x] = NoCursor
    /\ step[x] = "rows" /\ cursor[x] = NoCursor => entries[x] = {}
    /\ step[x] \in {"rows", "heads"} /\ cursor[x] # NoCursor =>
          \A r \in known[x] : InWindow(month[x], r) =>
              (r \notin entries[x] => Precedes(cursor[x], r))
    /\ step[x] \in {"rows", "heads"} /\ cursor[x] # NoCursor =>
          \A r \in entries[x] : ~Precedes(cursor[x], r)
    /\ (step[x] = "heads" /\ cursor[x] = NoCursor) \/ step[x] = "done" =>
          \A r \in known[x] : InWindow(month[x], r) => r \in entries[x]

ExportInv == IdsAreUnique /\ \A x \in Verifiers : Progress(x)

\* The order of the export is strict and, ids being unique, total.
LEMMA PrecedesIsAnOrder ==
    /\ \A p, q, r \in [at : Nat, id : Nat] :
          Precedes(p, q) /\ Precedes(q, r) => Precedes(p, r)
    /\ \A q, r \in Rows : q.id # r.id => Precedes(q, r) \/ Precedes(r, q)
    /\ \A p, q, r \in Rows : Precedes(p, q) /\ Precedes(q, r) => Precedes(p, r)
BY DEF Precedes, Rows

\* A page is the beginning of what is left.
LEMMA PagesAreInOrder ==
    ASSUME TypeOK, IsFiniteSet(auditLog), IdsAreUnique,
           NEW x \in Verifiers, NEW q \in Page(x), NEW r \in Left(x) \ Page(x)
    PROVE  Precedes(q, r)
<1> DEFINE Before(s) == {p \in Left(x) : Precedes(p, s)}
<1>1. Left(x) \in SUBSET auditLog /\ q \in Left(x)
  BY DEF Left, Page
<1>2. q \in Rows /\ r \in Rows /\ q \in auditLog /\ r \in auditLog
  BY <1>1 DEF TypeOK
<1>3. IsFiniteSet(Before(q)) /\ IsFiniteSet(Before(r))
  BY <1>1, FS_Subset
<1>4. Cardinality(Before(q)) \in Nat /\ Cardinality(Before(r)) \in Nat
  BY <1>3, FS_CardinalityType
<1>5. Cardinality(Before(q)) < PageSize /\ ~(Cardinality(Before(r)) < PageSize)
  BY DEF Page
<1>6. CASE Precedes(r, q)
  <2>1. Before(r) \in SUBSET Before(q)
    BY <1>1, <1>2, <1>6, PrecedesIsAnOrder DEF TypeOK
  <2>2. Cardinality(Before(r)) <= Cardinality(Before(q))
    BY <1>3, <2>1, FS_Subset
  <2>. QED
    BY <1>4, <1>5, <2>2, ConstantsAssumption
<1>7. q.id # r.id
  BY <1>2 DEF IdsAreUnique
<1>. QED
  BY <1>2, <1>6, <1>7, PrecedesIsAnOrder

LEMMA InitExport == Init => ExportInv
BY FS_EmptySet DEF Init, ExportInv, IdsAreUnique, Progress, NoCursor

LEMMA IdsStayUnique ==
    ASSUME IInv, IdsAreUnique, [Next]_vars
    PROVE  IdsAreUnique' /\ auditLog \subseteq auditLog'
<1> USE DEF IInv
<1>1. /\ seq \in Nat /\ \A r \in auditLog : r.id \in Nat /\ r.id <= seq
      /\ \A w \in Writers : id[w] \in Nat /\ (pc[w] = "numbered" => id[w] <= seq)
  BY DEF TypeOK, Rows, IdsGrow
<1>2. ASSUME NEW w \in Writers, AllocateId(w)
      PROVE  IdsAreUnique' /\ auditLog \subseteq auditLog'
  <2>1. /\ UNCHANGED auditLog
        /\ \A v \in Writers : v # w => UNCHANGED <<pc[v], id[v]>>
        /\ id'[w] = seq + 1
    BY <1>2 DEF AllocateId, Go, TypeOK
  <2>. QED
    BY <1>1, <2>1 DEF IdsAreUnique
<1>3. ASSUME NEW w \in Writers, CommitRow(w)
      PROVE  IdsAreUnique' /\ auditLog \subseteq auditLog'
  <2>1. /\ auditLog' = auditLog \cup {NewRow(w)} /\ NewRow(w).id = id[w]
        /\ pc[w] = "numbered" /\ pc'[w] = "idle"
        /\ \A v \in Writers : v # w => UNCHANGED <<pc[v], id[v]>>
    BY <1>3, NewRowIsARow DEF CommitRow, EndTransaction, Go, TypeOK
  <2>. QED
    BY <1>1, <2>1 DEF IdsAreUnique
<1>4. CASE AppendAuditLog
  <2>1. PICK at \in Stamps :
           auditLog' = auditLog \cup
                          {[id |-> seq + 1, at |-> at, prev |-> NoHash, hash |-> NoHash]}
    BY <1>4 DEF AppendAuditLog
  <2>2. UNCHANGED <<pc, id>>
    BY <1>4 DEF AppendAuditLog, writerVars
  <2>. QED
    BY <1>1, <2>1, <2>2 DEF IdsAreUnique
<1>5. ASSUME NEW w \in Writers, StampRow(w) \/ LockChainHead(w) \/ Rollback(w)
      PROVE  IdsAreUnique' /\ auditLog \subseteq auditLog'
  <2>1. /\ UNCHANGED auditLog
        /\ pc'[w] # "numbered"
        /\ \A v \in Writers : v # w => UNCHANGED <<pc[v], id[v]>>
    BY <1>5 DEF StampRow, LockChainHead, Rollback, EndTransaction, Go, tableVars, TypeOK
  <2>. QED
    BY <2>1 DEF IdsAreUnique
<1>6. ASSUME UNCHANGED <<auditLog, pc, id>>
      PROVE  IdsAreUnique' /\ auditLog \subseteq auditLog'
  BY <1>6 DEF IdsAreUnique
<1>7. ASSUME NEW x \in Verifiers, Verify(x) PROVE UNCHANGED <<auditLog, pc, id>>
  BY <1>7 DEF Verify, FetchChain, ExportAuditLog, ListChainHeads, EndVerify,
              tableVars, writerVars
<1>8. CASE UNCHANGED vars
  BY <1>6, <1>8 DEF vars, tableVars, writerVars
<1>. QED
  BY <1>2, <1>3, <1>4, <1>5, <1>6, <1>7, <1>8 DEF Next, Write

\* What only adds rows to the table leaves a verifier where it is.
LEMMA ProgressStays ==
    ASSUME NEW x \in Verifiers, Progress(x), auditLog \subseteq auditLog',
           UNCHANGED <<step[x], month[x], cursor[x], entries[x], sent[x], known[x]>>
    PROVE  Progress(x)'
BY DEF Progress, InWindow

LEMMA ExportProgresses ==
    ASSUME IInv, IdsAreUnique, NEW x \in Verifiers, Progress(x), ExportAuditLog(x)
    PROVE  Progress(x)'
<1> USE DEF IInv
<1> DEFINE page == Page(x)
           m == month[x]
<1>1. /\ step[x] = "rows" /\ step'[x] = "heads" /\ UNCHANGED <<auditLog, month, known>>
      /\ entries'[x] = entries[x] \cup page
      /\ sent'[x] = sent[x] + Cardinality(page)
  BY DEF ExportAuditLog, tableVars, TypeOK
<1>2. /\ page \subseteq Left(x) /\ Left(x) \subseteq auditLog /\ page \subseteq Rows
      /\ \A r \in Left(x) : InWindow(m, r) /\ AfterCursor(cursor[x], r)
  BY DEF Page, Left, InWindow, TypeOK
<1>3. page \cap entries[x] = {}
  BY <1>1, <1>2 DEF Progress, AfterCursor
<1>4. sent'[x] = Cardinality(entries'[x])
  <2>1. IsFiniteSet(entries[x]) /\ IsFiniteSet(page)
    BY PagesAreFinite, FS_Subset DEF Progress
  <2>2. Cardinality(entries[x] \cup page) = Cardinality(entries[x]) + Cardinality(page)
    <3> HIDE DEF page
    <3>1. /\ Cardinality(entries[x] \cup page) =
                Cardinality(entries[x]) + Cardinality(page) - Cardinality(entries[x] \cap page)
          /\ Cardinality(entries[x]) \in Nat /\ Cardinality(page) \in Nat
      BY <2>1, FS_Union, FS_CardinalityType
    <3>2. Cardinality(entries[x] \cap page) = 0
      BY <1>3, FS_EmptySet
    <3>. QED
      BY <3>1, <3>2
  <2>. QED
    BY <1>1, <2>2 DEF Progress
<1>5. \A r \in known[x] : InWindow(m, r) /\ r \notin entries[x] => r \in Left(x)
  BY <1>1 DEF Progress, Left, InWindow, AfterCursor
<1>6. CASE page = Left(x) /\ cursor' = [cursor EXCEPT ![x] = NoCursor]
  <2>1. cursor'[x] = NoCursor /\ \A r \in known[x] : InWindow(m, r) => r \in entries'[x]
    BY <1>1, <1>5, <1>6 DEF TypeOK
  <2>. QED
    BY <1>1, <1>2, <1>4, <2>1 DEF Progress, InWindow
<1>7. ASSUME NEW r \in page, \A q \in page : q = r \/ Precedes(q, r),
             cursor' = [cursor EXCEPT ![x] = [at |-> r.at, id |-> r.id]]
      PROVE  Progress(x)'
  <2> DEFINE c == cursor'[x]
  <2>1. c = [at |-> r.at, id |-> r.id] /\ r \in Rows /\ r \in auditLog /\ r.id > 0
    BY <1>2, <1>7 DEF TypeOK, IdsAreUnique
  <2>2. c # NoCursor /\ \A q : (Precedes(c, q) <=> Precedes(r, q))
    BY <2>1 DEF NoCursor, Precedes
  <2>3. ASSUME NEW k \in known[x], InWindow(m, k), k \notin entries'[x] PROVE Precedes(c, k)
    BY <1>1, <1>5, <2>2, <2>3, PagesAreInOrder
  <2>4. ASSUME NEW q \in entries'[x] PROVE ~Precedes(c, q)
    <3>1. CASE q \in page
      BY <1>2, <1>7, <2>1, <2>2, <3>1 DEF Precedes, Rows
    <3>2. CASE q \in entries[x]
      <4>1. cursor[x] # NoCursor /\ ~Precedes(cursor[x], q) /\ Precedes(cursor[x], r)
        BY <1>1, <1>2, <3>2 DEF Progress, AfterCursor
      <4>2. q \in Rows /\ cursor[x] \in [at : Nat, id : Nat]
        BY <3>2 DEF TypeOK
      <4>. QED
        BY <2>1, <2>2, <4>1, <4>2 DEF Precedes, Rows
    <3>. QED
      BY <1>1, <3>1, <3>2
  <2>. QED
    BY <1>1, <1>2, <1>4, <2>2, <2>3, <2>4 DEF Progress, InWindow
<1>. QED
  BY <1>6, <1>7 DEF ExportAuditLog

LEMMA ExportPreserved == IInv /\ ExportInv /\ [Next]_vars => ExportInv'
<1> SUFFICES ASSUME IInv, ExportInv, [Next]_vars, NEW x \in Verifiers
             PROVE  Progress(x)'
  BY IdsStayUnique DEF ExportInv
<1> USE DEF IInv, ExportInv
<1>1. auditLog \subseteq auditLog' /\ Progress(x)
  BY IdsStayUnique
<1>2. CASE UNCHANGED verifyVars
  BY <1>1, <1>2, ProgressStays DEF verifyVars
<1>3. ASSUME NEW y \in Verifiers, Verify(y), y # x PROVE Progress(x)'
  <2>1. UNCHANGED <<step[x], month[x], cursor[x], entries[x], sent[x], known[x]>>
    BY <1>3 DEF Verify, FetchChain, ExportAuditLog, ListChainHeads, EndVerify, TypeOK
  <2>. QED
    BY <1>1, <2>1, ProgressStays
<1>4. CASE FetchChain(x)
  BY <1>1, <1>4 DEF FetchChain, tableVars, Progress, InWindow, TypeOK
<1>5. CASE ExportAuditLog(x)
  BY <1>1, <1>5, ExportProgresses
<1>6. CASE ListChainHeads(x)
  BY <1>1, <1>6 DEF ListChainHeads, tableVars, Progress, InWindow, TypeOK
<1>7. CASE EndVerify(x)
  BY <1>7, FS_EmptySet DEF EndVerify, tableVars, Progress, InWindow, TypeOK
<1>8. ASSUME NEW w \in Writers, Write(w) PROVE UNCHANGED verifyVars
  BY <1>8 DEF Write, StampRow, LockChainHead, AllocateId, CommitRow, Rollback, EndTransaction
<1>9. AppendAuditLog \/ UNCHANGED vars => UNCHANGED verifyVars
  BY DEF AppendAuditLog, vars
<1>. QED
  BY <1>2, <1>3, <1>4, <1>5, <1>6, <1>7, <1>8, <1>9 DEF Next, Verify

\* A finished export holds every row that was there when it began, once.
THEOREM ExportsAreExact == Spec => []ExportIsExact
<1>1. IInv /\ ExportInv /\ [Next]_vars => ExportInv'
  BY ExportPreserved
<1>2. ExportInv => ExportIsExact
  BY DEF ExportInv, Progress, InWindow, ExportIsExact
<1>. QED
  BY InitExport, InductiveInvariant, <1>1, <1>2, PTL DEF Spec

-----------------------------------------------------------------------------
(* Verdicts are right.  Two rows that differ have different hashes, so two   *)
(* chains that verify agree on the row below a row they share: what is       *)
(* missing, or was edited, shows at the first row above it, and what is the  *)
(* last of its chain shows at the head.                                      *)

\* Sets of numbers have a least element, and a greatest if they are bounded.
LEMMA LeastOf ==
    ASSUME NEW T \in SUBSET Nat, T # {}
    PROVE  \E l \in T : \A n \in T : l <= n
<1> DEFINE R == OpToRel(<, Nat)
<1>1. IsWellFoundedOn(R, Nat)
  BY NatLessThanWellFounded
<1>2. ASSUME NEW n \in Nat, NEW l \in Nat, n < l PROVE <<n, l>> \in R
  BY <1>2 DEF OpToRel
<1> HIDE DEF R
<1>3. PICK l \in T : \A n \in T : ~(<<n, l>> \in R)
  BY <1>1, WFMin
<1>4. ASSUME NEW n \in T PROVE l <= n
  <2>1. ~(n < l)
    BY <1>2, <1>3
  <2>. QED
    BY <2>1
<1>. QED
  BY <1>4

LEMMA GreatestOf ==
    ASSUME NEW T \in SUBSET Nat, T # {}, NEW b \in Nat, \A n \in T : n <= b
    PROVE  \E g \in T : \A n \in T : n <= g
<1> DEFINE U == {b - n : n \in T}
<1>1. U \in SUBSET Nat
  <2>1. ASSUME NEW n \in T PROVE b - n \in Nat
    OBVIOUS
  <2>. QED
    BY <2>1
<1>2. U # {}
  OBVIOUS
<1>3. PICK l \in U : \A n \in U : l <= n
  <2> HIDE DEF U
  <2>. QED
    BY <1>1, <1>2, LeastOf
<1>4. PICK g \in T : l = b - g
  OBVIOUS
<1>5. ASSUME NEW n \in T PROVE n <= g
  <2>1. b - n \in U
    OBVIOUS
  <2>. QED
    BY <1>3, <1>4, <2>1
<1>. QED
  BY <1>5

\* Some row of S comes first, and if ids are bounded there is a last.
LEMMA FirstRow ==
    ASSUME NEW S \in SUBSET Rows, S # {}
    PROVE  \E f \in S : \A q \in S : f.id <= q.id
<1> DEFINE T == {r.id : r \in S}
<1>1. T \in SUBSET Nat /\ T # {}
  BY DEF Rows
<1>2. PICK l \in T : \A n \in T : l <= n
  <2> HIDE DEF T
  <2>. QED
    BY <1>1, LeastOf
<1>. QED
  BY <1>2

LEMMA LastRow ==
    ASSUME NEW S \in SUBSET Rows, S # {}, NEW b \in Nat, \A q \in S : q.id <= b
    PROVE  Last(S) \in S /\ \A q \in S : q.id <= Last(S).id
<1> DEFINE T == {r.id : r \in S}
<1>1. T \in SUBSET Nat /\ T # {} /\ \A n \in T : n <= b
  BY DEF Rows
<1>2. PICK g \in T : \A n \in T : n <= g
  <2> HIDE DEF T
  <2>. QED
    BY <1>1, GreatestOf
<1>3. \E r \in S : \A q \in S : q.id <= r.id
  BY <1>2
<1>. QED
  BY <1>3 DEF Last

\* Rows with one hash have one id and one stamp; no row has a genesis hash.
LEMMA HashesTellRows ==
    ASSUME NEW p \in Hashes, NEW i \in Nat, NEW at \in Nat
    PROVE  /\ \A q \in Hashes, j, bt \in Nat :
                 RowHash(p, <<i, at>>) = RowHash(q, <<j, bt>>) => i = j /\ at = bt
           /\ \A m \in Months : RowHash(p, <<i, at>>) # GenesisHash(m)
<1>1. ASSUME NEW q \in Hashes, NEW core \in Seq(Nat)
      PROVE  /\ Len(RowHash(q, core)) = Len(q) + 1 /\ Len(q) \in Nat
             /\ RowHash(q, core)[Len(q) + 1] = core
  BY <1>1, AppendProperties DEF Hashes, RowHash
<1>2. ASSUME NEW q \in Hashes, NEW core \in Seq(Nat), NEW last \in Seq(Nat),
             RowHash(p, core) = RowHash(q, last)
      PROVE  core = last
  <2>1. Len(p) = Len(q)
    BY <1>1, <1>2
  <2>. QED
    BY <1>1, <1>2, <2>1
<1>3. ASSUME NEW core \in Seq(Nat), NEW m, RowHash(p, core) = GenesisHash(m)
      PROVE  core = <<m>>
  <2>1. Len(GenesisHash(m)) = 1 /\ GenesisHash(m)[1] = <<m>>
    BY DEF GenesisHash
  <2>2. Len(p) + 1 = 1
    BY <1>1, <1>3, <2>1
  <2>. QED
    BY <1>1, <1>3, <2>1, <2>2
<1>4. ASSUME NEW j \in Nat, NEW bt \in Nat
      PROVE  /\ <<j, bt>> \in Seq(Nat) /\ Len(<<j, bt>>) = 2
             /\ <<j, bt>>[1] = j /\ <<j, bt>>[2] = bt
  OBVIOUS
<1>5. ASSUME NEW q \in Hashes, NEW j \in Nat, NEW bt \in Nat,
             RowHash(p, <<i, at>>) = RowHash(q, <<j, bt>>)
      PROVE  i = j /\ at = bt
  <2>1. <<i, at>> = <<j, bt>>
    BY <1>2, <1>4, <1>5
  <2>. QED
    BY <1>4, <2>1, Zenon
<1>6. ASSUME NEW m \in Months, RowHash(p, <<i, at>>) = GenesisHash(m) PROVE FALSE
  <2>1. <<i, at>> = <<m>>
    BY <1>3, <1>4, <1>6
  <2>2. Len(<<m>>) = 1 /\ Len(<<i, at>>) = 2
    BY <1>4
  <2>3. Len(<<i, at>>) = Len(<<m>>)
    BY <2>1, Zenon
  <2>. QED
    BY <2>2, <2>3
<1>. QED
  BY <1>5, <1>6

\* A part of a chain that verifies by itself has no gap below its last row.
LEMMA VerifiedPartsAreWhole ==
    ASSUME NEW m \in Months, NEW C \in SUBSET Rows, NEW b \in Nat, NEW g, NEW h,
           \A r \in C : r.id <= b,
           \A q, r \in C : q.id = r.id => q = r,
           NEW S \in SUBSET C, VerifyChain(m, C, g), VerifyChain(m, S, h),
           NEW c \in C \ S, NEW s \in S
    PROVE  s.id < c.id
<1> SUFFICES ASSUME ~(s.id < c.id) PROVE FALSE
  OBVIOUS
<1> DEFINE Above == {q \in S : c.id < q.id}
<1>1. Above \in SUBSET Rows /\ s \in Above
  BY DEF Rows
<1>2. PICK q \in Above : \A p \in Above : q.id <= p.id
  <2> HIDE DEF Above
  <2>. QED
    BY <1>1, FirstRow
<1>3. q \in S /\ q \in C /\ q \in Rows /\ c \in Rows /\ c.id < q.id
  OBVIOUS
<1> DEFINE l == Last(Below(q, C))
           k == Last(Below(q, S))
<1>4. l \in C /\ l \in Rows /\ l.id < q.id /\ c.id <= l.id
  <2>1. Below(q, C) \in SUBSET Rows /\ c \in Below(q, C) /\ \A r \in Below(q, C) : r.id <= b
    BY <1>3 DEF Below
  <2>2. l \in Below(q, C) /\ \A r \in Below(q, C) : r.id <= l.id
    BY <2>1, LastRow
  <2>. QED
    BY <2>1, <2>2 DEF Below
<1>5. q.prev = l.hash /\ l.hash = RowHash(l.prev, Core(l))
  <2>1. c \in Below(q, C)
    BY <1>3 DEF Below
  <2>2. q.prev = TipOf(m, Below(q, C)) /\ l.hash = RowHash(l.prev, Core(l))
    BY <1>3, <1>4 DEF VerifyChain
  <2>. QED
    BY <2>1, <2>2 DEF TipOf
<1>6. q.prev = TipOf(m, Below(q, S))
  BY <1>3 DEF VerifyChain
<1>7. CASE Below(q, S) = {}
  <2>1. q.prev = GenesisHash(m)
    BY <1>6, <1>7 DEF TipOf
  <2>. QED
    BY <1>4, <1>5, <2>1, HashesTellRows DEF Core, Rows
<1>8. CASE Below(q, S) # {}
  <2>1. Below(q, S) \in SUBSET Rows /\ \A r \in Below(q, S) : r.id <= b
    BY DEF Below
  <2>2. k \in S /\ k \in Rows /\ k.id < q.id
    BY <1>8, <2>1, LastRow DEF Below
  <2>3. k.hash = q.prev /\ k.hash = RowHash(k.prev, Core(k))
    BY <1>6, <1>8, <2>2 DEF TipOf, VerifyChain
  <2>4. RowHash(k.prev, <<k.id, k.at>>) = RowHash(l.prev, <<l.id, l.at>>)
    BY <1>5, <2>3 DEF Core
  <2>5. k.id = l.id
    <3> HIDE DEF k, l
    <3>1. k.prev \in Hashes /\ l.prev \in Hashes /\ k.id \in Nat /\ k.at \in Nat
             /\ l.id \in Nat /\ l.at \in Nat
      BY <1>4, <2>2 DEF Rows
    <3>. QED
      BY <2>4, <3>1, HashesTellRows
  <2>6. c.id < k.id
    <3> HIDE DEF k, l
    <3>1. c.id # k.id /\ c.id <= k.id
      BY <1>4, <2>2, <2>5
    <3>. QED
      BY <1>3, <2>2, <3>1 DEF Rows
  <2>7. q.id <= k.id
    BY <1>2, <2>2, <2>6
  <2>. QED
    BY <1>3, <2>2, <2>7 DEF Rows
<1>. QED
  BY <1>7, <1>8

\* No chain verifies with a row whose hash has changed: it shows at the first
\* row above it, or at the head.
LEMMA RestampShows ==
    ASSUME NEW m \in Months, NEW C \in SUBSET Rows, NEW b \in Nat, NEW h,
           \A q \in C : q.id <= b,
           \A p, q \in C : p.id = q.id => p = q,
           NEW r \in C, NEW n \in Rows, n.id = r.id, n.hash # r.hash,
           VerifyChain(m, C, h)
    PROVE  ~VerifyChain(m, (C \ {r}) \cup {n}, h)
<1> SUFFICES ASSUME VerifyChain(m, (C \ {r}) \cup {n}, h) PROVE FALSE
  OBVIOUS
<1> DEFINE S == (C \ {r}) \cup {n}
           Above == {q \in C : r.id < q.id}
           rest(q) == Below(q, C) \ {r}
<1>1. r \in Rows /\ \A q \in C : q \in Rows /\ (q # r => q.id # r.id)
  OBVIOUS
<1>2. CASE Above = {}
  <2>1. \A q \in C \ {r} : q.id < r.id
    BY <1>1, <1>2 DEF Rows
  <2>2. Last((C \ {r}) \cup {r}) = r /\ Last(S) = n
    BY <1>1, <2>1, LastIsGreatest
  <2>3. (C \ {r}) \cup {r} = C
    OBVIOUS
  <2>4. TipOf(m, C) = r.hash /\ TipOf(m, S) = n.hash
    BY <2>2, <2>3 DEF TipOf
  <2>. QED
    BY <2>4 DEF VerifyChain
<1>3. CASE Above # {}
  <2>1. PICK q \in Above : \A p \in Above : q.id <= p.id
    <3>1. Above \in SUBSET Rows
      OBVIOUS
    <3> HIDE DEF Above
    <3>. QED
      BY <1>3, <3>1, FirstRow
  <2>2. q \in C /\ q \in S /\ q \in Rows /\ r.id < q.id
    BY <1>1 DEF Rows
  <2>3. \A p \in rest(q) : p.id < r.id
    BY <1>1, <2>1, <2>2 DEF Below, Rows
  <2>4. rest(q) \cup {r} = Below(q, C) /\ rest(q) \cup {n} = Below(q, S)
    BY <2>2 DEF Below
  <2>5. Last(rest(q) \cup {r}) = r /\ Last(rest(q) \cup {n}) = n
    <3>1. rest(q) \in SUBSET Rows
      BY DEF Below
    <3>2. \A p \in rest(q) : p.id < n.id
      BY <2>3
    <3>. QED
      BY <1>1, <2>3, <3>1, <3>2, LastIsGreatest
  <2>6. TipOf(m, Below(q, C)) = r.hash /\ TipOf(m, Below(q, S)) = n.hash
    BY <2>4, <2>5 DEF TipOf
  <2>. QED
    BY <2>2, <2>6 DEF VerifyChain
<1>. QED
  BY <1>2, <1>3

\* What the windows of the months need of division.
LEMMA Quotients ==
    ASSUME NEW a \in Nat, NEW k \in Nat, k > 0
    PROVE  /\ a % k \in Nat
           /\ \A m \in Nat : m * k <= a /\ a < (m + 1) * k => a \div k = m
<1>1. a % k \in Nat
  OBVIOUS
<1>2. ASSUME NEW m \in Nat, m * k <= a, a < (m + 1) * k PROVE a \div k = m
  BY <1>2
<1>. QED
  BY <1>1, <1>2

\* What was received in the window of a month is a part of its chain.
LEMMA WindowsAreMonths ==
    ASSUME NEW m \in Nat, NEW r \in Rows, InWindow(m, r)
    PROVE  Month[r.at] = m
<1>1. /\ r.at \in Nat /\ MonthLength \in Nat /\ MonthLength > 0
      /\ SecondLength \in Nat /\ SecondLength > 0
  BY ConstantsAssumption DEF Rows
<1> DEFINE next == (m + 1) * MonthLength
<1>2. next \in Nat /\ next - 1 \in Nat
  BY <1>1
<1>3. m * MonthLength <= r.at /\ r.at < next
  <2>1. MonthEnd(m) = (next - 1) - ((next - 1) % SecondLength)
    BY DEF MonthEnd, MonthStart
  <2> HIDE DEF next
  <2>2. (next - 1) % SecondLength \in Nat
    BY <1>1, <1>2, Quotients
  <2>. QED
    BY <1>1, <1>2, <2>1, <2>2 DEF InWindow, MonthStart
<1>4. r.at \div MonthLength = m
  BY <1>1, <1>3, Quotients
<1>. QED
  BY <1>1, <1>4 DEF Month

LEMMA ChainFacts ==
    ASSUME IInv, IdsAreUnique, NEW m \in Months
    PROVE  /\ Chain(m) \in SUBSET Rows /\ IsFiniteSet(Chain(m))
           /\ seq \in Nat /\ \A r \in Chain(m) : r.id <= seq
           /\ \A q, r \in Chain(m) : q.id = r.id => q = r
           /\ VerifyChain(m, Chain(m), head[m])
<1>1. Chain(m) \in SUBSET auditLog
  BY DEF Chain, Chained
<1>. QED
  BY <1>1, FS_Subset DEF IInv, TypeOK, IdsAreUnique, IdsGrow, ChainVerifies

LEMMA CompletenessHolds == IInv /\ ExportInv => VerifiedMeansComplete
<1> SUFFICES ASSUME IInv, ExportInv, NEW x \in Verifiers, VerdictOK(x),
                    NEW r \in Chain(month[x]), r \notin Chained(entries[x]),
                    NEW q \in Chained(entries[x])
             PROVE  q.id < r.id
  BY DEF VerifiedMeansComplete
<1> DEFINE m == month[x]
<1>1. m \in Months /\ m \in Nat
  BY MonthsAreNumbers DEF IInv, TypeOK
<1>2. Chained(entries[x]) \in SUBSET Chain(m)
  <2>1. ASSUME NEW p \in Chained(entries[x]) PROVE p \in Chain(m)
    <3>1. p \in auditLog /\ p \in Rows /\ InWindow(m, p) /\ p.hash # NoHash
      BY <2>1 DEF ExportInv, Progress, Chained, IInv, TypeOK
    <3>2. Month[p.at] = m
      BY <1>1, <3>1, WindowsAreMonths
    <3>. QED
      BY <3>1, <3>2 DEF Chain, Chained
  <2>. QED
    BY <2>1
<1>. QED
  BY <1>1, <1>2, ChainFacts, VerifiedPartsAreWhole DEF ExportInv, VerdictOK

LEMMA EditsShow == IInv /\ ExportInv => EditsAreDetected
<1> SUFFICES ASSUME IInv, ExportInv, NEW m \in Months, NEW S \in Edits(Chain(m)),
                    S # Chain(m), VerifyChain(m, S, head[m])
             PROVE  FALSE
  BY DEF EditsAreDetected
<1> DEFINE C == Chain(m)
           h == head[m]
<1>1. /\ C \in SUBSET Rows /\ IsFiniteSet(C) /\ Cardinality(C) \in Nat
      /\ seq \in Nat /\ \A r \in C : r.id <= seq
      /\ \A q, r \in C : q.id = r.id => q = r
      /\ VerifyChain(m, C, h)
  BY ChainFacts, FS_CardinalityType DEF ExportInv
<1> HIDE DEF C
<1>2. Cardinality(S) = Cardinality(C)
  BY <1>1 DEF VerifyChain
<1>3. ASSUME NEW r \in C, S = C \ {r} PROVE FALSE
  <2>1. Cardinality(C \ {r}) = Cardinality(C) - 1
    BY <1>1, FS_RemoveElement
  <2>. QED
    BY <1>1, <1>2, <1>3, <2>1
<1>4. ASSUME NEW r \in C, NEW at \in Stamps PROVE r \in Rows /\ at \in Nat
  BY <1>1, ConstantsAssumption
<1>5. ASSUME NEW r \in C, NEW at \in Stamps,
             S = (C \ {r}) \cup {Restamped(r, at)}
      PROVE  FALSE
  <2> DEFINE n == Restamped(r, at)
  <2>1. n.id = r.id /\ n.at = at /\ n.prev = r.prev /\ n.hash = r.hash /\ n \in S
    BY <1>4, <1>5 DEF Restamped, Rows
  <2>2. RowHash(r.prev, <<r.id, r.at>>) = RowHash(r.prev, <<r.id, at>>)
    BY <1>1, <2>1 DEF VerifyChain, Core
  <2>3. r.at = at
    BY <1>4, <2>2, HashesTellRows DEF Rows
  <2>4. n = r
    BY <1>4, <2>3 DEF Restamped, Rows
  <2>. QED
    BY <1>5, <2>4 DEF C
<1>6. ASSUME NEW r \in C, NEW at \in Stamps,
             S = (C \ {r}) \cup {Rehashed(r, at)}
      PROVE  FALSE
  <2> DEFINE n == Rehashed(r, at)
  <2>1. r.hash = RowHash(r.prev, <<r.id, r.at>>)
    BY <1>1 DEF VerifyChain, Core
  <2>2. RowHash(r.prev, <<r.id, at>>) \in Hashes
    BY <1>4, RowHashIsAHash DEF Rows
  <2>3. n \in Rows /\ n.id = r.id /\ n.hash = RowHash(r.prev, <<r.id, at>>)
    BY <1>4, <2>2 DEF Rehashed, Rows
  <2>4. CASE at = r.at
    <3>1. n = r
      BY <1>4, <2>1, <2>4 DEF Rehashed, Rows
    <3>. QED
      BY <1>6, <3>1 DEF C
  <2>5. CASE at # r.at
    <3>1. n.hash # r.hash
      BY <1>4, <2>1, <2>3, <2>5, HashesTellRows DEF Rows
    <3>. QED
      BY <1>1, <1>6, <2>3, <3>1, RestampShows
  <2>. QED
    BY <2>4, <2>5
<1>7. ASSUME NEW r \in C, S = C \cup {Forged(r)} PROVE FALSE
  <2>1. Forged(r) \notin C
    BY <1>1 DEF Forged
  <2>2. Cardinality(C \cup {Forged(r)}) = Cardinality(C) + 1
    BY <1>1, <2>1, FS_AddElement
  <2>. QED
    BY <1>1, <1>2, <1>7, <2>2
<1>8. S \in Edits(C)
  BY DEF C
<1>. QED
  BY <1>3, <1>5, <1>6, <1>7, <1>8 DEF Edits

\* A month that verifies was received whole, and no edit of it verifies.
THEOREM VerdictsHold == Spec => []VerdictsAreRight
<1>1. IInv /\ ExportInv /\ [Next]_vars => ExportInv'
  BY ExportPreserved
<1>2. IInv /\ ExportInv => VerdictsAreRight
  BY CompletenessHolds, EditsShow DEF VerdictsAreRight
<1>. QED
  BY InitExport, InductiveInvariant, <1>1, <1>2, PTL DEF Spec

-----------------------------------------------------------------------------
(* Both tables are listed in keyset pages, and each brings the definitions   *)
(* of Keyset with it.                                                        *)

LEMMA SameFinite ==
    ASSUME NEW S
    PROVE  /\ RecordLog!IsFiniteSet(S) <=> IsFiniteSet(S)
           /\ IncidentList!IsFiniteSet(S) <=> IsFiniteSet(S)
BY DEF RecordLog!IsFiniteSet, IncidentList!IsFiniteSet, IsFiniteSet

LEMMA SameSize ==
    ASSUME NEW S
    PROVE  /\ RecordLog!Cardinality(S) = Cardinality(S)
           /\ IncidentList!Cardinality(S) = Cardinality(S)
BY DEF RecordLog!Cardinality, IncidentList!Cardinality, Cardinality

-----------------------------------------------------------------------------
(* The audit rows that are kept.                                             *)

LEMMA RecordInit == RecordLog!Init => RecordLog!IInv
<1> SUFFICES ASSUME RecordLog!Init PROVE RecordLog!IInv
  OBVIOUS
<1> USE RecordsAssumption DEF RecordLog!Init, RecordLog!NoJob
<1>1. RecordLog!TypeOK
  BY FS_EmptySet, SameFinite DEF RecordLog!TypeOK
<1>2. RecordLog!RowsAreOwn /\ RecordLog!NobodyIsLate
  BY DEF RecordLog!RowsAreOwn, RecordLog!NobodyIsLate
<1>3. RecordLog!RunsCreate /\ RecordLog!RunsArchiveFirst
  BY DEF RecordLog!RunsCreate, RecordLog!RunsArchiveFirst
<1>4. RecordLog!RecordsAreKept
  BY DEF RecordLog!RecordsAreKept
<1>. QED
  BY <1>1, <1>2, <1>3, <1>4 DEF RecordLog!IInv

\* The oldest month of a job that drops is one of those it listed.
LEMMA OldestIsListed ==
    ASSUME RecordLog!TypeOK, NEW j \in Jobs, rJob[j].old # {}
    PROVE  RecordLog!Oldest(j) \in rJob[j].old
<1>1. rJob[j].old \subseteq Nat
  BY DEF RecordLog!TypeOK
<1>2. \E m \in rJob[j].old : \A k \in rJob[j].old : m <= k
  BY <1>1, LeastOf
<1>. QED
  BY <1>2 DEF RecordLog!Oldest

LEMMA RecordTypes ==
    ASSUME RecordLog!TypeOK, RecordLog!NobodyIsLate, RecordLog!Next
    PROVE  RecordLog!TypeOK'
<1> USE RecordsAssumption DEF RecordLog!TypeOK
<1>1. CASE RecordLog!Tick
  BY <1>1 DEF RecordLog!Tick
<1>2. ASSUME NEW w \in Recorders, RecordLog!Stamp(w) PROVE RecordLog!TypeOK'
  BY <1>2 DEF RecordLog!Stamp
<1>3. ASSUME NEW w \in Recorders, RecordLog!InsertAuditLog(w) PROVE RecordLog!TypeOK'
  <2>1. /\ rWriter' \in [Recorders -> [at : {"idle", "stamped", "recorded", "refused"}, stamp : Nat]]
        /\ rNextId' \in Nat
        /\ UNCHANGED <<rNow, rParts, rJob, rCovered>>
    BY <1>3 DEF RecordLog!InsertAuditLog
  <2>2. \A x \in rWritten' :
           x \in rWritten \/ x = [id |-> rNextId, at |-> rWriter[w].stamp, kind |-> Kind[w]]
    BY <1>3 DEF RecordLog!InsertAuditLog
  <2>3. \A x \in rWritten' : x.at \in Nat /\ x.id \in Nat /\ x.kind \in RecordLog!Kinds
    BY <2>2 DEF RecordLog!Kinds
  <2>4. RecordLog!IsFiniteSet(rWritten')
    <3> DEFINE row == [id |-> rNextId, at |-> rWriter[w].stamp, kind |-> Kind[w]]
    <3>1. rWritten' = rWritten \/ rWritten' = rWritten \cup {row}
      BY <1>3 DEF RecordLog!InsertAuditLog
    <3>2. IsFiniteSet(rWritten) /\ IsFiniteSet(rWritten \cup {row})
      BY FS_AddElement, SameFinite
    <3>. QED
      BY <3>1, <3>2, SameFinite
  <2>. QED
    BY <2>1, <2>3, <2>4
<1>4. ASSUME NEW j \in Jobs, RecordLog!Rollover(j) PROVE RecordLog!TypeOK'
  <2>1. /\ rJob' \in [Jobs -> [at : {"idle", "creating", "archiving", "dropping"},
                               now : Nat, next : Nat, old : SUBSET Nat]]
        /\ UNCHANGED <<rNow, rParts, rWriter, rNextId, rWritten, rCovered>>
    BY <1>4 DEF RecordLog!Rollover, RecordLog!NobodyIsLate
  <2>. QED
    BY <2>1
<1>5. ASSUME NEW j \in Jobs, RecordLog!CreateMonthlyPartition(j) PROVE RecordLog!TypeOK'
  BY <1>5 DEF RecordLog!CreateMonthlyPartition
<1>6. ASSUME NEW j \in Jobs, RecordLog!ListPartitionMonths(j) PROVE RecordLog!TypeOK'
  BY <1>6 DEF RecordLog!ListPartitionMonths, RecordLog!Old
<1>7. ASSUME NEW j \in Jobs, RecordLog!ArchiveDeleteAppRows(j) PROVE RecordLog!TypeOK'
  BY <1>7 DEF RecordLog!ArchiveDeleteAppRows
<1>8. ASSUME NEW j \in Jobs, RecordLog!DropMonthlyPartition(j) PROVE RecordLog!TypeOK'
  BY <1>8 DEF RecordLog!DropMonthlyPartition
<1>9. ASSUME NEW j \in Jobs, RecordLog!End(j) PROVE RecordLog!TypeOK'
  BY <1>9 DEF RecordLog!End, RecordLog!NoJob
<1>10. ASSUME NEW r \in LogReaders, RecordLog!ListAuditLog(r) PROVE RecordLog!TypeOK'
  BY <1>10 DEF RecordLog!ListAuditLog
<1>. QED
  BY <1>1, <1>2, <1>3, <1>4, <1>5, <1>6, <1>7, <1>8, <1>9, <1>10 DEF RecordLog!Next

LEMMA RecordPreserves ==
    ASSUME RecordLog!IInv, RecordLog!Next, RecordLog!TypeOK'
    PROVE  RecordLog!IInv'
<1> USE RecordsAssumption DEF RecordLog!IInv, RecordLog!TypeOK, RecordLog!RowsAreOwn,
        RecordLog!NobodyIsLate, RecordLog!RunsCreate, RecordLog!RunsArchiveFirst,
        RecordLog!RecordsAreKept, RecordLog!Kept
<1>0. ASSUME NEW j \in Jobs, rJob'[j].old = rJob[j].old
      PROVE  RecordLog!Oldest(j)' = RecordLog!Oldest(j)
  BY <1>0 DEF RecordLog!Oldest
<1>1. CASE RecordLog!Tick
  BY <1>0, <1>1 DEF RecordLog!Tick
<1>2. ASSUME NEW w \in Recorders, RecordLog!Stamp(w) PROVE RecordLog!IInv'
  BY <1>0, <1>2 DEF RecordLog!Stamp
<1>3. ASSUME NEW w \in Recorders, RecordLog!InsertAuditLog(w) PROVE RecordLog!IInv'
  <2> DEFINE row == [id |-> rNextId, at |-> rWriter[w].stamp, kind |-> Kind[w]]
  <2>1. CASE UNCHANGED <<rLog, rWritten>>
    BY <1>0, <1>3, <2>1 DEF RecordLog!InsertAuditLog
  <2>2. CASE rLog' = rLog \cup {row} /\ rWritten' = rWritten \cup {row}
    <3>0. row \notin rWritten
      OBVIOUS
    <3>1. /\ rNextId' = rNextId + 1 /\ rWriter[w].at = "stamped"
          /\ rWriter' = [rWriter EXCEPT ![w].at = "recorded"]
          /\ UNCHANGED <<rNow, rParts, rArchive, rJob, rCovered>>
      BY <1>3, <2>2, <3>0 DEF RecordLog!InsertAuditLog
    <3>2. row.id = rNextId /\ row.at \in {rNow - 1, rNow} /\ row \notin rWritten
      BY <3>0, <3>1
    <3>3. RecordLog!RowsAreOwn'
      BY <2>2, <3>1, <3>2
    <3>4. RecordLog!NobodyIsLate' /\ RecordLog!RunsCreate'
      BY <3>1
    <3>5. ASSUME NEW j \in Jobs, rJob[j].at = "dropping", NEW x \in rLog',
                 x.at = RecordLog!Oldest(j)
          PROVE  x.kind = "other"
      <4>1. RecordLog!Oldest(j) \in rJob[j].old
        BY <3>5, OldestIsListed
      <4>2. RecordLog!Oldest(j) < rNow - 1
        BY <3>5, <4>1
      <4>3. x # row
        BY <3>2, <3>5, <4>2
      <4>. QED
        BY <2>2, <3>5, <4>3
    <3>6. RecordLog!RunsArchiveFirst'
      BY <3>1, <3>5 DEF RecordLog!Oldest
    <3>7. RecordLog!RecordsAreKept'
      BY <2>2, <3>1, <3>2
    <3>. QED
      BY <3>3, <3>4, <3>6, <3>7
  <2>. QED
    BY <1>3, <2>1, <2>2 DEF RecordLog!InsertAuditLog
<1>4. ASSUME NEW j \in Jobs, RecordLog!Rollover(j) PROVE RecordLog!IInv'
  BY <1>0, <1>4 DEF RecordLog!Rollover
<1>5. ASSUME NEW j \in Jobs, RecordLog!CreateMonthlyPartition(j) PROVE RecordLog!IInv'
  <2>1. /\ rJob[j].at = "creating"
        /\ rParts' = rParts \cup {rJob[j].next}
        /\ rJob' = [rJob EXCEPT ![j].next = @ + 1]
        /\ UNCHANGED <<rNow, rLog, rArchive, rWriter, rNextId, rWritten, rCovered>>
    BY <1>5 DEF RecordLog!CreateMonthlyPartition
  <2>2. /\ \A k \in Jobs : /\ rJob'[k].at = rJob[k].at /\ rJob'[k].now = rJob[k].now
                           /\ rJob'[k].old = rJob[k].old
        /\ \A k \in Jobs \ {j} : rJob'[k].next = rJob[k].next
        /\ rJob'[j].next = rJob[j].next + 1
    BY <2>1
  <2>3. RecordLog!RowsAreOwn' /\ RecordLog!NobodyIsLate' /\ RecordLog!RecordsAreKept'
    BY <2>1, <2>2
  <2>4. RecordLog!RunsArchiveFirst'
    BY <2>1, <2>2 DEF RecordLog!Oldest
  <2>5. RecordLog!RunsCreate'
    <3>1. ASSUME NEW m \in rJob[j].now - 1 .. rJob'[j].next - 1, RecordLog!Kept(m)
          PROVE  m \in rParts'
      BY <2>1, <2>2, <3>1
    <3>. QED
      BY <2>1, <2>2, <3>1
  <2>. QED
    BY <2>3, <2>4, <2>5
<1>6. ASSUME NEW j \in Jobs, RecordLog!ListPartitionMonths(j) PROVE RecordLog!IInv'
  <2>1. /\ rJob[j].at = "creating" /\ ~(rJob[j].next <= rJob[j].now + Lookahead)
        /\ rJob' = [rJob EXCEPT ![j].at = "archiving", ![j].old = RecordLog!Old(j)]
        /\ rCovered' = IF rJob[j].now > rCovered THEN rJob[j].now ELSE rCovered
        /\ UNCHANGED <<rNow, rParts, rLog, rArchive, rWriter, rNextId, rWritten>>
    BY <1>6 DEF RecordLog!ListPartitionMonths, RecordLog!ToCreate
  <2>2. /\ \A k \in Jobs : rJob'[k].now = rJob[k].now /\ rJob'[k].next = rJob[k].next
        /\ \A k \in Jobs \ {j} : rJob'[k].at = rJob[k].at /\ rJob'[k].old = rJob[k].old
        /\ rJob'[j].at = "archiving"
        /\ rJob'[j].old = RecordLog!Old(j)
    BY <2>1
  <2>3. RecordLog!RowsAreOwn' /\ RecordLog!NobodyIsLate' /\ RecordLog!RecordsAreKept'
    BY <2>1, <2>2
  <2>4. RecordLog!RunsArchiveFirst'
    <3>1. \A m \in rJob'[j].old : m < rJob'[j].now - Retention
      BY <2>2 DEF RecordLog!Old
    <3>2. \A k \in Jobs \ {j} : RecordLog!Oldest(k)' = RecordLog!Oldest(k)
      BY <2>2 DEF RecordLog!Oldest
    <3>. QED
      BY <2>1, <2>2, <3>1, <3>2
  <2>5. RecordLog!RunsCreate'
    BY <2>1, <2>2
  <2>. QED
    BY <2>3, <2>4, <2>5
<1>7. ASSUME NEW j \in Jobs, RecordLog!ArchiveDeleteAppRows(j) PROVE RecordLog!IInv'
  <2> DEFINE moved == RecordLog!ToArchive(RecordLog!Oldest(j))
  <2>1. /\ rJob[j].at = "archiving" /\ rJob[j].old # {}
        /\ rLog' = rLog \ moved /\ rArchive' = rArchive \cup moved
        /\ rJob' = [rJob EXCEPT ![j].at = "dropping"]
        /\ UNCHANGED <<rNow, rParts, rWriter, rNextId, rWritten, rCovered>>
    BY <1>7 DEF RecordLog!ArchiveDeleteAppRows
  <2>2. RecordLog!Oldest(j) < rNow - Retention
    BY <2>1, OldestIsListed
  <2>3. /\ \A k \in Jobs : /\ rJob'[k].now = rJob[k].now /\ rJob'[k].next = rJob[k].next
                           /\ rJob'[k].old = rJob[k].old
        /\ \A k \in Jobs \ {j} : rJob'[k].at = rJob[k].at
        /\ rJob'[j].at = "dropping"
    BY <2>1
  <2>4. \A x \in moved : x \in rLog /\ x.at = RecordLog!Oldest(j)
    BY DEF RecordLog!ToArchive
  <2>5. \A x \in rLog : x.at = RecordLog!Oldest(j) /\ x \notin moved =>
           x.kind \notin {"delete_app", "delete_app_confirm"}
    BY DEF RecordLog!ToArchive
  <2>6. RecordLog!RowsAreOwn' /\ RecordLog!NobodyIsLate' /\ RecordLog!RunsCreate'
    BY <2>1, <2>3, <2>4
  <2>7. \A x \in rLog' : x.at = RecordLog!Oldest(j) => x.kind = "other"
    BY <2>1, <2>5 DEF RecordLog!Kinds
  <2>8. RecordLog!RunsArchiveFirst'
    <3>1. ASSUME NEW k \in Jobs, rJob'[k].at = "dropping"
          PROVE  /\ rJob'[k].old # {}
                 /\ \A x \in rLog' : x.at = RecordLog!Oldest(k)' => x.kind = "other"
      <4>1. RecordLog!Oldest(k)' = RecordLog!Oldest(k)
        BY <2>3 DEF RecordLog!Oldest
      <4>2. CASE k = j
        BY <2>1, <2>3, <2>7, <4>1, <4>2
      <4>3. CASE k # j
        BY <2>1, <2>3, <3>1, <4>1, <4>3
      <4>. QED
        BY <4>2, <4>3
    <3>2. \A k \in Jobs : \A m \in rJob'[k].old : m < rJob'[k].now - Retention
      BY <2>3
    <3>. QED
      BY <3>1, <3>2
  <2>9. RecordLog!RecordsAreKept'
    <3>1. ASSUME NEW x \in rWritten, x.at >= rNow - Retention PROVE x \in rLog'
      BY <2>1, <2>2, <2>4, <3>1
    <3>2. ASSUME NEW x \in rWritten, x.kind # "other"
          PROVE  (x \in rLog') # (x \in rArchive')
      <4>1. x \in moved => x \in rLog
        BY <2>4
      <4>2. (x \in rLog) # (x \in rArchive)
        BY <3>2
      <4>. QED
        BY <2>1, <4>1, <4>2
    <3>. QED
      BY <2>1, <3>1, <3>2
  <2>. QED
    BY <2>6, <2>8, <2>9
<1>8. ASSUME NEW j \in Jobs, RecordLog!DropMonthlyPartition(j) PROVE RecordLog!IInv'
  <2> DEFINE gone == RecordLog!Oldest(j)
  <2>1. /\ rJob[j].at = "dropping"
        /\ rParts' = rParts \ {gone} /\ rLog' = {x \in rLog : x.at # gone}
        /\ rJob' = [rJob EXCEPT ![j].at = "archiving", ![j].old = rJob[j].old \ {gone}]
        /\ UNCHANGED <<rNow, rArchive, rWriter, rNextId, rWritten, rCovered>>
    BY <1>8 DEF RecordLog!DropMonthlyPartition
  <2>2. /\ gone < rNow - Retention
        /\ \A x \in rLog : x.at = gone => x.kind = "other"
    BY <2>1, OldestIsListed
  <2>3. /\ \A k \in Jobs : rJob'[k].now = rJob[k].now /\ rJob'[k].next = rJob[k].next
        /\ \A k \in Jobs \ {j} : rJob'[k].at = rJob[k].at /\ rJob'[k].old = rJob[k].old
        /\ rJob'[j].at = "archiving" /\ rJob'[j].old \subseteq rJob[j].old
    BY <2>1
  <2> HIDE DEF gone
  <2>4. RecordLog!RowsAreOwn' /\ RecordLog!NobodyIsLate'
    BY <2>1, <2>3
  <2>5. RecordLog!RunsCreate'
    BY <2>1, <2>2, <2>3
  <2>6. RecordLog!RunsArchiveFirst'
    BY <1>0, <2>1, <2>3
  <2>7. RecordLog!RecordsAreKept'
    BY <2>1, <2>2
  <2>. QED
    BY <2>4, <2>5, <2>6, <2>7
<1>9. ASSUME NEW j \in Jobs, RecordLog!End(j) PROVE RecordLog!IInv'
  BY <1>0, <1>9 DEF RecordLog!End, RecordLog!NoJob
<1>10. ASSUME NEW r \in LogReaders, RecordLog!ListAuditLog(r) PROVE RecordLog!IInv'
  BY <1>0, <1>10 DEF RecordLog!ListAuditLog
<1>. QED
  BY <1>1, <1>2, <1>3, <1>4, <1>5, <1>6, <1>7, <1>8, <1>9, <1>10 DEF RecordLog!Next

LEMMA RecordStutters ==
    ASSUME RecordLog!IInv, UNCHANGED rVars
    PROVE  RecordLog!IInv'
BY DEF rVars, RecordLog!IInv, RecordLog!TypeOK, RecordLog!RowsAreOwn, RecordLog!NobodyIsLate,
       RecordLog!RunsCreate, RecordLog!RunsArchiveFirst, RecordLog!RecordsAreKept,
       RecordLog!Kept, RecordLog!Oldest

\* Which of the three a step of the trail moves.
LEMMA TrailSteps ==
    ASSUME [TrailNext]_TrailVars
    PROVE  /\ RecordLog!Next \/ UNCHANGED rVars
           /\ IncidentList!Next \/ UNCHANGED iVars
           /\ UNCHANGED iVars => UNCHANGED IncidentList!vars
BY DEF TrailNext, TrailVars, ChainMoves, RecordMoves, IncidentMoves, rVars, iVars,
       IncidentList!vars

LEMMA RecordInvariant == TrailSpec => []RecordLog!IInv
<1>1. TrailInit => RecordLog!IInv
  BY RecordInit DEF TrailInit
<1>2. RecordLog!IInv /\ [TrailNext]_TrailVars => RecordLog!IInv'
  <2> SUFFICES ASSUME RecordLog!IInv, [TrailNext]_TrailVars PROVE RecordLog!IInv'
    OBVIOUS
  <2>1. ASSUME RecordLog!Next PROVE RecordLog!IInv'
    <3>1. RecordLog!TypeOK /\ RecordLog!NobodyIsLate
      BY DEF RecordLog!IInv
    <3>. QED
      BY <2>1, <3>1, RecordTypes, RecordPreserves
  <2>. QED
    BY <2>1, RecordStutters, TrailSteps
<1>. QED
  BY <1>1, <1>2, PTL DEF TrailSpec

\* Whatever writes are late and whatever runs of the rollover overlap or die
\* half-way, the record of a deletion is in the log or in the archive, and not
\* in both, and every row is in the log for the whole retention (Rollover,
\* ArchiveDeleteAppRows, DropMonthlyPartition).
THEOREM DeletionsStayRecorded == TrailSpec => []RecordsAreKept
<1>1. RecordLog!IInv => RecordsAreKept
  BY DEF RecordLog!IInv, RecordsAreKept
<1>. QED
  BY RecordInvariant, <1>1, PTL

\* Nothing that runs beside it takes away a partition that a rollover created
\* and that a write still needs (CreateMonthlyPartition, DropMonthlyPartition).
THEOREM PartitionsAreFound == TrailSpec => []WritesFindPartitions
<1>1. ASSUME RecordLog!IInv, rNow <= rCovered + Lookahead, NEW w \in Recorders,
             rWriter[w].at = "stamped"
      PROVE  rWriter[w].stamp \in rParts
  BY <1>1, RecordsAssumption DEF RecordLog!IInv, RecordLog!TypeOK, RecordLog!NobodyIsLate,
     RecordLog!RunsCreate, RecordLog!Kept
<1>2. RecordLog!IInv => WritesFindPartitions
  BY <1>1 DEF WritesFindPartitions, RecordLog!WritesFindPartitions
<1>. QED
  BY RecordInvariant, <1>2, PTL

-----------------------------------------------------------------------------
(* The incidents.                                                            *)

\* What closing makes of a row.
LEMMA ClosingFills ==
    ASSUME IncidentList!RowsAreOwn, NEW x \in iIncident, NEW c \in Closers
    PROVE  LET y == IncidentList!Closed(x, c)
           IN  /\ y = IncidentList!Row(y) /\ y.id = x.id /\ y.at = x.at /\ y.team = x.team
               /\ y.closed # Never /\ y.by # Nobody
               /\ x.closed # Never => y.closed = x.closed /\ y.by = x.by
               /\ x.note # NoNote => y.note = x.note
<1>1. /\ x = IncidentList!Row(x) /\ iClock # Never /\ c # Nobody
      /\ x.closed = Never <=> x.by = Nobody
  BY IncidentsAssumption DEF IncidentList!RowsAreOwn
<1>. QED
  BY <1>1 DEF IncidentList!Closed, IncidentList!Row

\* What a step does to the rows: nothing, a new one, or one is closed.
LEMMA IncidentSteps ==
    ASSUME IncidentList!Next
    PROVE  \/ UNCHANGED iIncident
           \/ \E i \in Incidents, t \in Teams :
                 /\ i \notin IncidentList!IdsOf(iIncident)
                 /\ iIncident' = iIncident \cup
                      {[id |-> i, team |-> t, at |-> iClock, closed |-> Never,
                        by |-> Nobody, note |-> NoNote]}
           \/ \E c \in Closers : \E x \in iIncident :
                 iIncident' = (iIncident \ {x}) \cup {IncidentList!Closed(x, c)}
BY DEF IncidentList!Next, IncidentList!Tick, IncidentList!Open, IncidentList!Load,
       IncidentList!CloseIncident, IncidentList!GetIncident, IncidentList!Log,
       IncidentList!ListIncidents

LEMMA IncidentPreserves ==
    ASSUME IncidentList!RowsAreOwn, IncidentList!Next
    PROVE  IncidentList!RowsAreOwn'
<1> USE DEF IncidentList!RowsAreOwn
<1>1. iClock' \in Nat
  BY DEF IncidentList!Next, IncidentList!Tick, IncidentList!Open, IncidentList!Load,
         IncidentList!CloseIncident, IncidentList!Log, IncidentList!ListIncidents
<1>2. CASE UNCHANGED iIncident
  BY <1>1, <1>2 DEF IncidentList!Row
<1>3. ASSUME NEW i \in Incidents, NEW t \in Teams,
             i \notin IncidentList!IdsOf(iIncident),
             iIncident' = iIncident \cup
                 {[id |-> i, team |-> t, at |-> iClock, closed |-> Never,
                   by |-> Nobody, note |-> NoNote]}
      PROVE  IncidentList!RowsAreOwn'
  <2>1. IncidentList!IsFiniteSet(iIncident')
    BY <1>3, FS_AddElement, SameFinite
  <2>. QED
    BY <1>1, <1>3, <2>1 DEF IncidentList!Row, IncidentList!IdsOf
<1>4. ASSUME NEW c \in Closers, NEW x \in iIncident,
             iIncident' = (iIncident \ {x}) \cup {IncidentList!Closed(x, c)}
      PROVE  IncidentList!RowsAreOwn'
  <2>1. IncidentList!IsFiniteSet(iIncident')
    BY <1>4, FS_AddElement, FS_RemoveElement, SameFinite
  <2>. QED
    BY <1>1, <1>4, <2>1, ClosingFills
<1>. QED
  BY <1>2, <1>3, <1>4, IncidentSteps

LEMMA IncidentInvariant == TrailSpec => []IncidentList!RowsAreOwn
<1>1. TrailInit => IncidentList!RowsAreOwn
  BY FS_EmptySet, SameFinite DEF TrailInit, IncidentList!Init, IncidentList!RowsAreOwn
<1>2. IncidentList!RowsAreOwn /\ UNCHANGED iVars => IncidentList!RowsAreOwn'
  BY DEF iVars, IncidentList!RowsAreOwn, IncidentList!Row
<1>3. IncidentList!RowsAreOwn /\ [TrailNext]_TrailVars => IncidentList!RowsAreOwn'
  BY <1>2, IncidentPreserves, TrailSteps
<1>. QED
  BY <1>1, <1>3, PTL DEF TrailSpec

\* Two closers that both found an incident open do not overwrite each other,
\* although the second UPDATE does not look at the status (CloseIncident).
THEOREM ClosuresAreFinal == TrailSpec => ClosuresStand
<1>1. ASSUME IncidentList!RowsAreOwn, IncidentList!Next,
             NEW x \in iIncident, x.closed # Never
      PROVE  \E y \in iIncident' :
                /\ y.id = x.id /\ y.closed = x.closed /\ y.by = x.by
                /\ x.note # NoNote => y.note = x.note
  BY <1>1, IncidentSteps, ClosingFills
<1>2. IncidentList!RowsAreOwn /\ [TrailNext]_TrailVars =>
        [\A x \in iIncident : x.closed # Never =>
           \E y \in iIncident' :
              /\ y.id = x.id /\ y.closed = x.closed /\ y.by = x.by
              /\ x.note # NoNote => y.note = x.note]_(IncidentList!vars)
  BY <1>1, TrailSteps
<1>. QED
  BY IncidentInvariant, <1>2, PTL DEF TrailSpec, ClosuresStand, IncidentList!ClosuresStand

-----------------------------------------------------------------------------
(* The pages of a listing.                                                   *)

\* Rows that the pairs (time, id) order.
Numbered(S) ==
    /\ \A x \in S : x.at \in Nat /\ x.id \in Nat
    /\ \A x, y \in S : x.id = y.id => x = y


LEMMA OlderIsAnOrder ==
    ASSUME NEW x, NEW y, NEW z,
           x.at \in Nat, x.id \in Nat, y.at \in Nat, y.id \in Nat, z.at \in Nat, z.id \in Nat
    PROVE  /\ ~Older(x, x)
           /\ Older(x, y) /\ Older(y, z) => Older(x, z)
           /\ Older(x, y) \/ Older(y, x) \/ x.id = y.id
BY DEF Older

\* A finite set of rows that is not empty has a newest row and an oldest one.
LEMMA Newest ==
    ASSUME NEW S, IsFiniteSet(S), Numbered(S), S # {}
    PROVE  \E m \in S : \A y \in S : ~Older(m, y)
<1> DEFINE newer(x) == {y \in S : Older(x, y)}
<1>1. \A x \in S : IsFiniteSet(newer(x)) /\ Cardinality(newer(x)) \in Nat
  BY FS_Subset, FS_CardinalityType
<1>2. PICK m \in S : \A y \in S : Cardinality(newer(m)) <= Cardinality(newer(y))
  <2> DEFINE ranks == {Cardinality(newer(x)) : x \in S}
  <2>1. ranks \in SUBSET Nat /\ ranks # {}
    BY <1>1
  <2> HIDE DEF newer
  <2>2. PICK k \in ranks : \A l \in ranks : k <= l
    BY <2>1, LeastOf
  <2>. QED
    BY <2>2
<1>3. ASSUME NEW y \in S, Older(m, y) PROVE FALSE
  <2>1. newer(y) \subseteq newer(m) /\ y \in newer(m) /\ y \notin newer(y)
    BY <1>3, OlderIsAnOrder DEF Numbered
  <2>2. Cardinality(newer(y)) <= Cardinality(newer(m)) /\ Cardinality(newer(y)) # Cardinality(newer(m))
    <3> HIDE DEF newer
    <3>. QED
      BY <1>1, <2>1, FS_Subset
  <2>. QED
    <3> HIDE DEF newer
    <3>. QED
      BY <1>1, <1>2, <2>2
<1>. QED
  BY <1>3

LEMMA OldestRow ==
    ASSUME NEW S, IsFiniteSet(S), Numbered(S), S # {}
    PROVE  \E m \in S : \A y \in S : ~Older(y, m)
<1> DEFINE older(x) == {y \in S : Older(y, x)}
<1>1. \A x \in S : IsFiniteSet(older(x)) /\ Cardinality(older(x)) \in Nat
  BY FS_Subset, FS_CardinalityType
<1>2. PICK m \in S : \A y \in S : Cardinality(older(m)) <= Cardinality(older(y))
  <2> DEFINE ranks == {Cardinality(older(x)) : x \in S}
  <2>1. ranks \in SUBSET Nat /\ ranks # {}
    BY <1>1
  <2> HIDE DEF older
  <2>2. PICK k \in ranks : \A l \in ranks : k <= l
    BY <2>1, LeastOf
  <2>. QED
    BY <2>2
<1>3. ASSUME NEW y \in S, Older(y, m) PROVE FALSE
  <2>1. older(y) \subseteq older(m) /\ y \in older(m) /\ y \notin older(y)
    BY <1>3, OlderIsAnOrder DEF Numbered
  <2>2. Cardinality(older(y)) <= Cardinality(older(m)) /\ Cardinality(older(y)) # Cardinality(older(m))
    <3> HIDE DEF older
    <3>. QED
      BY <1>1, <2>1, FS_Subset
  <2>. QED
    <3> HIDE DEF older
    <3>. QED
      BY <1>1, <1>2, <2>2
<1>. QED
  BY <1>3

\* The n newest rows of R: all of them, or those from their oldest on.
LEMMA PageIsACut ==
    ASSUME NEW R, IsFiniteSet(R), Numbered(R), NEW n \in Nat \ {0}
    PROVE  /\ NewestFirst(R, n) \subseteq R
           /\ NewestFirst(R, n) # R =>
                \E c \in NewestFirst(R, n) :
                   /\ {x \in NewestFirst(R, n) : \A y \in NewestFirst(R, n) : ~Older(y, x)} = {c}
                   /\ \A x \in NewestFirst(R, n) : ~Older(x, c)
                   /\ \A x \in R \ NewestFirst(R, n) : Older(x, c)
<1> DEFINE page == NewestFirst(R, n)
           newer(x) == {y \in R : Older(x, y)}
<1>1. page \subseteq R
  BY DEF NewestFirst
<1>2. ASSUME NEW x \in page, NEW y \in R, Older(x, y) PROVE y \in page
  <2>1. newer(y) \subseteq newer(x)
    BY <1>1, <1>2, OlderIsAnOrder DEF Numbered
  <2>2. IsFiniteSet(newer(x)) /\ IsFiniteSet(newer(y))
    BY FS_Subset
  <2>3. /\ Cardinality(newer(y)) <= Cardinality(newer(x))
        /\ Cardinality(newer(y)) \in Nat /\ Cardinality(newer(x)) \in Nat
    <3> HIDE DEF newer
    <3>. QED
      BY <2>1, <2>2, FS_Subset, FS_CardinalityType
  <2>4. Cardinality(newer(x)) < n
    BY DEF NewestFirst
  <2>5. Cardinality(newer(y)) < n
    BY <2>3, <2>4
  <2>. QED
    BY <2>5 DEF NewestFirst
<1>3. ASSUME page # R
      PROVE  \E c \in page :
                /\ {x \in page : \A y \in page : ~Older(y, x)} = {c}
                /\ \A x \in page : ~Older(x, c)
                /\ \A x \in R \ page : Older(x, c)
  <2>1. R # {}
    BY <1>1, <1>3
  <2>2. PICK m \in R : newer(m) = {}
    BY <2>1, Newest
  <2>3. m \in page
    <3>1. Cardinality(newer(m)) = 0
      BY <2>2, FS_EmptySet
    <3>. QED
      BY <3>1 DEF NewestFirst
  <2>4. IsFiniteSet(page) /\ Numbered(page)
    BY <1>1, FS_Subset DEF Numbered
  <2> HIDE DEF page, newer
  <2>5. PICK c \in page : \A y \in page : ~Older(y, c)
    BY <2>3, <2>4, OldestRow
  <2>6. ASSUME NEW d \in page, \A y \in page : ~Older(y, d) PROVE d = c
    BY <2>4, <2>5, <2>6, OlderIsAnOrder DEF Numbered
  <2>7. ASSUME NEW x \in R, x \notin page PROVE Older(x, c)
    BY <1>1, <1>2, <2>5, <2>7, OlderIsAnOrder DEF Numbered
  <2>. QED
    BY <2>5, <2>6, <2>7
<1>. QED
  BY <1>1, <1>3

\* The two tables bring the same pages with them.
LEMMA SamePages ==
    ASSUME NEW l, NEW S, NEW n
    PROVE  /\ RecordLog!Follow(l, S, n) = Follow(l, S, n)
           /\ IncidentList!Follow(l, S, n) = Follow(l, S, n)
<1>1. /\ \A x, y : RecordLog!Older(x, y) <=> Older(x, y)
      /\ \A x, y : IncidentList!Older(x, y) <=> Older(x, y)
  BY DEF RecordLog!Older, IncidentList!Older, Older
<1>2. /\ \A R, c : RecordLog!BelowCursor(R, c) = BelowCursor(R, c)
      /\ \A R, c : IncidentList!BelowCursor(R, c) = BelowCursor(R, c)
  BY <1>1 DEF RecordLog!BelowCursor, IncidentList!BelowCursor, BelowCursor
<1>3. ASSUME NEW R
      PROVE  /\ RecordLog!NewestFirst(R, n) = NewestFirst(R, n)
             /\ IncidentList!NewestFirst(R, n) = NewestFirst(R, n)
  <2> DEFINE newer(x) == {y \in R : Older(x, y)}
  <2>1. \A x : /\ {y \in R : RecordLog!Older(x, y)} = newer(x)
               /\ {y \in R : IncidentList!Older(x, y)} = newer(x)
    BY <1>1
  <2>2. /\ RecordLog!NewestFirst(R, n) = {x \in R : Cardinality(newer(x)) < n}
        /\ IncidentList!NewestFirst(R, n) = {x \in R : Cardinality(newer(x)) < n}
    <3> HIDE DEF newer
    <3>. QED
      BY <2>1, SameSize DEF RecordLog!NewestFirst, IncidentList!NewestFirst
  <2>. QED
    BY <2>2 DEF NewestFirst
<1>4. /\ \A c : RecordLog!NextPage(S, c, n) = NextPage(S, c, n)
      /\ \A c : IncidentList!NextPage(S, c, n) = NextPage(S, c, n)
  BY <1>1, <1>2, <1>3 DEF RecordLog!NextPage, IncidentList!NextPage, NextPage
<1>. QED
  BY <1>4 DEF RecordLog!Follow, IncidentList!Follow, Follow,
     RecordLog!IdsOf, IncidentList!IdsOf, IdsOf

-----------------------------------------------------------------------------
(* A listing l of the rows S, all of them among E: what it has is above its  *)
(* cursor, and what it has to show yet is below.                             *)

ListingOk(l, S, E) ==
    /\ l.at \in {"idle", "reading", "done"}
    /\ l.again = {}
    /\ l.at = "idle" => l.cursor = {} /\ l.seen = {} /\ l.start = {}
    /\ l.seen \subseteq IdsOf(E) /\ l.start \subseteq IdsOf(E)
    /\ \A c \in l.cursor : c.at \in Nat /\ c.id \in Nat
    /\ l.at # "done" => \A x \in E : x.id \in l.seen => x \notin BelowCursor(E, l.cursor)
    /\ l.at # "idle" => \A x \in S : x.id \in l.start =>
          x.id \in l.seen \/ (l.at = "reading" /\ x \in BelowCursor(S, l.cursor))

\* Another page keeps a listing in order.
LEMMA FollowKeeps ==
    ASSUME NEW l, NEW S, NEW E, NEW n \in Nat \ {0},
           S \subseteq E, IsFiniteSet(E), Numbered(E),
           ListingOk(l, S, E), l.at # "done"
    PROVE  ListingOk(Follow(l, S, n), S, E)
<1> DEFINE rest == BelowCursor(S, l.cursor)
           page == NewestFirst(rest, n)
           next == IF page = rest THEN {} ELSE {x \in page : \A y \in page : ~Older(y, x)}
           m == Follow(l, S, n)
<1>1. /\ m.at = IF next = {} THEN "done" ELSE "reading"
      /\ m.cursor = next
      /\ m.seen = l.seen \cup IdsOf(page)
      /\ m.again = l.again \cup (l.seen \cap IdsOf(page))
      /\ m.start = IF l.at = "idle" THEN IdsOf(S) ELSE l.start
  BY DEF Follow, NextPage
<1>2. rest \subseteq S /\ rest \subseteq BelowCursor(E, l.cursor)
  BY DEF BelowCursor
<1>3. IsFiniteSet(rest) /\ Numbered(rest)
  BY <1>2, FS_Subset DEF Numbered
<1>4. page \subseteq rest
  BY <1>3, PageIsACut
<1>5. page # rest =>
         \E c \in page : /\ next = {c}
                         /\ \A x \in page : ~Older(x, c)
                         /\ \A x \in rest \ page : Older(x, c)
  <2> HIDE DEF rest
  <2>. QED
    BY <1>3, PageIsACut
<1>6. l.at = "idle" => rest = S
  BY DEF ListingOk, BelowCursor
<1>7. l.seen \cap IdsOf(page) = {}
  <2> SUFFICES ASSUME NEW p \in page, p.id \in l.seen PROVE FALSE
    BY DEF IdsOf
  <2>. QED
    BY <1>2, <1>4 DEF ListingOk
<1>8. \A x \in S : x.id \in m.start => x.id \in l.seen \/ x \in rest
  BY <1>1, <1>6 DEF ListingOk
<1>9. m.again = {} /\ m.seen \subseteq IdsOf(E) /\ m.start \subseteq IdsOf(E)
  <2>1. IdsOf(page) \subseteq IdsOf(E) /\ IdsOf(S) \subseteq IdsOf(E)
    BY <1>2, <1>4 DEF IdsOf
  <2>. QED
    BY <1>1, <1>7, <2>1 DEF ListingOk
<1> HIDE DEF m, page, next
<1>10. CASE page = rest
  <2>1. next = {}
    BY <1>10 DEF next
  <2>2. \A x \in S : x.id \in m.start => x.id \in m.seen
    BY <1>1, <1>8, <1>10 DEF IdsOf
  <2>. QED
    BY <1>1, <1>9, <2>1, <2>2 DEF ListingOk, m
<1>11. CASE page # rest
  <2>1. PICK c \in page : /\ next = {c}
                          /\ \A x \in page : ~Older(x, c)
                          /\ \A x \in rest \ page : Older(x, c)
    BY <1>5, <1>11
  <2>2. c \in E /\ c \in rest /\ c.at \in Nat /\ c.id \in Nat
    BY <1>2, <1>4 DEF Numbered
  <2>3. ASSUME NEW x \in E, x.id \in m.seen PROVE ~Older(x, c)
    <3>1. CASE x.id \in l.seen
      <4>1. PICK d \in l.cursor : ~Older(x, d)
        BY <3>1, <1>4, <2>2, <1>1, <1>11 DEF ListingOk, BelowCursor
      <4>2. Older(c, d) /\ d.at \in Nat /\ d.id \in Nat
        BY <2>2 DEF BelowCursor, ListingOk
      <4>. QED
        BY <4>1, <4>2, <2>2, OlderIsAnOrder DEF Numbered
    <3>2. CASE x.id \in IdsOf(page)
      <4>1. PICK p \in page : p.id = x.id
        BY <3>2 DEF IdsOf
      <4>2. p = x
        BY <4>1, <1>2, <1>4 DEF Numbered
      <4>. QED
        BY <4>2, <2>1
    <3>. QED
      BY <2>3, <3>1, <3>2, <1>1
  <2>4. ASSUME NEW x \in S, x.id \in m.start
        PROVE  x.id \in m.seen \/ Older(x, c)
    <3>1. x.id \in l.seen \/ x \in page \/ x \in rest \ page
      BY <1>8, <2>4
    <3>. QED
      BY <3>1, <2>1, <1>1 DEF IdsOf
  <2>5. m.at = "reading" /\ m.cursor = {c}
    BY <1>1, <2>1
  <2>. QED
    BY <1>9, <2>2, <2>3, <2>4, <2>5 DEF ListingOk, BelowCursor, m
<1>. QED
  BY <1>10, <1>11

\* Rows that come, go or change, but not their pairs, keep a listing in order.
LEMMA ChangesKeep ==
    ASSUME NEW l, NEW S, NEW E, NEW T, NEW F,
           ListingOk(l, S, E), IdsOf(E) \subseteq IdsOf(F),
           \A x \in F : x.id \in IdsOf(E) => \E y \in E : y.id = x.id /\ y.at = x.at,
           \A x \in T : x.id \in l.start => \E y \in S : y.id = x.id /\ y.at = x.at
    PROVE  ListingOk(l, T, F)
<1>1. \A x, y, c : x.id = y.id /\ x.at = y.at => (Older(x, c) <=> Older(y, c))
  BY DEF Older
<1>2. l.seen \subseteq IdsOf(F) /\ l.start \subseteq IdsOf(F)
  BY DEF ListingOk
<1>3. ASSUME l.at # "done", NEW x \in F, x.id \in l.seen
      PROVE  x \notin BelowCursor(F, l.cursor)
  <2>1. x.id \in IdsOf(E)
    BY <1>3 DEF ListingOk
  <2>2. PICK y \in E : y.id = x.id /\ y.at = x.at
    BY <2>1
  <2>3. y \notin BelowCursor(E, l.cursor)
    BY <1>3, <2>2 DEF ListingOk
  <2>. QED
    BY <2>2, <2>3, <1>1 DEF BelowCursor
<1>4. ASSUME l.at # "idle", NEW x \in T, x.id \in l.start, x.id \notin l.seen
      PROVE  l.at = "reading" /\ x \in BelowCursor(T, l.cursor)
  <2>1. PICK y \in S : y.id = x.id /\ y.at = x.at
    BY <1>4
  <2>2. l.at = "reading" /\ y \in BelowCursor(S, l.cursor)
    BY <1>4, <2>1 DEF ListingOk
  <2>. QED
    BY <2>1, <2>2, <1>1 DEF BelowCursor
<1>. QED
  BY <1>2, <1>3, <1>4 DEF ListingOk

LEMMA OkIsExact ==
    ASSUME NEW l, NEW S, NEW E, ListingOk(l, S, E)
    PROVE  l.at = "done" => l.again = {} /\ l.start \cap IdsOf(S) \subseteq l.seen
BY DEF ListingOk, IdsOf

-----------------------------------------------------------------------------
(* The listings of the audit log.                                            *)

RecordListings ==
    /\ rListing = [r \in LogReaders |-> rListing[r]]
    /\ \A r \in LogReaders : ListingOk(rListing[r], RecordLog!Listed(r), rWritten)

\* Rows come with an id of their own, and are not put back once they are gone.
LEMMA RecordChanges ==
    ASSUME RecordLog!IInv, RecordLog!Next \/ UNCHANGED rVars
    PROVE  /\ rWritten \subseteq rWritten' /\ rNow' \in {rNow, rNow + 1}
           /\ \A x \in rWritten' : x \in rWritten \/ x.id = rNextId
           /\ \A x \in rLog' : x \in rLog \/ x.id = rNextId
           /\ \/ UNCHANGED rListing
              \/ \E r \in LogReaders : RecordLog!ListAuditLog(r)
<1>1. CASE UNCHANGED rVars \/ RecordLog!Tick
  BY <1>1 DEF rVars, RecordLog!Tick
<1>2. ASSUME NEW w \in Recorders, RecordLog!Stamp(w) \/ RecordLog!InsertAuditLog(w)
      PROVE  /\ UNCHANGED <<rListing, rNow>>
             /\ \A x \in rWritten' : x \in rWritten \/ x.id = rNextId
             /\ \A x \in rLog' : x \in rLog \/ x.id = rNextId
             /\ rWritten \subseteq rWritten'
  BY <1>2 DEF RecordLog!Stamp, RecordLog!InsertAuditLog
<1>3. ASSUME NEW j \in Jobs,
             \/ RecordLog!Rollover(j) \/ RecordLog!CreateMonthlyPartition(j)
             \/ RecordLog!ListPartitionMonths(j) \/ RecordLog!ArchiveDeleteAppRows(j)
             \/ RecordLog!DropMonthlyPartition(j) \/ RecordLog!End(j)
      PROVE  UNCHANGED <<rListing, rNow, rWritten>> /\ rLog' \subseteq rLog
  BY <1>3 DEF RecordLog!Rollover, RecordLog!CreateMonthlyPartition, RecordLog!End,
     RecordLog!ListPartitionMonths, RecordLog!ArchiveDeleteAppRows,
     RecordLog!DropMonthlyPartition
<1>4. ASSUME NEW r \in LogReaders, RecordLog!ListAuditLog(r)
      PROVE  UNCHANGED <<rNow, rWritten, rLog>>
  BY <1>4 DEF RecordLog!ListAuditLog
<1>. QED
  BY <1>1, <1>2, <1>3, <1>4 DEF RecordLog!Next

\* What a listing asks for only shrinks, but for rows it has not begun with.
LEMMA RecordListShrinks ==
    ASSUME RecordLog!IInv, RecordLog!Next \/ UNCHANGED rVars,
           NEW r \in LogReaders, NEW x \in RecordLog!Listed(r)', x.id \in IdsOf(rWritten)
    PROVE  x \in RecordLog!Listed(r)
<1>1. /\ rNow \in Nat /\ \A y \in rWritten : y.id < rNextId /\ y.id \in Nat /\ y.at \in Nat
      /\ rLog \subseteq rWritten /\ rNextId \in Nat
  BY DEF RecordLog!IInv, RecordLog!TypeOK, RecordLog!RowsAreOwn
<1>2. x \in rLog
  BY <1>1, RecordChanges DEF RecordLog!Listed, IdsOf
<1>3. CASE Since[r] = NoSince
  <2>1. x.at >= rNow' - Window
    BY <1>3 DEF RecordLog!Listed
  <2>2. x.at >= rNow - Window
    BY <1>1, <1>2, <2>1, RecordChanges, RecordsAssumption
  <2>. QED
    BY <1>2, <1>3, <2>2 DEF RecordLog!Listed
<1>4. CASE Since[r] # NoSince
  BY <1>2, <1>4 DEF RecordLog!Listed
<1>. QED
  BY <1>3, <1>4

LEMMA RecordListingStep ==
    ASSUME RecordLog!IInv, RecordLog!IInv', RecordLog!Next \/ UNCHANGED rVars, RecordListings
    PROVE  RecordListings'
<1>1. Numbered(rWritten) /\ Numbered(rWritten') /\ IsFiniteSet(rWritten)
  BY SameFinite DEF RecordLog!IInv, RecordLog!TypeOK, RecordLog!RowsAreOwn, Numbered
<1>2. ASSUME NEW r \in LogReaders, UNCHANGED rListing[r]
      PROVE  ListingOk(rListing[r], RecordLog!Listed(r), rWritten)'
  <2>1. ListingOk(rListing[r], RecordLog!Listed(r), rWritten)
    BY DEF RecordListings
  <2>2. IdsOf(rWritten) \subseteq IdsOf(rWritten')
    BY RecordChanges DEF IdsOf
  <2>3. \A x \in rWritten' : x.id \in IdsOf(rWritten) =>
           \E y \in rWritten : y.id = x.id /\ y.at = x.at
    <3> SUFFICES ASSUME NEW x \in rWritten', NEW y \in rWritten, y.id = x.id
                 PROVE  y.at = x.at
      BY DEF IdsOf
    <3>. QED
      BY <1>1, RecordChanges DEF Numbered
  <2>4. \A x \in RecordLog!Listed(r)' : x.id \in rListing[r].start =>
           \E y \in RecordLog!Listed(r) : y.id = x.id /\ y.at = x.at
    BY <2>1, RecordListShrinks DEF ListingOk
  <2>5. ListingOk(rListing[r], RecordLog!Listed(r)', rWritten')
    BY <2>1, <2>2, <2>3, <2>4, ChangesKeep
  <2>. QED
    BY <1>2, <2>5
<1>3. CASE UNCHANGED rListing
  BY <1>2, <1>3 DEF RecordListings
<1>4. ASSUME NEW r \in LogReaders, RecordLog!ListAuditLog(r) PROVE RecordListings'
  <2> DEFINE l == rListing[r]
             S == RecordLog!Listed(r)
  <2>1. /\ rListing' = [rListing EXCEPT ![r] = RecordLog!Follow(l, S, LogPage)]
        /\ l.at # "done" /\ UNCHANGED <<rWritten, rLog, rNow>>
    BY <1>4 DEF RecordLog!ListAuditLog
  <2>2. RecordLog!Follow(l, S, LogPage) = Follow(l, S, LogPage)
    BY SamePages
  <2>3. S \subseteq rWritten /\ ListingOk(l, S, rWritten) /\ S' = S
    <3>1. S \subseteq rWritten
      BY DEF RecordLog!Listed, RecordLog!IInv, RecordLog!RowsAreOwn
    <3>2. RecordLog!Listed(r)' = RecordLog!Listed(r)
      BY <2>1 DEF RecordLog!Listed
    <3>. QED
      BY <3>1, <3>2 DEF RecordListings
  <2>4. ListingOk(Follow(l, S, LogPage), S, rWritten)
    <3> HIDE DEF l, S
    <3>. QED
      BY <1>1, <2>1, <2>3, FollowKeeps, RecordsAssumption
  <2>5. rListing' = [q \in LogReaders |-> rListing'[q]] /\ rListing'[r] = Follow(l, S, LogPage)
    BY <2>1, <2>2 DEF RecordListings
  <2>6. ListingOk(rListing'[r], RecordLog!Listed(r)', rWritten')
    BY <2>1, <2>3, <2>4, <2>5
  <2>7. \A q \in LogReaders \ {r} : UNCHANGED rListing[q]
    BY <2>1 DEF RecordListings
  <2>. QED
    BY <1>2, <2>5, <2>6, <2>7 DEF RecordListings
<1>. QED
  BY <1>3, <1>4, RecordChanges

-----------------------------------------------------------------------------
(* The listings of the incidents: one that asks for the closed ones began    *)
(* with incidents that are closed.                                           *)

IncidentListings ==
    /\ iListing = [r \in IncidentReaders |-> iListing[r]]
    /\ \A r \in IncidentReaders :
          /\ ListingOk(iListing[r], IncidentList!Listed(r), iIncident)
          /\ Status[r] = "closed" => iListing[r].start \subseteq IdsOf(IncidentList!Listed(r))

\* y is what became of x.
Follows(y, x) ==
    /\ y.id = x.id /\ y.at = x.at /\ y.team = x.team
    /\ x.closed # Never => y.closed # Never

LEMMA IncidentChanges ==
    ASSUME IncidentList!RowsAreOwn, IncidentList!Next \/ UNCHANGED iVars
    PROVE  /\ \A y \in iIncident' : y.id \in IdsOf(iIncident) => \E x \in iIncident : Follows(y, x)
           /\ \A x \in iIncident : \E y \in iIncident' : Follows(y, x)
<1>1. CASE UNCHANGED iIncident
  BY <1>1 DEF IdsOf, Follows
<1>2. ASSUME NEW i \in Incidents, NEW t \in Teams,
             i \notin IncidentList!IdsOf(iIncident),
             iIncident' = iIncident \cup
                 {[id |-> i, team |-> t, at |-> iClock, closed |-> Never,
                   by |-> Nobody, note |-> NoNote]}
      PROVE  /\ \A y \in iIncident' : y.id \in IdsOf(iIncident) => \E x \in iIncident : Follows(y, x)
             /\ \A x \in iIncident : \E y \in iIncident' : Follows(y, x)
  BY <1>2 DEF IdsOf, IncidentList!IdsOf, Follows
<1>3. ASSUME NEW c \in Closers, NEW x \in iIncident,
             iIncident' = (iIncident \ {x}) \cup {IncidentList!Closed(x, c)}
      PROVE  /\ \A y \in iIncident' : y.id \in IdsOf(iIncident) => \E z \in iIncident : Follows(y, z)
             /\ \A z \in iIncident : \E y \in iIncident' : Follows(y, z)
  <2>1. Follows(IncidentList!Closed(x, c), x)
    BY ClosingFills DEF Follows
  <2>2. \A z \in iIncident : Follows(z, z)
    BY DEF Follows
  <2>. QED
    BY <1>3, <2>1, <2>2
<1>. QED
  BY <1>1, <1>2, <1>3, IncidentSteps DEF iVars

LEMMA IncidentListingStep ==
    ASSUME IncidentList!RowsAreOwn, IncidentList!RowsAreOwn',
           IncidentList!Next \/ UNCHANGED iVars, IncidentListings
    PROVE  IncidentListings'
<1>1. Numbered(iIncident) /\ IsFiniteSet(iIncident)
  BY SameFinite, IncidentsAssumption DEF IncidentList!RowsAreOwn, Numbered
<1>2. ASSUME NEW r \in IncidentReaders, UNCHANGED iListing[r]
      PROVE  /\ ListingOk(iListing[r], IncidentList!Listed(r), iIncident)'
             /\ Status[r] = "closed" =>
                   iListing'[r].start \subseteq IdsOf(IncidentList!Listed(r)')
  <2>1. /\ ListingOk(iListing[r], IncidentList!Listed(r), iIncident)
        /\ Status[r] = "closed" => iListing[r].start \subseteq IdsOf(IncidentList!Listed(r))
    BY DEF IncidentListings
  <2>2. IdsOf(iIncident) \subseteq IdsOf(iIncident')
    BY IncidentChanges DEF IdsOf, Follows
  <2>3. \A x \in iIncident' : x.id \in IdsOf(iIncident) =>
           \E y \in iIncident : y.id = x.id /\ y.at = x.at
    BY IncidentChanges DEF Follows
  <2>4. ASSUME NEW x \in IncidentList!Listed(r)', x.id \in iListing[r].start
        PROVE  \E y \in IncidentList!Listed(r) : y.id = x.id /\ y.at = x.at
    <3>1. x \in iIncident' /\ x.id \in IdsOf(iIncident)
      BY <2>1, <2>4 DEF IncidentList!Listed, ListingOk
    <3>2. PICK y \in iIncident : Follows(x, y)
      BY <3>1, IncidentChanges
    <3>3. CASE Status[r] = "closed"
      <4>1. PICK z \in IncidentList!Listed(r) : z.id = x.id
        BY <2>1, <2>4, <3>3 DEF IdsOf
      <4>2. z = y
        BY <1>1, <3>2, <4>1 DEF Numbered, Follows, IncidentList!Listed
      <4>. QED
        BY <3>2, <4>1, <4>2 DEF Follows
    <3>4. CASE Status[r] # "closed"
      BY <3>2, <3>4 DEF Follows, IncidentList!Listed
    <3>. QED
      BY <3>3, <3>4
  <2>5. ListingOk(iListing[r], IncidentList!Listed(r)', iIncident')
    BY <2>1, <2>2, <2>3, <2>4, ChangesKeep
  <2>6. ASSUME Status[r] = "closed"
        PROVE  IdsOf(IncidentList!Listed(r)) \subseteq IdsOf(IncidentList!Listed(r)')
    BY <2>6, IncidentChanges DEF IdsOf, Follows, IncidentList!Listed
  <2>. QED
    BY <1>2, <2>1, <2>5, <2>6
<1>3. CASE UNCHANGED iListing
  BY <1>2, <1>3 DEF IncidentListings
<1>4. ASSUME NEW r \in IncidentReaders, IncidentList!ListIncidents(r) PROVE IncidentListings'
  <2> DEFINE l == iListing[r]
             S == IncidentList!Listed(r)
  <2>1. /\ iListing' = [iListing EXCEPT ![r] = IncidentList!Follow(l, S, IncidentPage)]
        /\ l.at # "done" /\ UNCHANGED iIncident
    BY <1>4 DEF IncidentList!ListIncidents
  <2>2. IncidentList!Follow(l, S, IncidentPage) = Follow(l, S, IncidentPage)
    BY SamePages
  <2>3. /\ S \subseteq iIncident /\ ListingOk(l, S, iIncident) /\ S' = S
        /\ Status[r] = "closed" => l.start \subseteq IdsOf(S)
    <3>1. S \subseteq iIncident
      BY DEF IncidentList!Listed
    <3>2. IncidentList!Listed(r)' = IncidentList!Listed(r)
      BY <2>1 DEF IncidentList!Listed
    <3>. QED
      BY <3>1, <3>2 DEF IncidentListings
  <2>4. ListingOk(Follow(l, S, IncidentPage), S, iIncident)
    <3> HIDE DEF l, S
    <3>. QED
      BY <1>1, <2>1, <2>3, FollowKeeps, IncidentsAssumption
  <2>5. Status[r] = "closed" => Follow(l, S, IncidentPage).start \subseteq IdsOf(S)
    <3> HIDE DEF l, S
    <3>. QED
      BY <2>3 DEF Follow
  <2>6. iListing' = [q \in IncidentReaders |-> iListing'[q]] /\ iListing'[r] = Follow(l, S, IncidentPage)
    BY <2>1, <2>2 DEF IncidentListings
  <2>7. /\ ListingOk(iListing'[r], IncidentList!Listed(r)', iIncident')
        /\ Status[r] = "closed" => iListing'[r].start \subseteq IdsOf(IncidentList!Listed(r)')
    BY <2>1, <2>3, <2>4, <2>5, <2>6
  <2>8. \A q \in IncidentReaders \ {r} : UNCHANGED iListing[q]
    BY <2>1 DEF IncidentListings
  <2>. QED
    BY <1>2, <2>6, <2>7, <2>8 DEF IncidentListings
<1>5. UNCHANGED iListing \/ \E r \in IncidentReaders : IncidentList!ListIncidents(r)
  BY DEF IncidentList!Next, iVars, IncidentList!Tick, IncidentList!Open, IncidentList!Load,
         IncidentList!CloseIncident, IncidentList!Log
<1>. QED
  BY <1>3, <1>4, <1>5

LEMMA ListingsBegin == TrailInit => RecordListings /\ IncidentListings
<1> SUFFICES ASSUME TrailInit PROVE RecordListings /\ IncidentListings
  OBVIOUS
<1>1. /\ rListing = [r \in LogReaders |-> RecordLog!NoListing] /\ rWritten = {} /\ rLog = {}
      /\ iListing = [r \in IncidentReaders |-> IncidentList!NoListing] /\ iIncident = {}
  BY DEF TrailInit, RecordLog!Init, IncidentList!Init
<1>2. \A S, E : ListingOk(NoListing, S, E) /\ NoListing.start = {}
  BY DEF NoListing, ListingOk
<1>3. RecordLog!NoListing = NoListing /\ IncidentList!NoListing = NoListing
  BY DEF RecordLog!NoListing, IncidentList!NoListing, NoListing
<1>. QED
  BY <1>1, <1>2, <1>3 DEF RecordListings, IncidentListings

\* However rows are written, archived and dropped and incidents opened and
\* closed between its pages, a listing that follows every cursor shows no row
\* twice and every row that was there throughout (ListAuditLog, ListIncidents).
THEOREM ListingsShowAll == TrailSpec => []ListingsAreExact
<1>1. /\ RecordLog!IInv /\ RecordLog!IInv' /\ RecordListings /\ [TrailNext]_TrailVars
            => RecordListings'
      /\ IncidentList!RowsAreOwn /\ IncidentList!RowsAreOwn' /\ IncidentListings
            /\ [TrailNext]_TrailVars => IncidentListings'
  BY TrailSteps, RecordListingStep, IncidentListingStep
<1>2. RecordListings /\ IncidentListings => ListingsAreExact
  <2>1. /\ \A S : RecordLog!IdsOf(S) = IdsOf(S)
        /\ \A S : IncidentList!IdsOf(S) = IdsOf(S)
    BY DEF RecordLog!IdsOf, IncidentList!IdsOf, IdsOf
  <2>2. RecordListings => RecordLog!AuditListIsExact
    BY <2>1, OkIsExact DEF RecordListings, RecordLog!AuditListIsExact, RecordLog!Exact
  <2>3. IncidentListings => IncidentList!IncidentListIsExact
    BY <2>1, OkIsExact DEF IncidentListings, IncidentList!IncidentListIsExact, IncidentList!Exact
  <2>. QED
    BY <2>2, <2>3 DEF ListingsAreExact
<1>. QED
  BY <1>1, <1>2, ListingsBegin, RecordInvariant, IncidentInvariant, PTL DEF TrailSpec
=============================================================================
