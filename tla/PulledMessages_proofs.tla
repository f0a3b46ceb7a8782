----------------------- MODULE PulledMessages_proofs -----------------------
(***************************************************************************)
(* Proofs about the cloud-to-edge channel and two kinds of messages that   *)
(* come over it.                                                           *)
(*                                                                         *)
(* EdgeSyncPull: the inductive invariant, that messages keep their order   *)
(* and sessions show the newest of them, and the refinement of             *)
(* EventDelivery.                                                          *)
(*                                                                         *)
(* LotAccess: the inductive invariant, and that requests and their         *)
(* verdicts are known on both sides.                                       *)
(*                                                                         *)
(* LotSnapshot: what may become of the edge's rows by a snapshot, the      *)
(* inductive invariant, and that the edge comes to run on the cloud's lot. *)
(***************************************************************************)
EXTENDS EdgeSyncPull, LotAccess, LotSnapshot, FiniteSetTheorems, WellFoundedInduction,
        TLAPS

---------------------------------------------------------------------------
(* EdgeSyncPull.                                                           *)

\* What a pull returns is part of what it selects.
LEMMA FirstBySubset ==
  ASSUME NEW key, NEW k, NEW S
  PROVE  FirstBy(key, k, S) \subseteq S
  BY DEF FirstBy

LEMMA EarliestSubset ==
  ASSUME NEW S
  PROVE  Earliest(S) \subseteq S
  BY DEF Earliest

\* The next row's place in the creation order is a natural number.
LEMMA RowCountType == Cardinality({n \in Messages : createdAt[n] # 0}) \in Nat
  <1> DEFINE R == {n \in Messages : createdAt[n] # 0}
  <1>1. IsFiniteSet(R)
    BY MessagesAssumption, FS_Subset
  <1> QED BY <1>1, FS_CardinalityType

\* Before the first message there is nothing to acknowledge or to work on.
LEMMA InitIInv == Init => IInv
  BY NoneAssumption
  DEF Init, IInv, TypeOK, AckersAreRight, AckedWasApplied, WorkHasRow, RowStatus

\* Every step of the writers, the worker and the cloud keeps the invariant.
LEMMA NextIInv == IInv /\ [Next]_vars => IInv'
  <1> SUFFICES ASSUME IInv, [Next]_vars PROVE IInv'
    OBVIOUS
  <1> USE DEF IInv, TypeOK, AckersAreRight, AckedWasApplied, WorkHasRow, RowStatus,
              cloud, worker, edgeDb, history
  <1>1. ASSUME NEW m \in Messages, ReadInvoice(m) PROVE IInv'
    BY <1>1, AboutAssumption DEF ReadInvoice
  <1>2. ASSUME NEW m \in Messages, WriteEvent(m) PROVE IInv'
    BY <1>2 DEF WriteEvent
  <1>3. ASSUME NEW m \in Messages, WriteRow(m) PROVE IInv'
    BY <1>3, RowCountType DEF WriteRow
  <1>4. ASSUME NEW m \in Messages, AckFromEdge(m) PROVE IInv'
    BY <1>4 DEF AckFromEdge
  <1>5. CASE StartRun
    BY <1>5, FirstBySubset DEF StartRun
  <1>6. CASE Apply
    BY <1>6, EarliestSubset, AboutAssumption DEF Apply, Hand
  <1>7. CASE SkipOrphan
    BY <1>7, EarliestSubset DEF SkipOrphan, Hand
  <1>8. CASE ApplyThrows
    BY <1>8, EarliestSubset DEF ApplyThrows, Hand, Fault
  <1>9. CASE PostAck
    BY <1>9 DEF PostAck, Fault
  <1>10. CASE AckEnds
    BY <1>10 DEF AckEnds, Fault
  <1>11. CASE EndRun
    BY <1>11 DEF EndRun
  <1>12. CASE EdgeRestart
    BY <1>12 DEF EdgeRestart, Fault
  <1>13. CASE CloudRestart
    BY <1>13 DEF CloudRestart, Fault
  <1>14. CASE UNCHANGED vars
    BY <1>14 DEF vars
  <1> QED
    BY <1>1, <1>2, <1>3, <1>4, <1>5, <1>6, <1>7, <1>8, <1>9, <1>10, <1>11,
       <1>12, <1>13, <1>14
    DEF Next, Writer, Worker

\* Whoever acknowledges a message acknowledges an applied one, for every set
\* of messages and sessions, pull limit and number of faults.
THEOREM SpecIInv == Spec => []IInv
  BY InitIInv, NextIInv, PTL DEF Spec

\* Every variable keeps its type.
THEOREM SpecTypeOK == Spec => []TypeOK
  <1>1. IInv => TypeOK
    BY DEF IInv
  <1> QED BY <1>1, SpecIInv, PTL

\* ackFromEdge turns a row ACKED only when the edge has applied its message.
THEOREM SpecAckedWasApplied == Spec => []AckedWasApplied
  <1>1. IInv => AckedWasApplied
    BY DEF IInv, AckersAreRight
  <1> QED BY <1>1, SpecIInv, PTL

---------------------------------------------------------------------------
(* The order of messages.                                                  *)

\* What is not later than something among the first k is among them too.
LEMMA FirstByClosed ==
  ASSUME NEW key \in [Messages -> Nat], NEW k \in Nat, NEW S \in SUBSET Messages,
         NEW n \in FirstBy(key, k, S), NEW m \in S, key[m] <= key[n]
  PROVE  m \in FirstBy(key, k, S)
  <1> DEFINE Before(x) == {y \in S : key[y] < key[x]}
  <1>1. n \in Messages /\ Cardinality(Before(n)) < k
    BY DEF FirstBy
  <1>2. Before(m) \subseteq Before(n)
    BY <1>1
  <1>3. IsFiniteSet(Before(n))
    BY MessagesAssumption, FS_Subset
  <1>4. Cardinality(Before(m)) <= Cardinality(Before(n))
    BY <1>2, <1>3, FS_Subset
  <1>5. Cardinality(Before(m)) \in Nat /\ Cardinality(Before(n)) \in Nat
    BY <1>2, <1>3, FS_Subset, FS_CardinalityType
  <1>6. Cardinality(Before(m)) < k
    BY <1>1, <1>4, <1>5
  <1> QED BY <1>6 DEF FirstBy

\* A new row is one more.
LEMMA NewRowCounts ==
  ASSUME TypeOK, NEW m \in Messages, createdAt[m] = 0,
         createdAt' = [createdAt EXCEPT ![m] = Rows + 1]
  PROVE  Rows' = Rows + 1 /\ Rows \in Nat
  <1> DEFINE R == {n \in Messages : createdAt[n] # 0}
  <1>1. IsFiniteSet(R) /\ m \notin R
    BY MessagesAssumption, FS_Subset
  <1>2. Rows \in Nat
    BY RowCountType DEF Rows
  <1>3. R' = R \cup {m}
    BY <1>2 DEF TypeOK
  <1> QED BY <1>1, <1>2, <1>3, FS_AddElement DEF Rows

LEMMA InitOrder == Init => OrderInv
  <1> SUFFICES ASSUME Init PROVE OrderInv
    OBVIOUS
  <1>1. Rows = 0
    <2>1. {n \in Messages : createdAt[n] # 0} = {}
      BY DEF Init
    <2> QED BY <2>1, FS_EmptySet DEF Rows
  <1> QED BY <1>1 DEF Init, OrderInv, RowsAreNumbered, PulledInOrder, WritersInOrder,
                      NoneSkipped, NewestAmountsShown

\* A step that leaves the rows and their numbers alone leaves their order alone.
LEMMA SameRows ==
  ASSUME row' = row, createdAt' = createdAt, overlapped' = overlapped,
         RowsAreNumbered, WritersInOrder
  PROVE  RowsAreNumbered' /\ WritersInOrder'
  BY DEF RowsAreNumbered, WritersInOrder, Rows

\* The worker hands a message over that no row it knows is older than.
LEMMA HandKeepsOrder ==
  ASSUME IInv, OrderInv, NEW m \in Earliest(todo), Hand(m)
  PROVE  /\ PulledInOrder' /\ NoneSkipped' /\ handed \subseteq handed'
         /\ \A n \in handed' : createdAt'[n] # 0
  <1>1. m \in todo /\ m \in Messages /\ \A n \in todo : createdAt[m] <= createdAt[n]
    BY DEF Earliest, IInv, TypeOK
  <1>2. createdAt' = createdAt /\ todo' = todo \ {m} /\ handed' = handed \cup {m}
    BY DEF Hand, cloud
  <1>3. \A n \in Messages : createdAt[n] \in Nat
    BY DEF IInv, TypeOK
  <1>4. PulledInOrder'
    BY <1>1, <1>2 DEF OrderInv, PulledInOrder
  <1>5. ASSUME NEW n \in Messages, createdAt[n] # 0, createdAt[n] < createdAt[m]
        PROVE  n \in handed
    <2>1. n \notin todo
      BY <1>1, <1>3, <1>5
    <2> QED BY <1>1, <1>5, <2>1 DEF OrderInv, PulledInOrder
  <1>6. NoneSkipped'
    BY <1>2, <1>5 DEF OrderInv, NoneSkipped
  <1>7. createdAt[m] # 0
    BY <1>1 DEF IInv, WorkHasRow, OrderInv, RowsAreNumbered
  <1> QED BY <1>2, <1>4, <1>6, <1>7 DEF OrderInv

\* What the edge applies is newer than all it has applied of the session, or not for
\* the first time: of an older row that comes later, this one's turn was before.
LEMMA ApplyShowsNewest ==
  ASSUME IInv, OrderInv, Apply
  PROVE  NewestAmountsShown' /\ applied' \subseteq handed'
  <1>1. PICK m \in Earliest(todo) : /\ Hand(m)
                                    /\ applied' = applied \cup {m}
                                    /\ holds' = [holds EXCEPT ![About[m]] = m]
    BY DEF Apply
  <1>2. m \in todo /\ m \in Messages /\ applied \in SUBSET Messages
    BY <1>1, EarliestSubset DEF IInv, TypeOK
  <1>3. /\ overlapped' = overlapped /\ handed' = handed \cup {m}
        /\ again \subseteq again' /\ (m \in handed => m \in again')
    BY <1>1 DEF Hand
  <1>4. ASSUME NEW s \in Sessions \ overlapped, \A a \in again' : About[a] # s,
               NEW n \in applied', About[n] = s
        PROVE  n <= holds'[s]
    <2>1. holds'[s] = IF About[m] = s THEN m ELSE holds[s]
      BY <1>1, <1>2, AboutAssumption DEF IInv, TypeOK
    <2>2. CASE About[m] # s
      <3>1. n \in applied
        BY <1>1, <1>4, <2>2
      <3> QED BY <1>3, <1>4, <2>1, <2>2, <3>1 DEF OrderInv, NewestAmountsShown
    <2>3. CASE About[m] = s /\ n # m
      <3>1. n \in applied /\ n \in handed /\ n \in Messages /\ n \in Nat /\ m \in Nat
        BY <1>1, <1>2, <1>4, <2>3, MessagesAssumption DEF OrderInv
      <3>2. row[m] \in {"PENDING", "ACKED"} /\ row[n] \in {"PENDING", "ACKED"}
        BY <1>2, <3>1 DEF IInv, WorkHasRow
      <3>3. createdAt[m] # 0 /\ createdAt[n] # 0
        BY <1>2, <3>1, <3>2 DEF OrderInv, RowsAreNumbered
      <3>4. ASSUME m < n PROVE FALSE
        <4>1. createdAt[m] < createdAt[n]
          BY <1>2, <1>4, <2>3, <3>1, <3>2, <3>3, <3>4 DEF OrderInv, WritersInOrder
        <4>2. m \in handed
          BY <1>2, <3>1, <3>3, <4>1 DEF OrderInv, NoneSkipped
        <4> QED BY <1>3, <1>4, <2>3, <4>2
      <3> QED BY <2>1, <2>3, <3>1, <3>4
    <2>4. CASE About[m] = s /\ n = m
      BY <1>2, <2>1, <2>4, MessagesAssumption
    <2> QED BY <2>2, <2>3, <2>4
  <1>5. NewestAmountsShown'
    BY <1>3, <1>4 DEF NewestAmountsShown
  <1> QED BY <1>1, <1>3, <1>5 DEF OrderInv

\* Every step keeps the order.
LEMMA NextOrder == IInv /\ OrderInv /\ [Next]_vars => OrderInv'
  <1> SUFFICES ASSUME IInv, OrderInv, [Next]_vars PROVE OrderInv'
    OBVIOUS
  <1> USE DEF cloud, worker, edgeDb, history
  <1>0. \A n \in Messages : createdAt[n] \in Nat /\ n \in Nat
    BY MessagesAssumption DEF IInv, TypeOK
  <1>1. ASSUME NEW m \in Messages, ReadInvoice(m) PROVE OrderInv'
    <2>1. /\ row' = [row EXCEPT ![m] = "read"] /\ row[m] = "none" /\ createdAt' = createdAt
          /\ overlapped \subseteq overlapped'
          /\ UNCHANGED <<todo, applied, holds, handed, again>>
      BY <1>1 DEF ReadInvoice
    <2>2. RowsAreNumbered'
      BY <2>1 DEF OrderInv, RowsAreNumbered, Rows, IInv, TypeOK
    <2>3. WritersInOrder'
      <3>1. ASSUME NEW a \in Messages, NEW b \in Messages,
                   About[a] = About[b], a < b, row'[b] # "none"
            PROVE  /\ row'[a] # "none"
                   /\ About[a] \notin overlapped' =>
                        /\ row'[a] \in {"lost", "PENDING", "ACKED"}
                        /\ createdAt[b] # 0 => createdAt[a] < createdAt[b]
        <4>1. CASE b = m
          <5>1. a \in Siblings(m) /\ row[a] # "none" /\ row'[a] = row[a]
            BY <1>0, <1>1, <2>1, <3>1, <4>1 DEF ReadInvoice, Siblings, IInv, TypeOK
          <5>2. About[a] \notin overlapped' => row[a] \notin {"read", "event"}
            BY <1>1, <3>1, <4>1, <5>1 DEF ReadInvoice
          <5>3. createdAt[b] = 0
            BY <2>1, <4>1 DEF OrderInv, RowsAreNumbered
          <5> QED BY <5>1, <5>2, <5>3 DEF IInv, TypeOK, RowStatus
        <4>2. CASE b # m
          <5>1. row'[b] = row[b] /\ a # m
            BY <2>1, <3>1, <4>2 DEF OrderInv, WritersInOrder, IInv, TypeOK
          <5>2. row'[a] = row[a]
            BY <2>1, <5>1 DEF IInv, TypeOK
          <5> QED BY <2>1, <3>1, <5>1, <5>2 DEF OrderInv, WritersInOrder
        <4> QED BY <4>1, <4>2
      <3> QED BY <2>1, <3>1 DEF WritersInOrder
    <2>4. PulledInOrder' /\ NoneSkipped' /\ applied' \subseteq handed'
      BY <2>1 DEF OrderInv, PulledInOrder, NoneSkipped
    <2>5. NewestAmountsShown'
      BY <2>1 DEF OrderInv, NewestAmountsShown
    <2> QED BY <2>1, <2>2, <2>3, <2>4, <2>5 DEF OrderInv
  <1>2. ASSUME NEW m \in Messages, WriteEvent(m) PROVE OrderInv'
    <2>1. /\ row' = [row EXCEPT ![m] = "event"] /\ row[m] = "read"
          /\ UNCHANGED <<createdAt, todo, applied, holds, handed, again, overlapped>>
      BY <1>2 DEF WriteEvent
    <2>2. \A n \in Messages : n # m => row'[n] = row[n]
      BY <2>1 DEF IInv, TypeOK
    <2>3. row'[m] = "event"
      BY <2>1 DEF IInv, TypeOK
    <2>4. RowsAreNumbered' /\ WritersInOrder'
      BY <2>1, <2>2, <2>3 DEF OrderInv, RowsAreNumbered, WritersInOrder, Rows
    <2> QED BY <2>1, <2>4 DEF OrderInv, PulledInOrder, NoneSkipped, NewestAmountsShown
  <1>3. ASSUME NEW m \in Messages, WriteRow(m) PROVE OrderInv'
    <2>1. /\ row' = [row EXCEPT ![m] = "PENDING"] /\ row[m] = "event"
          /\ createdAt' = [createdAt EXCEPT ![m] = Rows + 1]
          /\ UNCHANGED <<todo, applied, holds, handed, again, overlapped>>
      BY <1>3 DEF WriteRow, Rows
    <2>2. createdAt[m] = 0
      BY <2>1 DEF OrderInv, RowsAreNumbered
    <2>3. Rows' = Rows + 1 /\ Rows \in Nat
      BY <2>1, <2>2, NewRowCounts DEF IInv
    <2>4. /\ row'[m] = "PENDING" /\ createdAt'[m] = Rows + 1
          /\ \A n \in Messages \ {m} : row'[n] = row[n] /\ createdAt'[n] = createdAt[n]
      BY <2>1 DEF IInv, TypeOK
    <2>5. \A n \in Messages : createdAt[n] < Rows + 1
      BY <1>0, <2>3 DEF OrderInv, RowsAreNumbered
    <2>6. RowsAreNumbered'
      BY <1>0, <2>2, <2>3, <2>4, <2>5 DEF OrderInv, RowsAreNumbered
    <2>7. m \notin todo /\ m \notin handed /\ todo \subseteq Messages /\ handed \subseteq Messages
      BY <2>1, <2>2 DEF IInv, TypeOK, WorkHasRow, OrderInv
    <2>8. PulledInOrder'
      <3>1. \A n \in todo : createdAt'[n] = createdAt[n] /\ createdAt[n] < Rows + 1
        BY <2>4, <2>5, <2>7
      <3>2. ASSUME NEW n \in todo, NEW a \in Messages, createdAt'[a] # 0,
                   createdAt'[a] < createdAt'[n]
            PROVE  a \in todo \cup handed
        <4>1. a # m
          BY <1>0, <2>3, <2>4, <2>7, <3>1, <3>2
        <4> QED BY <2>4, <3>1, <3>2, <4>1 DEF OrderInv, PulledInOrder
      <3> QED BY <2>1, <3>2 DEF PulledInOrder
    <2>9. WritersInOrder'
      BY <1>0, <2>2, <2>3, <2>4, <2>5, <2>1 DEF OrderInv, WritersInOrder
    <2>10. NoneSkipped'
      <3>1. ASSUME NEW a \in Messages, NEW n \in Messages, createdAt'[a] # 0,
                   createdAt'[a] < createdAt'[n], n \in handed
            PROVE  a \in handed
        <4>1. n # m /\ a # m
          BY <1>0, <2>3, <2>4, <2>5, <2>7, <3>1
        <4> QED BY <2>4, <3>1, <4>1 DEF OrderInv, NoneSkipped
      <3> QED BY <2>1, <3>1 DEF NoneSkipped
    <2>11. \A n \in handed' : createdAt'[n] # 0
      BY <2>1, <2>4, <2>7 DEF OrderInv
    <2> QED BY <2>1, <2>6, <2>8, <2>9, <2>10, <2>11 DEF OrderInv, NewestAmountsShown
  <1>4. CASE Apply
    <2>1. PICK m \in Earliest(todo) : Hand(m)
      BY <1>4 DEF Apply
    <2>2. UNCHANGED <<row, createdAt, overlapped>>
      BY <2>1 DEF Hand
    <2> QED BY <1>4, <2>1, <2>2, HandKeepsOrder, ApplyShowsNewest, SameRows DEF OrderInv
  <1>5. CASE SkipOrphan \/ ApplyThrows
    <2>1. PICK m \in Earliest(todo) : Hand(m)
      BY <1>5 DEF SkipOrphan, ApplyThrows
    <2>2. /\ UNCHANGED <<row, createdAt, overlapped, applied, holds>>
          /\ again \subseteq again'
      BY <1>5, <2>1 DEF Hand, SkipOrphan, ApplyThrows
    <2>3. NewestAmountsShown'
      BY <2>2 DEF OrderInv, NewestAmountsShown
    <2> QED BY <2>1, <2>2, <2>3, HandKeepsOrder, SameRows DEF OrderInv
  <1>6. CASE StartRun
    <2>1. /\ todo' = FirstBy(createdAt, PullLimit, {m \in Messages : row[m] = "PENDING"})
          /\ UNCHANGED <<row, createdAt, overlapped, applied, holds, handed, again>>
      BY <1>6 DEF StartRun
    <2>2. ASSUME NEW n \in todo', NEW m \in Messages, createdAt[m] # 0,
                 createdAt[m] < createdAt[n]
          PROVE  m \in todo' \cup handed
      <3>1. CASE row[m] = "PENDING"
        <4>1. createdAt[m] <= createdAt[n]
          BY <1>0, <2>1, <2>2, FirstBySubset
        <4> QED BY <2>1, <2>2, <3>1, <4>1, FirstByClosed, LimitAssumption DEF IInv, TypeOK
      <3>2. CASE row[m] = "ACKED"
        BY <3>2 DEF IInv, AckersAreRight, AckedWasApplied, OrderInv
      <3> QED BY <2>2, <3>1, <3>2 DEF OrderInv, RowsAreNumbered
    <2>3. PulledInOrder'
      BY <2>1, <2>2 DEF PulledInOrder
    <2> QED BY <2>1, <2>3, SameRows DEF OrderInv, NoneSkipped, NewestAmountsShown
  <1>7. CASE PostAck \/ AckEnds \/ EndRun \/ EdgeRestart \/ UNCHANGED vars
    <2>1. /\ UNCHANGED <<row, createdAt, overlapped, applied, holds, handed, again>>
          /\ todo' \subseteq todo
          /\ todo' \in {todo, {}}
      BY <1>7 DEF PostAck, AckEnds, EndRun, EdgeRestart, vars
    <2>2. PulledInOrder'
      BY <2>1 DEF OrderInv, PulledInOrder
    <2> QED BY <2>1, <2>2, SameRows DEF OrderInv, NoneSkipped, NewestAmountsShown
  <1>8. ASSUME NEW m \in Messages, AckFromEdge(m) PROVE OrderInv'
    <2>1. /\ row' = [row EXCEPT ![m] = "ACKED"]
          /\ UNCHANGED <<createdAt, todo, overlapped, applied, holds, handed, again>>
      BY <1>8 DEF AckFromEdge
    <2>2. row[m] \in {"PENDING", "ACKED"}
      BY <1>8 DEF AckFromEdge, IInv, AckersAreRight, WorkHasRow
    <2>3. \A n \in Messages : row'[n] = row[n] \/ (row[n] = "PENDING" /\ row'[n] = "ACKED")
      BY <2>1, <2>2 DEF IInv, TypeOK
    <2>4. RowsAreNumbered' /\ WritersInOrder'
      BY <2>1, <2>3 DEF OrderInv, RowsAreNumbered, WritersInOrder, Rows
    <2> QED BY <2>1, <2>4 DEF OrderInv, PulledInOrder, NoneSkipped, NewestAmountsShown
  <1>9. CASE CloudRestart
    <2>1. UNCHANGED <<createdAt, todo, overlapped, applied, holds, handed, again>>
      BY <1>9 DEF CloudRestart
    <2>2. \A n \in Messages : row'[n] = row[n] \/ (row[n] \in {"read", "event"} /\ row'[n] = "lost")
      BY <1>9 DEF CloudRestart
    <2>3. RowsAreNumbered'
      BY <2>1, <2>2 DEF OrderInv, RowsAreNumbered, Rows
    <2>4. WritersInOrder'
      BY <2>1, <2>2 DEF OrderInv, WritersInOrder
    <2> QED BY <2>1, <2>3, <2>4 DEF OrderInv, PulledInOrder, NoneSkipped, NewestAmountsShown
  <1> QED BY <1>1, <1>2, <1>3, <1>4, <1>5, <1>6, <1>7, <1>8, <1>9 DEF Next, Writer, Worker

THEOREM SpecOrderInv == Spec => []OrderInv
  BY InitOrder, NextOrder, SpecIInv, PTL DEF Spec

\* Messages are handed over in the order of their rows, whatever is lost on the way.
THEOREM SpecNoneSkipped == Spec => []NoneSkipped
  <1>1. OrderInv => NoneSkipped
    BY DEF OrderInv
  <1> QED BY <1>1, SpecOrderInv, PTL

\* applyInvoicePaymentFromCloud leaves a session with the newest of its amounts, unless a
\* message of it was handed over twice or its writers overlapped.
THEOREM SpecNewestAmountsShown == Spec => []NewestAmountsShown
  <1>1. OrderInv => NewestAmountsShown
    BY DEF OrderInv
  <1> QED BY <1>1, SpecOrderInv, PTL

---------------------------------------------------------------------------
(* The refinement of EventDelivery.                                        *)

\* A step that leaves the rows and the applied messages alone is a stutter.
LEMMA Stutter ==
  ASSUME row' = row, applied' = applied
  PROVE  UNCHANGED Delivery!vars
  BY DEF Delivery!vars

LEMMA InitDelivery == Init => Delivery!Init
  BY DEF Init, Delivery!Init

\* Writing the row, applying and acknowledging are the abstract steps.
LEMMA NextDelivery == IInv /\ [Next]_vars => [Delivery!Next]_(Delivery!vars)
  <1> SUFFICES ASSUME IInv, [Next]_vars PROVE Delivery!Next \/ UNCHANGED Delivery!vars
    OBVIOUS
  <1> USE DEF IInv, TypeOK, RowStatus
  <1>1. ASSUME NEW m \in Messages, WriteRow(m) PROVE Delivery!Next
    BY <1>1 DEF WriteRow, edgeDb, Delivery!Next, Delivery!Record
  <1>2. ASSUME Apply PROVE Delivery!Next
    BY <1>2, EarliestSubset
    DEF Apply, Hand, cloud, WorkHasRow, Delivery!Next, Delivery!Deliver
  <1>3. ASSUME NEW m \in Messages, AckFromEdge(m) PROVE Delivery!Next
    BY <1>3 DEF AckFromEdge, edgeDb, AckersAreRight, WorkHasRow, Delivery!Next,
                Delivery!Acknowledge
  <1>4. ASSUME NEW m \in Messages, ReadInvoice(m) \/ WriteEvent(m)
        PROVE  UNCHANGED Delivery!vars
    BY <1>4 DEF ReadInvoice, WriteEvent, edgeDb, Delivery!vars
  <1>5. ASSUME CloudRestart PROVE UNCHANGED Delivery!vars
    BY <1>5 DEF CloudRestart, edgeDb, Delivery!vars
  <1>6. ASSUME StartRun \/ SkipOrphan \/ ApplyThrows \/ PostAck \/ AckEnds \/ EndRun
                 \/ EdgeRestart
        PROVE  UNCHANGED Delivery!vars
    BY <1>6, Stutter
    DEF StartRun, SkipOrphan, ApplyThrows, Hand, PostAck, AckEnds, EndRun,
        EdgeRestart, cloud, edgeDb
  <1>7. CASE UNCHANGED vars
    BY <1>7, Stutter DEF vars
  <1> QED
    BY <1>1, <1>2, <1>3, <1>4, <1>5, <1>6, <1>7 DEF Next, Writer, Worker

\* The channel implements the abstract promise.
THEOREM SpecDeliversMessages == Spec => DeliversMessages
  BY InitDelivery, NextDelivery, SpecIInv, PTL
  DEF Spec, DeliversMessages, Delivery!Spec

---------------------------------------------------------------------------
(* LotAccess.                                                              *)

\* The calls under way have the fields of their step.
LEMMA TaskFields ==
  ASSUME NEW t \in Tasks
  PROVE  /\ t.step \in {"idle", "look", "ask", "duplicate", "write", "finish", "review"}
         /\ t.step = "look" => t.site \in Sites /\ t.old \in BOOLEAN
         /\ t.step = "ask" => /\ t.site \in Sites
                              /\ t.old \in BOOLEAN
                              /\ t.found \in Requests \cup {NoRequest}
         /\ t.step \in {"duplicate", "write", "finish"} =>
              t.of \in Requests /\ t.called \in BOOLEAN
         /\ t.step = "write" => t.found \in Requests \cup {NoRequest}
         /\ t.step = "review" => /\ t.site \in Sites
                                 /\ t.of \in Requests
                                 /\ t.seen \in Verdicts \cup {"PENDING"}
                                 /\ t.to \in Requests \cup {NoRequest}
  BY DEF Tasks

\* A caller that goes leaves the call with the rest of its fields.
LEMMA CallWithoutCaller ==
  ASSUME NEW t \in Tasks, t.step \in {"duplicate", "write", "finish"}
  PROVE  [t EXCEPT !.called = FALSE] \in Tasks
  <1>1. CASE t.step \in {"duplicate", "finish"}
    <2>1. t \in [step : {"duplicate", "finish"}, of : Requests, called : BOOLEAN]
      BY <1>1 DEF Tasks
    <2> QED BY <2>1 DEF Tasks
  <1>2. CASE t.step = "write"
    <2>1. t \in [step : {"write"}, of : Requests, called : BOOLEAN,
                 found : Requests \cup {NoRequest}]
      BY <1>2 DEF Tasks
    <2> QED BY <2>1 DEF Tasks
  <1> QED BY <1>1, <1>2

\* What is asked for and what is under way are finitely many.
LEMMA AccessFinite ==
  /\ IsFiniteSet(Made) /\ Cardinality(Made) \in Nat
  /\ IsFiniteSet(Asking) /\ Cardinality(Asking) \in Nat
  <1>1. IsFiniteSet(Requests)
    BY FS_Interval, BoundAssumption DEF Requests
  <1>2. IsFiniteSet(Made) /\ IsFiniteSet(Asking)
    BY <1>1, SlotsAssumption, FS_Subset DEF Made, Asking
  <1> QED BY <1>2, FS_CardinalityType

\* A request that is made gets an id of its own.
LEMMA NextIdIsFree ==
  ASSUME AccessTypeOK, IdsInTurn, NEW s \in Slots, task[s].step = "ask"
  PROVE  Cardinality(Made) + 1 \in Requests \ Made
  <1>1. s \in Asking
    BY DEF Asking
  <1>2. Cardinality(Asking) # 0
    BY <1>1, AccessFinite, FS_EmptySet
  <1> QED BY <1>2, AccessFinite, BoundAssumption DEF IdsInTurn, Requests

\* At first no one has asked and nothing is under way.
LEMMA AccessInitIInv == AccessInit => AccessIInv
  <1> SUFFICES ASSUME AccessInit PROVE AccessIInv
    OBVIOUS
  <1> USE DEF AccessInit, Sites, NoRequest, Idle
  <1>1. AccessTypeOK
    BY BoundAssumption DEF AccessTypeOK, Tasks
  <1>2. IdsInTurn
    <2>1. Made = {} /\ Asking = {}
      BY DEF Made, Asking
    <2> QED BY <2>1, FS_EmptySet, BoundAssumption DEF IdsInTurn
  <1>3. RequestsExist /\ CallsAreFounded /\ HandledIsKnown
    BY DEF RequestsExist, CallsAreFounded, HandledIsKnown, DecidedAt, Verdicts
  <1>4. AccessFollowsVerdict /\ AnswersFollowLinks /\ LastVerdictSent /\ AckedIsShown
    BY DEF AccessFollowsVerdict, AnswersFollowLinks, LastVerdictSent, AckedIsShown,
           DecidedAt, Verdicts
  <1> QED BY <1>1, <1>2, <1>3, <1>4 DEF AccessIInv

\* Every step keeps the types: a call goes on with fields it has read, and a new
\* request has an id that is left.
LEMMA AccessTypeStep ==
  ASSUME AccessTypeOK, IdsInTurn, [AccessNext]_accessVars
  PROVE  AccessTypeOK'
  <1> USE DEF AccessTypeOK, requestRows, channels, puller, accessHistory
  <1>1. ASSUME NEW s \in Slots, NEW site \in Sites, NEW old \in BOOLEAN, Ask(s, site, old)
        PROVE  AccessTypeOK'
    BY <1>1 DEF Ask, Becomes, Tasks
  <1>2. ASSUME NEW s \in Slots, Look(s)  PROVE AccessTypeOK'
    <2>1. task[s] \in Tasks
      OBVIOUS
    <2>2. AnyOf(PendingAt(task[s].site)) \subseteq Requests \cup {NoRequest}
      BY DEF AnyOf, PendingAt
    <2>3. task' \in [Slots -> Tasks]
      BY <1>2, <2>1, <2>2, TaskFields DEF Look, Becomes, Idle, Tasks
    <2> QED BY <1>2, <2>3 DEF Look
  <1>3. ASSUME NEW s \in Slots, MakeRequest(s)  PROVE AccessTypeOK'
    <2>1. task[s] \in Tasks
      OBVIOUS
    <2>2. (IF task[s].found = NoRequest THEN Cardinality(Made) + 1 ELSE task[s].found)
            \in Requests
      BY <1>3, <2>1, TaskFields, NextIdIsFree DEF MakeRequest
    <2>3. task' \in [Slots -> Tasks]
      BY <1>3 DEF MakeRequest, Becomes, Idle, Tasks
    <2> QED BY <1>3, <2>2, <2>3 DEF MakeRequest
  <1>4. ASSUME NEW s \in Slots, NEW e \in Requests, Receive(s, e)  PROVE AccessTypeOK'
    <2>1. [step |-> IF "CLOUD" \in granted \/ status["CLOUD"][e] # "NONE"
                    THEN "finish" ELSE "duplicate",
           of |-> e, called |-> TRUE] \in Tasks
      BY DEF Tasks
    <2>2. task' \in [Slots -> Tasks] /\ outbox' \in [Requests -> {"NONE", "PENDING", "ACKED"}]
      BY <1>4, <2>1 DEF Receive, Becomes
    <2> QED BY <1>4, <2>2 DEF Receive
  <1>5. ASSUME NEW s \in Slots, FindDuplicate(s)  PROVE AccessTypeOK'
    <2>1. task[s] \in Tasks
      OBVIOUS
    <2>2. AnyOf(PendingAt("CLOUD")) \subseteq Requests \cup {NoRequest}
      BY DEF AnyOf, PendingAt
    <2>3. task' \in [Slots -> Tasks]
      BY <1>5, <2>1, <2>2, TaskFields DEF FindDuplicate, Becomes, Tasks
    <2> QED BY <1>5, <2>3 DEF FindDuplicate
  <1>6. ASSUME NEW s \in Slots, LinkDuplicate(s)  PROVE AccessTypeOK'
    <2>1. task[s] \in Tasks
      OBVIOUS
    <2>2. Finishing(task[s]) \in Tasks /\ task[s].of \in Requests
          /\ task[s].found \in Requests
      BY <1>6, <2>1, TaskFields DEF LinkDuplicate, Finishing, Tasks
    <2>3. link' \in [Requests -> Requests \cup {NoRequest}] /\ replaced' \subseteq Requests
      BY <1>6, <2>2 DEF LinkDuplicate
    <2> QED BY <1>6, <2>2, <2>3 DEF LinkDuplicate, Becomes
  <1>7. ASSUME NEW s \in Slots, InsertRequest(s)  PROVE AccessTypeOK'
    <2>1. task[s] \in Tasks
      OBVIOUS
    <2>2. Finishing(task[s]) \in Tasks /\ Idle \in Tasks /\ task[s].of \in Requests
      BY <1>7, <2>1, TaskFields DEF InsertRequest, Finishing, Idle, Tasks
    <2>3. task' \in [Slots -> Tasks]
      BY <1>7, <2>2 DEF InsertRequest, Becomes
    <2>4. status' \in [Sites -> [Requests -> Verdicts \cup {"NONE", "PENDING"}]]
      BY <1>7, <2>2 DEF InsertRequest, Sites
    <2>5. link' \in [Requests -> Requests \cup {NoRequest}]
      BY <1>7, <2>2 DEF InsertRequest
    <2> QED BY <1>7, <2>3, <2>4, <2>5 DEF InsertRequest
  <1>8. ASSUME NEW s \in Slots, Finish(s)  PROVE AccessTypeOK'
    <2>1. task[s] \in Tasks /\ Idle \in Tasks
      BY DEF Idle, Tasks
    <2>2. task[s].of \in Requests
      BY <1>8, <2>1, TaskFields DEF Finish
    <2> QED BY <1>8, <2>1, <2>2 DEF Finish, Becomes
  <1>9. ASSUME NEW s \in Slots, CallerGone(s)  PROVE AccessTypeOK'
    <2>1. [task[s] EXCEPT !.called = FALSE] \in Tasks
      BY <1>9, CallWithoutCaller DEF CallerGone, Called
    <2>2. task' \in [Slots -> Tasks]
      BY <1>9, <2>1 DEF CallerGone
    <2> QED BY <1>9, <2>2, BoundAssumption DEF CallerGone, AccessFault
  <1>10. ASSUME NEW s \in Slots, Stop(s)  PROVE AccessTypeOK'
    BY <1>10, BoundAssumption DEF Stop, Becomes, Idle, Tasks, AccessFault
  <1>11. ASSUME NEW s \in Slots, NEW site \in Sites, NEW r \in Requests,
                StartReview(s, site, r)
         PROVE  AccessTypeOK'
    <2>1. status[site][r] \in Verdicts \cup {"PENDING"}
      BY <1>11 DEF StartReview, PendingAt, DecidedAt
    <2> QED BY <1>11, <2>1 DEF StartReview, Becomes, Tasks
  <1>12. ASSUME NEW s \in Slots, Review(s)  PROVE AccessTypeOK'
    <2>1. task[s] \in Tasks /\ Idle \in Tasks
      BY DEF Idle, Tasks
    <2>2. task[s].site \in Sites /\ task[s].of \in Requests
      BY <1>12, <2>1, TaskFields DEF Review
    <2>3. PICK verdict \in Verdicts : /\ Decide(task[s].site, task[s].of, verdict)
                                      /\ Answer(task[s].site, task[s].of, verdict,
                                                link[task[s].of])
      BY <1>12 DEF Review
    <2>4. /\ status' \in [Sites -> [Requests -> Verdicts \cup {"NONE", "PENDING"}]]
          /\ granted' \subseteq Sites
          /\ overruled' \subseteq Sites \X Requests
      BY <2>2, <2>3 DEF Decide
    <2>5. /\ answers' \in Seq(Reviews)
          /\ DOMAIN answers \subseteq DOMAIN answers'
      <3>1. /\ link[task[s].of] # NoRequest => link[task[s].of] \in Requests
            /\ link[task[s].of] # NoRequest =>
                 [of |-> task[s].of, verdict |-> verdict, to |-> link[task[s].of]] \in Reviews
        BY <2>2, <2>3 DEF Reviews
      <3> QED BY <2>3, <3>1 DEF Answer
    <2> QED BY <1>12, <2>1, <2>4, <2>5 DEF Review, Becomes
  <1>13. ASSUME NEW s \in Slots, Resend(s)  PROVE AccessTypeOK'
    <2>1. task[s] \in Tasks /\ Idle \in Tasks
      BY DEF Idle, Tasks
    <2>2. /\ task[s].of \in Requests
          /\ task[s].to \in Requests \cup {NoRequest}
      BY <1>13, <2>1, TaskFields DEF Resend
    <2>3. /\ answers' \in Seq(Reviews)
          /\ DOMAIN answers \subseteq DOMAIN answers'
      <3>1. task[s].to # NoRequest =>
              [of |-> task[s].of, verdict |-> task[s].seen, to |-> task[s].to] \in Reviews
        BY <1>13, <2>2 DEF Resend, Reviews
      <3> QED BY <1>13, <3>1 DEF Resend, Answer
    <2> QED BY <1>13, <2>1, <2>3 DEF Resend, Becomes
  <1>14. CASE StartPull
    BY <1>14 DEF StartPull, Unacked
  <1>15. CASE ApplyVerdict
    <2>1. PICK p \in NextOf(run) : /\ Decide("EDGE", answers[p].to, answers[p].verdict)
                                   /\ ackDue' = p
                                   /\ run' = run \ {p}
      BY <1>15 DEF ApplyVerdict
    <2>2. p \in DOMAIN answers
      BY <2>1 DEF NextOf
    <2>3. answers[p] \in Reviews
      BY <2>2
    <2>4. /\ status' \in [Sites -> [Requests -> Verdicts \cup {"NONE", "PENDING"}]]
          /\ granted' \subseteq Sites
          /\ overruled' \subseteq Sites \X Requests
      BY <2>1, <2>3 DEF Decide, Sites, Reviews
    <2> QED BY <1>15, <2>1, <2>2, <2>4 DEF ApplyVerdict
  <1>16. CASE VerdictThrows
    BY <1>16, BoundAssumption DEF VerdictThrows, AccessFault
  <1>17. CASE AckVerdict
    BY <1>17 DEF AckVerdict
  <1>18. CASE AckLost
    BY <1>18, BoundAssumption DEF AckLost, AccessFault
  <1>19. CASE PullRestart
    BY <1>19, BoundAssumption DEF PullRestart, AccessFault
  <1>20. CASE UNCHANGED accessVars
    BY <1>20 DEF accessVars
  <1>21. "EDGE" \in Sites
    BY DEF Sites
  <1> QED
    BY <1>1, <1>2, <1>3, <1>4, <1>5, <1>6, <1>7, <1>8, <1>9, <1>10, <1>11, <1>12, <1>13,
       <1>14, <1>15, <1>16, <1>17, <1>18, <1>19, <1>20, <1>21
    DEF AccessNext, Call, Step

\* No step takes a request or a verdict back.
LEMMA RowsStay ==
  ASSUME AccessTypeOK, IdsInTurn, [AccessNext]_accessVars
  PROVE  \A site \in Sites, r \in Requests :
           /\ HasRow(site, r) => HasRow(site, r)'
           /\ r \in DecidedAt(site) => r \in DecidedAt(site)'
  <1> SUFFICES ASSUME NEW site \in Sites, NEW r \in Requests
               PROVE  /\ HasRow(site, r) => HasRow(site, r)'
                      /\ r \in DecidedAt(site) => r \in DecidedAt(site)'
    OBVIOUS
  <1> USE DEF HasRow, DecidedAt, AccessTypeOK
  <1>1. ASSUME NEW s \in Slots, MakeRequest(s)
        PROVE  status' = status \/ \E q \in Requests \ Made, w \in Sites :
                                     status' = [status EXCEPT ![w][q] = "PENDING"]
    <2>1. CASE task[s].found = NoRequest
      <3>1. task[s] \in Tasks /\ Cardinality(Made) + 1 \in Requests \ Made
        BY <1>1, NextIdIsFree DEF MakeRequest
      <3>2. task[s].site \in Sites
        BY <1>1, <3>1, TaskFields DEF MakeRequest
      <3>3. status' = [status EXCEPT ![task[s].site][Cardinality(Made) + 1] = "PENDING"]
        BY <1>1, <2>1 DEF MakeRequest
      <3> QED BY <3>1, <3>2, <3>3
    <2>2. CASE task[s].found # NoRequest
      BY <1>1, <2>2 DEF MakeRequest
    <2> QED BY <2>1, <2>2
  <1>2. ASSUME NEW s \in Slots, InsertRequest(s)
        PROVE  \/ status' = status
               \/ \E q \in Requests : /\ status["CLOUD"][q] = "NONE"
                                      /\ status' = [status EXCEPT !["CLOUD"][q] = "PENDING"]
    <2>1. task[s] \in Tasks
      OBVIOUS
    <2>2. task[s].of \in Requests
      BY <1>2, <2>1, TaskFields DEF InsertRequest
    <2> QED BY <1>2, <2>2 DEF InsertRequest
  <1>3. ASSUME NEW q, NEW w, NEW v \in Verdicts, Decide(w, q, v)
        PROVE  status' = [status EXCEPT ![w][q] = v]
    BY <1>3 DEF Decide
  <1>4. CASE \E s \in Slots : MakeRequest(s)
    BY <1>4, <1>1 DEF Made, Verdicts
  <1>5. CASE \E s \in Slots : InsertRequest(s)
    BY <1>5, <1>2 DEF Verdicts, Sites
  <1>6. CASE \E s \in Slots : Review(s)
    <2>1. PICK s \in Slots, v \in Verdicts : Decide(task[s].site, task[s].of, v)
      BY <1>6 DEF Review
    <2>2. status' = [status EXCEPT ![task[s].site][task[s].of] = v]
      BY <2>1, <1>3
    <2> QED BY <2>2 DEF Verdicts, Sites
  <1>7. CASE ApplyVerdict
    <2>1. PICK p \in NextOf(run) : Decide("EDGE", answers[p].to, answers[p].verdict)
      BY <1>7 DEF ApplyVerdict
    <2>2. answers[p] \in Reviews
      BY <2>1 DEF NextOf
    <2>3. status' = [status EXCEPT !["EDGE"][answers[p].to] = answers[p].verdict]
          /\ answers[p].verdict \in Verdicts
      BY <2>1, <2>2, <1>3 DEF Reviews
    <2> QED BY <2>3 DEF Verdicts, Sites
  <1>8. CASE UNCHANGED status
    BY <1>8
  <1> QED
    BY <1>4, <1>5, <1>6, <1>7, <1>8
    DEF AccessNext, Call, Step, accessVars, requestRows, Ask, Look, Receive, FindDuplicate,
        LinkDuplicate, Finish, CallerGone, Stop, StartReview, Resend, StartPull,
        VerdictThrows, AckVerdict, AckLost, PullRestart

\* One more request takes the next id.
LEMMA OneMoreId ==
  ASSUME NEW S, IsFiniteSet(S), S = 1 .. Cardinality(S), NEW n, n = Cardinality(S) + 1
  PROVE  S \cup {n} = 1 .. Cardinality(S \cup {n})
         /\ Cardinality(S \cup {n}) = Cardinality(S) + 1
  <1>1. Cardinality(S) \in Nat /\ n \notin S
    BY FS_CardinalityType
  <1>2. Cardinality(S \cup {n}) = Cardinality(S) + 1
    BY <1>1, FS_AddElement
  <1> QED BY <1>1, <1>2

\* A call asks in one step and has asked in another.
LEMMA AskingCounts ==
  ASSUME NEW s \in Slots
  PROVE  /\ Cardinality(Asking \cup {s}) <= Cardinality(Asking) + 1
         /\ Cardinality(Asking \cup {s}) \in Nat
         /\ s \in Asking => Cardinality(Asking \ {s}) = Cardinality(Asking) - 1
         /\ \A S \in SUBSET Asking : Cardinality(S) <= Cardinality(Asking)
         /\ \A S \in SUBSET Asking : Cardinality(S) \in Nat
  BY AccessFinite, FS_AddElement, FS_RemoveElement, FS_Subset, FS_CardinalityType

\* Requests get the next id, and only as many as have asked.
LEMMA IdsStep ==
  ASSUME AccessTypeOK, IdsInTurn, RequestsExist, CallsAreFounded, [AccessNext]_accessVars
  PROVE  IdsInTurn'
  <1> DEFINE M == Made
             A == Asking
  <1>0. /\ M = 1 .. Cardinality(M) /\ Cardinality(M) \in Nat /\ IsFiniteSet(M)
        /\ A \subseteq Slots /\ Cardinality(A) \in Nat
        /\ Cardinality(M) + Cardinality(A) <= MaxRequests /\ MaxRequests \in Nat
    BY AccessFinite, BoundAssumption DEF IdsInTurn, Asking
  <1>1. ASSUME Made' = M, Asking' \subseteq A  PROVE IdsInTurn'
    <2>1. Cardinality(Asking') <= Cardinality(A) /\ Cardinality(Asking') \in Nat
      BY <1>1, AccessFinite, FS_Subset, FS_CardinalityType
    <2> QED BY <1>0, <1>1, <2>1 DEF IdsInTurn
  <1>2. ASSUME status' = status, Asking' \subseteq A  PROVE IdsInTurn'
    BY <1>1, <1>2 DEF Made
  <1>3. ASSUME NEW s \in Slots, NEW site \in Sites, NEW old \in BOOLEAN, Ask(s, site, old)
        PROVE  IdsInTurn'
    <2>1. Asking' = A \cup {s} /\ Made' = M
      BY <1>3 DEF Ask, Asking, Becomes, AccessTypeOK, Made, requestRows
    <2>2. Cardinality(M) + Cardinality(A) < MaxRequests
      BY <1>3 DEF Ask
    <2>3. Cardinality(A \cup {s}) <= Cardinality(A) + 1 /\ Cardinality(A \cup {s}) \in Nat
      BY AskingCounts
    <2>4. Cardinality(Asking') \in Nat /\ Cardinality(Asking') <= Cardinality(A) + 1
      BY <2>1, <2>3
    <2>5. Cardinality(Made') = Cardinality(M)
      BY <2>1
    <2>6. Cardinality(Made') + Cardinality(Asking') <= MaxRequests
      BY <1>0, <2>2, <2>4, <2>5
    <2> QED BY <1>0, <2>1, <2>6 DEF IdsInTurn
  <1>4. ASSUME NEW s \in Slots, task[s] \in Tasks, task[s].step = "look", Look(s)
        PROVE  IdsInTurn'
    <2>1. Asking' \subseteq A
      BY <1>4 DEF Look, Asking, Becomes, AccessTypeOK
    <2> QED BY <1>2, <1>4, <2>1 DEF Look, requestRows
  <1>5. ASSUME NEW s \in Slots, MakeRequest(s)  PROVE IdsInTurn'
    <2>1. s \in A /\ Asking' = A \ {s}
      BY <1>5 DEF MakeRequest, Asking, Becomes, Idle, AccessTypeOK
    <2>2. CASE task[s].found # NoRequest
      BY <1>2, <1>5, <2>1, <2>2 DEF MakeRequest
    <2>3. CASE task[s].found = NoRequest
      <3>1. Cardinality(M) + 1 \in Requests \ M
        BY <1>5, NextIdIsFree DEF MakeRequest
      <3>2. task[s] \in Tasks
        BY DEF AccessTypeOK
      <3>3. task[s].site \in Sites
        BY <1>5, <3>2, TaskFields DEF MakeRequest
      <3>4. status' = [status EXCEPT ![task[s].site][Cardinality(M) + 1] = "PENDING"]
        BY <1>5, <2>3 DEF MakeRequest
      <3>5. Made' = M \cup {Cardinality(M) + 1}
        <4>1. \A q \in Requests, w \in Sites :
                status'[w][q] = IF w = task[s].site /\ q = Cardinality(M) + 1
                                THEN "PENDING" ELSE status[w][q]
          BY <3>1, <3>3, <3>4 DEF AccessTypeOK
        <4>2. \A q \in Requests \ {Cardinality(M) + 1} : q \in Made' <=> q \in M
          BY <4>1 DEF Made
        <4>3. Cardinality(M) + 1 \in Made'
          BY <3>1, <3>3, <4>1 DEF Made
        <4>4. Made' \subseteq Requests /\ M \subseteq Requests
          BY DEF Made
        <4> QED BY <4>2, <4>3, <4>4
      <3>6. Made' = 1 .. Cardinality(Made') /\ Cardinality(Made') = Cardinality(M) + 1
        BY <1>0, <3>5, OneMoreId
      <3>7. Cardinality(Asking') = Cardinality(A) - 1
        BY <2>1, AccessFinite, FS_RemoveElement
      <3>8. Cardinality(Made') + Cardinality(Asking') <= MaxRequests
        BY <1>0, <3>6, <3>7
      <3> QED BY <3>6, <3>8 DEF IdsInTurn
    <2> QED BY <2>2, <2>3
  <1>6. ASSUME NEW s \in Slots, InsertRequest(s)  PROVE IdsInTurn'
    <2>1. task[s] \in Tasks
      BY DEF AccessTypeOK
    <2>2. task[s].of \in Requests /\ HasRow("EDGE", task[s].of)
      BY <1>6, <2>1, TaskFields DEF InsertRequest, CallsAreFounded
    <2>3. Made' = M
      BY <1>6, <2>2 DEF InsertRequest, Made, HasRow, AccessTypeOK, Sites
    <2>4. Asking' \subseteq A
      BY <1>6 DEF InsertRequest, Becomes, Finishing, Idle, Asking, AccessTypeOK
    <2> QED BY <1>1, <2>3, <2>4
  <1>7. ASSUME NEW w \in Sites, NEW q \in Requests, NEW v \in Verdicts, HasRow(w, q),
               Decide(w, q, v)
        PROVE  Made' = M
    BY <1>7 DEF Decide, Made, HasRow, AccessTypeOK, Verdicts
  <1>8. ASSUME NEW s \in Slots, Review(s)  PROVE IdsInTurn'
    <2>1. task[s] \in Tasks
      BY DEF AccessTypeOK
    <2>2. /\ task[s].site \in Sites /\ task[s].of \in Requests
          /\ HasRow(task[s].site, task[s].of)
      BY <1>8, <2>1, TaskFields DEF Review, CallsAreFounded
    <2>3. Made' = M
      BY <1>7, <1>8, <2>2 DEF Review
    <2>4. Asking' \subseteq A
      BY <1>8 DEF Review, Becomes, Idle, Asking, AccessTypeOK
    <2> QED BY <1>1, <2>3, <2>4
  <1>9. CASE ApplyVerdict
    <2>1. PICK p \in NextOf(run) : Decide("EDGE", answers[p].to, answers[p].verdict)
      BY <1>9 DEF ApplyVerdict
    <2>2. p \in DOMAIN answers /\ answers[p] \in Reviews
      BY <2>1 DEF NextOf, AccessTypeOK
    <2>3. Made' = M
      BY <1>7, <2>1, <2>2 DEF Reviews, RequestsExist, Sites
    <2>4. Asking' = A
      BY <1>9 DEF ApplyVerdict, Asking
    <2> QED BY <1>1, <2>3, <2>4
  <1>10. ASSUME NEW s \in Slots,
                \/ \E e \in Requests : Receive(s, e)
                \/ \E site \in Sites, r \in Requests : StartReview(s, site, r)
                \/ FindDuplicate(s) \/ LinkDuplicate(s) \/ Finish(s)
                \/ CallerGone(s) \/ Stop(s) \/ Resend(s)
         PROVE  IdsInTurn'
    <2>1. status' = status
      BY <1>10 DEF Receive, StartReview, FindDuplicate, LinkDuplicate, Finish, CallerGone,
                   Stop, Resend, requestRows
    <2>2. Asking' \subseteq A
      <3>1. ASSUME NEW t, t.step \notin {"look", "ask"}, Becomes(s, t)
            PROVE  Asking' \subseteq A
        BY <3>1 DEF Becomes, Asking, AccessTypeOK
      <3>2. CASE \E e \in Requests : Receive(s, e)
        BY <3>1, <3>2 DEF Receive, Asking
      <3>3. CASE \E site \in Sites, r \in Requests : StartReview(s, site, r)
        BY <3>1, <3>3 DEF StartReview
      <3>4. CASE FindDuplicate(s)
        BY <3>1, <3>4 DEF FindDuplicate
      <3>5. CASE CallerGone(s)
        <4>1. \A u \in Slots : task'[u].step = task[u].step
          BY <3>5, TaskFields DEF CallerGone, AccessTypeOK, Called
        <4> QED BY <4>1 DEF Asking
      <3>6. CASE LinkDuplicate(s) \/ Finish(s) \/ Stop(s) \/ Resend(s)
        BY <3>1, <3>6 DEF LinkDuplicate, Finish, Stop, Resend, Finishing, Idle
      <3> QED BY <1>10, <3>2, <3>3, <3>4, <3>5, <3>6
    <2> QED BY <1>2, <2>1, <2>2
  <1>11. CASE \/ StartPull \/ VerdictThrows \/ AckVerdict \/ AckLost \/ PullRestart
              \/ UNCHANGED accessVars
    <2>1. status' = status /\ Asking' = A
      BY <1>11 DEF StartPull, VerdictThrows, AckVerdict, AckLost, PullRestart, accessVars,
                   requestRows, Asking
    <2> QED BY <1>2, <2>1
  <1>12. ASSUME NEW s \in Slots, Look(s)  PROVE IdsInTurn'
    BY <1>4, <1>12 DEF Look, AccessTypeOK
  <1>13. "EDGE" \in Sites
    BY DEF Sites
  <1> QED
    BY <1>3, <1>5, <1>6, <1>8, <1>9, <1>10, <1>11, <1>12, <1>13 DEF AccessNext, Call, Step

\* A call that goes on, or ends, leaves the others where they are.
LEMMA OneCallMoves ==
  ASSUME AccessTypeOK, NEW s \in Slots, NEW t, Becomes(s, t)
  PROVE  task'[s] = t /\ \A u \in Slots \ {s} : task'[u] = task[u]
  BY DEF Becomes, AccessTypeOK

\* A review or a resend adds one message at most, at the end.
LEMMA OneAnswer ==
  ASSUME AccessTypeOK, NEW site, NEW r, NEW verdict, NEW to,
         to # NoRequest => [of |-> r, verdict |-> verdict, to |-> to] \in Reviews,
         Answer(site, r, verdict, to)
  PROVE  \/ /\ answers' = answers
            /\ \/ site = "EDGE"
               \/ to = NoRequest
               \/ \E p \in DOMAIN answers : answers[p].of = r /\ answers[p].verdict = verdict
         \/ /\ to # NoRequest
            /\ site # "EDGE"
            /\ answers' \in Seq(Reviews)
            /\ DOMAIN answers' = DOMAIN answers \cup {Len(answers) + 1}
            /\ Len(answers) + 1 \notin DOMAIN answers
            /\ answers'[Len(answers) + 1] = [of |-> r, verdict |-> verdict, to |-> to]
            /\ \A p \in DOMAIN answers : answers'[p] = answers[p]
  <1>1. CASE \/ site = "EDGE"
             \/ to = NoRequest
             \/ \E p \in DOMAIN answers : answers[p].of = r /\ answers[p].verdict = verdict
    BY <1>1 DEF Answer
  <1>2. CASE ~ \/ site = "EDGE"
               \/ to = NoRequest
               \/ \E p \in DOMAIN answers : answers[p].of = r /\ answers[p].verdict = verdict
    <2> DEFINE m == [of |-> r, verdict |-> verdict, to |-> to]
    <2>1. m \in Reviews /\ answers' = Append(answers, m)
      BY <1>2 DEF Answer
    <2> HIDE DEF m
    <2>2. answers \in Seq(Reviews)
      BY DEF AccessTypeOK
    <2>3. /\ answers' \in Seq(Reviews)
          /\ DOMAIN answers' = DOMAIN answers \cup {Len(answers) + 1}
          /\ Len(answers) + 1 \notin DOMAIN answers
          /\ answers'[Len(answers) + 1] = m
          /\ \A p \in DOMAIN answers : answers'[p] = answers[p]
      BY <2>1, <2>2
    <2> QED BY <1>2, <2>3 DEF m
  <1> QED BY <1>1, <1>2

\* The calls that send an answer have a row and a request for it.
LEMMA ReviewFields ==
  ASSUME AccessTypeOK, NEW s \in Slots, task[s].step = "review"
  PROVE  LET t == task[s] IN
         /\ t.site \in Sites /\ t.of \in Requests
         /\ t.to \in Requests \cup {NoRequest}
         /\ link[t.of] \in Requests \cup {NoRequest}
         /\ \A v \in Verdicts : \A to \in {t.to, link[t.of]} :
              to # NoRequest => [of |-> t.of, verdict |-> v, to |-> to] \in Reviews
  <1>1. task[s] \in Tasks
    BY DEF AccessTypeOK
  <1> QED BY <1>1, TaskFields DEF AccessTypeOK, Reviews

\* What links, events and messages are about keeps its row.
LEMMA RequestsStep ==
  ASSUME AccessTypeOK, IdsInTurn, RequestsExist, CallsAreFounded, [AccessNext]_accessVars
  PROVE  RequestsExist'
  <1> USE DEF HasRow
  <1>1. \A r \in Requests : status["EDGE"][r] # "NONE" => status'["EDGE"][r] # "NONE"
    BY RowsStay DEF Sites
  <1>2. ASSUME NEW s \in Slots, MakeRequest(s)
        PROVE  \A r \in Requests : outbox'[r] # "NONE" => status'["EDGE"][r] # "NONE"
    <2> DEFINE new == IF task[s].found = NoRequest THEN Cardinality(Made) + 1
                                                   ELSE task[s].found
    <2>1. task[s] \in Tasks
      BY DEF AccessTypeOK
    <2>2. new \in Requests
      BY <1>2, <2>1, TaskFields, NextIdIsFree DEF MakeRequest
    <2>3. task[s].site = "EDGE" => status'["EDGE"][new] # "NONE"
      <3>1. CASE task[s].found = NoRequest
        BY <1>2, <3>1, <2>2 DEF MakeRequest, AccessTypeOK, Sites
      <3>2. CASE task[s].found # NoRequest
        BY <1>2, <3>2 DEF MakeRequest, CallsAreFounded
      <3> QED BY <3>1, <3>2
    <2>4. /\ \A r \in Requests \ {new} : outbox'[r] = outbox[r]
          /\ outbox'[new] # outbox[new] => task[s].site = "EDGE"
      BY <1>2, <2>2 DEF MakeRequest, AccessTypeOK
    <2> QED BY <1>1, <2>3, <2>4 DEF RequestsExist
  <1>3. ASSUME NEW s \in Slots,
               (\E e \in Requests : Receive(s, e)) \/ Finish(s)
        PROVE  \A r \in Requests : outbox'[r] # "NONE" => status'["EDGE"][r] # "NONE"
    <2>1. PICK e \in Requests : /\ outbox' = outbox \/ outbox' = [outbox EXCEPT ![e] = "ACKED"]
                                /\ status["EDGE"][e] # "NONE"
      <3>1. CASE \E e \in Requests : Receive(s, e)
        BY <3>1 DEF Receive, RequestsExist
      <3>2. CASE Finish(s)
        <4>1. task[s] \in Tasks
          BY DEF AccessTypeOK
        <4> QED BY <3>2, <4>1, TaskFields DEF Finish, CallsAreFounded
      <3> QED BY <1>3, <3>1, <3>2
    <2> QED BY <1>1, <2>1 DEF RequestsExist, AccessTypeOK
  <1>4. \A r \in Requests : outbox'[r] # "NONE" => status'["EDGE"][r] # "NONE"
    <2>1. CASE UNCHANGED outbox
      BY <1>1, <2>1 DEF RequestsExist
    <2> QED
      BY <1>2, <1>3, <2>1
      DEF AccessNext, Call, Step, accessVars, channels, Ask, Look, FindDuplicate,
          LinkDuplicate, InsertRequest, CallerGone, Stop, StartReview, Review, Resend,
          StartPull, ApplyVerdict, VerdictThrows, AckVerdict, AckLost, PullRestart
  <1>5. \A r \in Requests : link'[r] # NoRequest =>
          status'["CLOUD"][r] # "NONE" /\ status'["EDGE"][link'[r]] # "NONE"
    <2>0. \A r \in Requests : status["CLOUD"][r] # "NONE" => status'["CLOUD"][r] # "NONE"
      BY RowsStay DEF Sites
    <2>1. CASE UNCHANGED link
      BY <1>1, <2>0, <2>1 DEF RequestsExist, AccessTypeOK
    <2>2. ASSUME NEW s \in Slots, LinkDuplicate(s) \/ InsertRequest(s)
          PROVE  \A r \in Requests : link'[r] # NoRequest =>
                   status'["CLOUD"][r] # "NONE" /\ status'["EDGE"][link'[r]] # "NONE"
      <3>1. task[s] \in Tasks /\ task[s].step = "write"
        BY <2>2 DEF AccessTypeOK, LinkDuplicate, InsertRequest
      <3>2. /\ task[s].of \in Requests /\ status["EDGE"][task[s].of] # "NONE"
        BY <3>1, TaskFields DEF CallsAreFounded
      <3>3. \A r \in Requests :
              link'[r] # link[r] => link'[r] = task[s].of /\ status'["CLOUD"][r] # "NONE"
        <4>1. CASE LinkDuplicate(s)
          BY <2>0, <3>1, <4>1, TaskFields DEF LinkDuplicate, CallsAreFounded, AccessTypeOK
        <4>2. CASE InsertRequest(s)
          BY <3>2, <4>2 DEF InsertRequest, AccessTypeOK, Sites
        <4> QED BY <2>2, <4>1, <4>2
      <3> QED BY <1>1, <2>0, <3>2, <3>3 DEF RequestsExist, AccessTypeOK
    <2> QED
      BY <2>1, <2>2
      DEF AccessNext, Call, Step, accessVars, requestRows, Ask, Look, MakeRequest, Receive,
          FindDuplicate, Finish, CallerGone, Stop, StartReview, Review, Resend,
          StartPull, ApplyVerdict, VerdictThrows, AckVerdict, AckLost, PullRestart
  <1>6. \A p \in DOMAIN answers' : status'["EDGE"][answers'[p].to] # "NONE"
    <2>1. \A p \in DOMAIN answers : /\ answers[p].to \in Requests
                                    /\ status'["EDGE"][answers[p].to] # "NONE"
      <3>1. \A p \in DOMAIN answers : answers[p] \in Reviews
        BY DEF AccessTypeOK
      <3> QED BY <1>1, <3>1 DEF RequestsExist, Reviews
    <2>2. CASE UNCHANGED answers
      BY <2>1, <2>2
    <2>3. ASSUME NEW s \in Slots, Review(s) \/ Resend(s)
          PROVE  \A p \in DOMAIN answers' : status'["EDGE"][answers'[p].to] # "NONE"
      <3>1. PICK v \in Verdicts, to \in {task[s].to, link[task[s].of]} :
              Answer(task[s].site, task[s].of, v, to)
        BY <2>3 DEF Review, Resend
      <3>2. task[s].step = "review"
        BY <2>3 DEF Review, Resend
      <3>3. to # NoRequest => [of |-> task[s].of, verdict |-> v, to |-> to] \in Reviews
        BY <3>1, <3>2, ReviewFields
      <3>4. to # NoRequest => to \in Requests /\ status["EDGE"][to] # "NONE"
        BY <3>1, <3>2, ReviewFields DEF RequestsExist, CallsAreFounded
      <3>5. \A p \in DOMAIN answers' :
              \/ p \in DOMAIN answers /\ answers'[p] = answers[p]
              \/ to # NoRequest /\ answers'[p].to = to
        BY <3>1, <3>3, OneAnswer
      <3> QED BY <1>1, <2>1, <3>4, <3>5
    <2> QED
      BY <2>2, <2>3
      DEF AccessNext, Call, Step, accessVars, channels, Ask, Look, MakeRequest, Receive,
          FindDuplicate, LinkDuplicate, InsertRequest, Finish, CallerGone, Stop, StartReview,
          StartPull, ApplyVerdict, VerdictThrows, AckVerdict, AckLost, PullRestart
  <1> QED BY <1>4, <1>5, <1>6 DEF RequestsExist

\* What a call has read stays, and the next step is about the same request.
LEMMA CallsStep ==
  ASSUME AccessTypeOK, IdsInTurn, RequestsExist, CallsAreFounded, [AccessNext]_accessVars
  PROVE  CallsAreFounded'
  <1> USE DEF HasRow
  <1> DEFINE Founded(t, st) ==
               /\ t.step = "ask" /\ t.found # NoRequest => st[t.site][t.found] # "NONE"
               /\ t.step \in {"duplicate", "write", "finish"} => st["EDGE"][t.of] # "NONE"
               /\ t.step = "write" /\ t.found # NoRequest => st["CLOUD"][t.found] # "NONE"
               /\ t.step = "review" =>
                    /\ st[t.site][t.of] # "NONE"
                    /\ t.to # NoRequest => st["EDGE"][t.to] # "NONE"
                    /\ t.seen \in Verdicts =>
                         t.site = "CLOUD" /\ st["CLOUD"][t.of] \in Verdicts
  <1>1. \A site \in Sites, r \in Requests :
          /\ status[site][r] # "NONE" => status'[site][r] # "NONE"
          /\ status[site][r] \in Verdicts => status'[site][r] \in Verdicts
    BY RowsStay DEF DecidedAt
  <1>2. \A s \in Slots : task[s] \in Tasks /\ Founded(task[s], status)
    BY TaskFields DEF CallsAreFounded, AccessTypeOK, DecidedAt
  <1>3. \A t \in Tasks : Founded(t, status) => Founded(t, status')
    BY <1>1, TaskFields DEF Sites
  <1>4. SUFFICES \A s \in Slots : Founded(task'[s], status')
    <2>1. AccessTypeOK'
      BY AccessTypeStep
    <2>2. \A s \in Slots : task'[s] \in Tasks
      BY <2>1 DEF AccessTypeOK
    <2> QED BY <1>4, <2>2, TaskFields DEF CallsAreFounded, DecidedAt
  <1>5. ASSUME NEW s \in Slots, NEW t \in Tasks, Becomes(s, t), Founded(t, status)
        PROVE  \A u \in Slots : Founded(task'[u], status')
    BY <1>2, <1>3, <1>5, OneCallMoves
  <1> HIDE DEF Founded
  <1>6. Idle \in Tasks /\ Founded(Idle, status)
    BY DEF Idle, Tasks, Founded
  <1>7. ASSUME NEW s \in Slots,
               \/ \E site \in Sites, old \in BOOLEAN : Ask(s, site, old)
               \/ MakeRequest(s) \/ Finish(s) \/ Stop(s) \/ Review(s) \/ Resend(s)
        PROVE  \A u \in Slots : Founded(task'[u], status')
    <2>1. \A site \in Sites, old \in BOOLEAN :
            LET t == [step |-> "look", site |-> site, old |-> old]
            IN  t \in Tasks /\ Founded(t, status)
      BY DEF Tasks, Founded
    <2> QED BY <1>5, <1>6, <1>7, <2>1 DEF Ask, MakeRequest, Finish, Stop, Review, Resend
  <1>8. ASSUME NEW s \in Slots, Look(s)
        PROVE  \A u \in Slots : Founded(task'[u], status')
    <2>1. PICK r \in AnyOf(PendingAt(task[s].site)) :
            Becomes(s, IF r # NoRequest /\ (task[s].old \/ task[s].site = "CLOUD")
                       THEN Idle
                       ELSE [step |-> "ask", site |-> task[s].site, old |-> task[s].old,
                             found |-> r])
      BY <1>8 DEF Look
    <2>2. /\ task[s].site \in Sites /\ task[s].old \in BOOLEAN
          /\ r \in Requests \cup {NoRequest}
          /\ r # NoRequest => status[task[s].site][r] = "PENDING"
      BY <1>2, <1>8, TaskFields DEF Look, AnyOf, PendingAt
    <2> DEFINE t == [step |-> "ask", site |-> task[s].site, old |-> task[s].old, found |-> r]
    <2>3. t \in Tasks /\ Founded(t, status)
      BY <2>2 DEF Tasks, Founded
    <2> QED BY <1>5, <1>6, <2>1, <2>3
  <1>9. ASSUME NEW s \in Slots, NEW e \in Requests, Receive(s, e)
        PROVE  \A u \in Slots : Founded(task'[u], status')
    <2> DEFINE t == [step |-> IF "CLOUD" \in granted \/ status["CLOUD"][e] # "NONE"
                              THEN "finish" ELSE "duplicate",
                     of |-> e, called |-> TRUE]
    <2>1. task' = task \/ Becomes(s, t)
      BY <1>9 DEF Receive
    <2>2. status["EDGE"][e] # "NONE"
      BY <1>9 DEF Receive, RequestsExist
    <2>3. t \in Tasks /\ Founded(t, status)
      BY <2>2 DEF Tasks, Founded
    <2> QED BY <1>2, <1>3, <1>5, <2>1, <2>3
  <1>10. ASSUME NEW s \in Slots, FindDuplicate(s)
         PROVE  \A u \in Slots : Founded(task'[u], status')
    <2>1. PICK r \in AnyOf(PendingAt("CLOUD")) :
            Becomes(s, [step |-> "write", of |-> task[s].of, called |-> task[s].called,
                        found |-> r])
      BY <1>10 DEF FindDuplicate
    <2>2. /\ task[s].of \in Requests /\ task[s].called \in BOOLEAN
          /\ status["EDGE"][task[s].of] # "NONE"
          /\ r \in Requests \cup {NoRequest}
          /\ r # NoRequest => status["CLOUD"][r] = "PENDING"
      BY <1>2, <1>10, TaskFields DEF FindDuplicate, AnyOf, PendingAt, Founded
    <2> DEFINE t == [step |-> "write", of |-> task[s].of, called |-> task[s].called,
                     found |-> r]
    <2>3. t \in Tasks /\ Founded(t, status)
      BY <2>2 DEF Tasks, Founded
    <2> QED BY <1>5, <2>1, <2>3
  <1>11. ASSUME NEW s \in Slots, LinkDuplicate(s) \/ InsertRequest(s)
         PROVE  \A u \in Slots : Founded(task'[u], status')
    <2> DEFINE t == Finishing(task[s])
    <2>1. Becomes(s, t) \/ Becomes(s, Idle)
      BY <1>11 DEF LinkDuplicate, InsertRequest
    <2>2. /\ task[s].of \in Requests /\ task[s].called \in BOOLEAN
          /\ status["EDGE"][task[s].of] # "NONE"
      BY <1>2, <1>11, TaskFields DEF LinkDuplicate, InsertRequest, Founded
    <2>3. t \in Tasks /\ Founded(t, status)
      BY <2>2 DEF Tasks, Founded, Finishing
    <2> QED BY <1>5, <1>6, <2>1, <2>3
  <1>12. ASSUME NEW s \in Slots, CallerGone(s)
         PROVE  \A u \in Slots : Founded(task'[u], status')
    <2> DEFINE t == [task[s] EXCEPT !.called = FALSE]
    <2>1. task[s].step \in {"duplicate", "write", "finish"} /\ Becomes(s, t)
      BY <1>12 DEF CallerGone, Called, Becomes
    <2>2. t \in Tasks
      BY <1>2, <2>1, CallWithoutCaller
    <2>3. t.step = task[s].step /\ t.of = task[s].of
          /\ (task[s].step = "write" => t.found = task[s].found)
      BY <1>2, <2>1 DEF Tasks
    <2>4. Founded(t, status)
      BY <1>2, <2>1, <2>3 DEF Founded
    <2> QED BY <1>5, <2>1, <2>2, <2>4
  <1>13. ASSUME NEW s \in Slots, NEW site \in Sites, NEW r \in Requests,
                StartReview(s, site, r)
         PROVE  \A u \in Slots : Founded(task'[u], status')
    <2> DEFINE t == [step |-> "review", site |-> site, of |-> r,
                     seen |-> status[site][r], to |-> link[r]]
    <2>1. Becomes(s, t)
      BY <1>13 DEF StartReview
    <2>2. /\ status[site][r] \in Verdicts \cup {"PENDING"}
          /\ status[site][r] \in Verdicts => site = "CLOUD"
      BY <1>13 DEF StartReview, PendingAt, DecidedAt, Verdicts
    <2>3. link[r] \in Requests \cup {NoRequest}
          /\ (link[r] # NoRequest => status["EDGE"][link[r]] # "NONE")
      BY DEF AccessTypeOK, RequestsExist
    <2>4. t \in Tasks /\ Founded(t, status)
      BY <2>2, <2>3 DEF Tasks, Founded, Verdicts
    <2> QED BY <1>5, <2>1, <2>4
  <1>14. CASE UNCHANGED task
    BY <1>2, <1>3, <1>14
  <1> QED
    BY <1>7, <1>8, <1>9, <1>10, <1>11, <1>12, <1>13, <1>14
    DEF AccessNext, Call, Step, accessVars, StartPull, ApplyVerdict, VerdictThrows,
        AckVerdict, AckLost, PullRestart, Sites

\* A request that is known to the cloud stays known: a link that is overwritten
\* is one that was replaced.
LEMMA KnownStays ==
  ASSUME AccessTypeOK, IdsInTurn, RequestsExist, CallsAreFounded, [AccessNext]_accessVars
  PROVE  \A e \in Requests : Known(e) => Known(e)'
  <1> SUFFICES ASSUME NEW e \in Requests, Known(e) PROVE Known(e)'
    OBVIOUS
  <1>1. CASE status["CLOUD"][e] # "NONE"
    BY <1>1, RowsStay DEF Known, HasRow, Sites
  <1>2. CASE "CLOUD" \in granted
    <2>1. CASE ApplyVerdict \/ \E s \in Slots : Review(s)
      <3>1. granted \subseteq granted'
        BY <2>1 DEF ApplyVerdict, Review, Decide
      <3> QED BY <1>2, <3>1 DEF Known
    <2>2. CASE ~ (ApplyVerdict \/ \E s \in Slots : Review(s))
      <3>1. granted' = granted
        BY <2>2 DEF AccessNext, Call, Step, accessVars, requestRows, Ask, Look, MakeRequest,
                    Receive, FindDuplicate, LinkDuplicate, InsertRequest, Finish, CallerGone,
                    Stop, StartReview, Resend, StartPull, VerdictThrows, AckVerdict, AckLost,
                    PullRestart
      <3> QED BY <1>2, <3>1 DEF Known
    <2> QED BY <2>1, <2>2
  <1>3. CASE e \in replaced
    <2>1. replaced \subseteq replaced'
      BY DEF AccessNext, Call, Step, accessVars, accessHistory, Ask, Look, MakeRequest,
             Receive, FindDuplicate, LinkDuplicate, InsertRequest, Finish, CallerGone, Stop,
             StartReview, Review, Resend, StartPull, ApplyVerdict, VerdictThrows,
             AckVerdict, AckLost, PullRestart
    <2> QED BY <1>3, <2>1 DEF Known
  <1>4. ASSUME NEW r \in Requests, link[r] = e  PROVE Known(e)'
    <2>1. CASE UNCHANGED link
      BY <1>4, <2>1 DEF Known
    <2>2. ASSUME NEW s \in Slots, LinkDuplicate(s)  PROVE Known(e)'
      <3>1. \/ link'[r] = e
            \/ r = task[s].found /\ e # task[s].of
        BY <1>4, <2>2 DEF LinkDuplicate, AccessTypeOK
      <3>2. CASE link'[r] = e
        BY <3>2 DEF Known
      <3>3. CASE r = task[s].found /\ e # task[s].of
        BY <1>4, <2>2, <3>3 DEF LinkDuplicate, Known, Requests, NoRequest
      <3> QED BY <3>1, <3>2, <3>3
    <2>3. ASSUME NEW s \in Slots, InsertRequest(s)  PROVE Known(e)'
      <3>1. status["CLOUD"][r] # "NONE"
        BY <1>4 DEF RequestsExist, HasRow, Requests, NoRequest
      <3>2. link'[r] = e
        BY <1>4, <2>3, <3>1 DEF InsertRequest, AccessTypeOK
      <3> QED BY <3>2 DEF Known
    <2> QED
      BY <2>1, <2>2, <2>3
      DEF AccessNext, Call, Step, accessVars, requestRows, Ask, Look, MakeRequest, Receive,
          FindDuplicate, Finish, CallerGone, Stop, StartReview, Review, Resend,
          StartPull, ApplyVerdict, VerdictThrows, AckVerdict, AckLost, PullRestart
  <1> QED BY <1>1, <1>2, <1>3, <1>4 DEF Known

\* A handler comes to its end with the request known, and only then is its
\* event marked and acknowledged.
LEMMA HandledStep ==
  ASSUME AccessTypeOK, IdsInTurn, RequestsExist, CallsAreFounded, HandledIsKnown,
         [AccessNext]_accessVars
  PROVE  HandledIsKnown'
  <1> DEFINE K == {e \in Requests : Known(e)'}
  <1>1. \A e \in Requests : Known(e) => e \in K
    BY KnownStays
  <1>2. \A s \in Slots : /\ task[s] \in Tasks
                         /\ task[s].step = "finish" => task[s].of \in K
    BY <1>1, TaskFields DEF HandledIsKnown, AccessTypeOK
  <1>3. inbox \subseteq K /\ \A e \in Requests : outbox[e] = "ACKED" => e \in K
    BY <1>1 DEF HandledIsKnown, AccessTypeOK
  <1> DEFINE Goal == /\ inbox' \subseteq K
                     /\ \A e \in Requests : outbox'[e] = "ACKED" => e \in K
                     /\ \A s \in Slots : task'[s].step = "finish" => task'[s].of \in K
  <1>4. SUFFICES Goal
    BY <1>4 DEF HandledIsKnown
  <1> HIDE DEF K
  <1>5. ASSUME NEW s \in Slots, NEW t, Becomes(s, t),
               t.step # "finish" \/ t.of \in K
        PROVE  \A u \in Slots : task'[u].step = "finish" => task'[u].of \in K
    BY <1>2, <1>5, OneCallMoves
  <1>6. ASSUME UNCHANGED <<outbox, inbox>>
        PROVE  inbox' \subseteq K /\ \A e \in Requests : outbox'[e] = "ACKED" => e \in K
    BY <1>3, <1>6
  <1>7. ASSUME NEW s \in Slots, NEW site, NEW old, Ask(s, site, old)
        PROVE  Goal
    BY <1>5, <1>6, <1>7 DEF Ask, channels
  <1>8. ASSUME NEW s \in Slots, Look(s) \/ FindDuplicate(s) \/ Stop(s)  PROVE Goal
    BY <1>5, <1>6, <1>8 DEF Look, FindDuplicate, Stop, Idle, channels
  <1>9. ASSUME NEW s \in Slots, MakeRequest(s)  PROVE Goal
    BY <1>3, <1>5, <1>9 DEF MakeRequest, Idle, AccessTypeOK
  <1>10. ASSUME NEW s \in Slots, NEW e \in Requests, Receive(s, e)  PROVE Goal
    <2>1. CASE e \in inbox
      BY <1>2, <1>3, <1>10, <2>1 DEF Receive, AccessTypeOK
    <2>2. CASE e \notin inbox
      <3>1. "CLOUD" \in granted \/ status["CLOUD"][e] # "NONE" => e \in K
        BY <1>1 DEF Known
      <3> QED BY <1>5, <1>6, <1>10, <2>2, <3>1 DEF Receive
    <2> QED BY <2>1, <2>2
  <1>11. ASSUME NEW s \in Slots, LinkDuplicate(s)  PROVE Goal
    <2>1. task[s].of \in Requests /\ task[s].found \in Requests
      BY <1>2, <1>11, TaskFields DEF LinkDuplicate
    <2>2. link'[task[s].found] = task[s].of
      BY <1>11, <2>1 DEF LinkDuplicate, AccessTypeOK
    <2>3. task[s].of \in K
      BY <2>1, <2>2 DEF Known, K
    <2> QED BY <1>5, <1>6, <1>11, <2>3 DEF LinkDuplicate, Finishing, channels
  <1>12. ASSUME NEW s \in Slots, InsertRequest(s)  PROVE Goal
    <2>1. task[s].of \in Requests
      BY <1>2, <1>12, TaskFields DEF InsertRequest
    <2>2. CASE status["CLOUD"][task[s].of] = "NONE"
      <3>1. status'["CLOUD"][task[s].of] = "PENDING"
        BY <1>12, <2>1, <2>2 DEF InsertRequest, AccessTypeOK, Sites
      <3>2. task[s].of \in K
        BY <2>1, <3>1 DEF Known, K
      <3> QED BY <1>5, <1>6, <1>12, <2>2, <3>2 DEF InsertRequest, Finishing, channels
    <2>3. CASE status["CLOUD"][task[s].of] # "NONE"
      BY <1>5, <1>6, <1>12, <2>3 DEF InsertRequest, Idle, channels
    <2> QED BY <2>2, <2>3
  <1>13. ASSUME NEW s \in Slots, Finish(s)  PROVE Goal
    <2>1. task[s].of \in K
      BY <1>2, <1>13 DEF Finish
    <2> QED BY <1>3, <1>5, <1>13, <2>1 DEF Finish, Idle, AccessTypeOK
  <1>14. ASSUME NEW s \in Slots, CallerGone(s)  PROVE Goal
    <2>1. \A u \in Slots : task'[u].step = task[u].step
                           /\ (task[u].step = "finish" => task'[u].of = task[u].of)
      BY <1>2, <1>14, TaskFields DEF CallerGone, AccessTypeOK, Called
    <2> QED BY <1>2, <1>6, <1>14, <2>1 DEF CallerGone, channels
  <1>15. ASSUME NEW s \in Slots,
                \/ \E site \in Sites, r \in Requests : StartReview(s, site, r)
                \/ Review(s) \/ Resend(s)
         PROVE  Goal
    BY <1>5, <1>6, <1>15 DEF StartReview, Review, Resend, Idle, channels
  <1>16. CASE \/ StartPull \/ ApplyVerdict \/ VerdictThrows \/ AckVerdict \/ AckLost
              \/ PullRestart \/ UNCHANGED accessVars
    <2>1. UNCHANGED <<outbox, inbox, task>>
      BY <1>16 DEF StartPull, ApplyVerdict, VerdictThrows, AckVerdict, AckLost,
                   PullRestart, accessVars, channels
    <2> QED BY <1>2, <1>6, <2>1
  <1> QED
    BY <1>7, <1>8, <1>9, <1>10, <1>11, <1>12, <1>13, <1>14, <1>15, <1>16
    DEF AccessNext, Call, Step

\* Access is given with every approval and with nothing else, and an approval
\* goes only when the other verdict is written over it.
LEMMA FollowsStep ==
  ASSUME AccessTypeOK, IdsInTurn, AccessFollowsVerdict, [AccessNext]_accessVars
  PROVE  AccessFollowsVerdict'
  <1> DEFINE Approved(st, site) == \E r \in Requests : st[site][r] = "APPROVED"
             Over(o, site) == \E r \in Requests : <<site, r>> \in o
             F(st, g, o) == \A site \in Sites :
                              /\ Approved(st, site) => site \in g
                              /\ site \in g => Approved(st, site) \/ Over(o, site)
  <1>1. F(status, granted, overruled)
    BY DEF AccessFollowsVerdict
  <1>2. SUFFICES F(status', granted', overruled')
    BY <1>2 DEF AccessFollowsVerdict
  <1>3. ASSUME NEW w \in Sites, NEW q \in Requests, status[w][q] = "NONE",
               status' = [status EXCEPT ![w][q] = "PENDING"],
               UNCHANGED <<granted, overruled>>
        PROVE  F(status', granted', overruled')
    <2>1. \A site \in Sites : Approved(status', site) <=> Approved(status, site)
      BY <1>3 DEF AccessTypeOK
    <2> QED BY <1>1, <1>3, <2>1
  <1>4. ASSUME NEW w \in Sites, NEW q \in Requests, NEW v \in Verdicts, Decide(w, q, v)
        PROVE  F(status', granted', overruled')
    <2>1. \A site \in Sites, r \in Requests :
            status'[site][r] = IF site = w /\ r = q THEN v ELSE status[site][r]
      BY <1>4 DEF Decide, AccessTypeOK
    <2>2. granted' = (IF v = "APPROVED" THEN granted \cup {w} ELSE granted)
          /\ overruled \subseteq overruled'
      BY <1>4 DEF Decide
    <2>3. \A site \in Sites : Approved(status', site) => site \in granted'
      BY <1>1, <2>1, <2>2
    <2>4. ASSUME NEW site \in Sites, site \in granted'
          PROVE  Approved(status', site) \/ Over(overruled', site)
      <3>1. CASE site = w /\ v = "APPROVED"
        BY <2>1, <3>1
      <3>2. CASE ~ (site = w /\ v = "APPROVED")
        <4>1. Approved(status, site) \/ Over(overruled, site)
          BY <1>1, <2>2, <2>4, <3>2
        <4>2. CASE Over(overruled, site)
          BY <2>2, <4>2
        <4>3. ASSUME NEW r \in Requests, status[site][r] = "APPROVED"
              PROVE  Approved(status', site) \/ Over(overruled', site)
          <5>1. CASE site = w /\ r = q
            <6>1. <<w, q>> \in overruled'
              BY <1>4, <3>2, <4>3, <5>1 DEF Decide, Verdicts
            <6> QED BY <5>1, <6>1
          <5>2. CASE ~ (site = w /\ r = q)
            BY <2>1, <4>3, <5>2
          <5> QED BY <5>1, <5>2
        <4> QED BY <4>1, <4>2, <4>3
      <3> QED BY <3>1, <3>2
    <2> QED BY <2>3, <2>4
  <1>5. CASE UNCHANGED <<status, granted, overruled>>
    BY <1>1, <1>5
  <1> HIDE DEF F
  <1>6. ASSUME NEW s \in Slots, MakeRequest(s)  PROVE F(status', granted', overruled')
    <2>1. CASE task[s].found = NoRequest
      <3>1. task[s] \in Tasks /\ Cardinality(Made) + 1 \in Requests \ Made
        BY <1>6, NextIdIsFree DEF MakeRequest, AccessTypeOK
      <3>2. task[s].site \in Sites
        BY <1>6, <3>1, TaskFields DEF MakeRequest
      <3>3. status[task[s].site][Cardinality(Made) + 1] = "NONE"
        BY <3>1, <3>2 DEF Made
      <3>4. status' = [status EXCEPT ![task[s].site][Cardinality(Made) + 1] = "PENDING"]
            /\ UNCHANGED <<granted, overruled>>
        BY <1>6, <2>1 DEF MakeRequest, accessHistory
      <3> QED BY <1>3, <3>1, <3>2, <3>3, <3>4
    <2>2. CASE task[s].found # NoRequest
      BY <1>5, <1>6, <2>2 DEF MakeRequest, accessHistory
    <2> QED BY <2>1, <2>2
  <1>7. ASSUME NEW s \in Slots, InsertRequest(s)  PROVE F(status', granted', overruled')
    <2>1. task[s] \in Tasks
      BY DEF AccessTypeOK
    <2>2. task[s].of \in Requests
      BY <1>7, <2>1, TaskFields DEF InsertRequest
    <2> QED BY <1>3, <1>5, <1>7, <2>2 DEF InsertRequest, accessHistory, Sites
  <1>8. ASSUME NEW s \in Slots, Review(s)  PROVE F(status', granted', overruled')
    <2>1. task[s].site \in Sites /\ task[s].of \in Requests
      BY <1>8, ReviewFields DEF Review
    <2> QED BY <1>4, <1>8, <2>1 DEF Review
  <1>9. CASE ApplyVerdict
    <2>1. PICK p \in NextOf(run) : Decide("EDGE", answers[p].to, answers[p].verdict)
      BY <1>9 DEF ApplyVerdict
    <2>2. answers[p] \in Reviews
      BY <2>1 DEF NextOf, AccessTypeOK
    <2> QED BY <1>4, <2>1, <2>2 DEF Reviews, Sites
  <1> QED
    BY <1>5, <1>6, <1>7, <1>8, <1>9
    DEF AccessNext, Call, Step, accessVars, requestRows, accessHistory, Ask, Look, Receive,
        FindDuplicate, LinkDuplicate, Finish, CallerGone, Stop, StartReview, Resend,
        StartPull, VerdictThrows, AckVerdict, AckLost, PullRestart

\* Messages are only added.
LEMMA AnswersGrow ==
  ASSUME AccessTypeOK, [AccessNext]_accessVars
  PROVE  \A p \in DOMAIN answers : p \in DOMAIN answers' /\ answers'[p] = answers[p]
  <1>1. CASE UNCHANGED answers
    BY <1>1
  <1>2. ASSUME NEW s \in Slots, Review(s) \/ Resend(s)
        PROVE  \A p \in DOMAIN answers : p \in DOMAIN answers' /\ answers'[p] = answers[p]
    <2>1. PICK v \in Verdicts, to \in {task[s].to, link[task[s].of]} :
            Answer(task[s].site, task[s].of, v, to)
      BY <1>2 DEF Review, Resend
    <2>2. to # NoRequest => [of |-> task[s].of, verdict |-> v, to |-> to] \in Reviews
      BY <1>2, <2>1, ReviewFields DEF Review, Resend
    <2> QED BY <2>1, <2>2, OneAnswer
  <1> QED
    BY <1>1, <1>2
    DEF AccessNext, Call, Step, accessVars, channels, Ask, Look, MakeRequest, Receive,
        FindDuplicate, LinkDuplicate, InsertRequest, Finish, CallerGone, Stop, StartReview,
        StartPull, ApplyVerdict, VerdictThrows, AckVerdict, AckLost, PullRestart

\* A link is given to a row that is not decided, or the row counts as late.
LEMMA DecidedLinksStay ==
  ASSUME AccessTypeOK, CallsAreFounded, [AccessNext]_accessVars
  PROVE  /\ late \subseteq late'
         /\ \A r \in DecidedAt("CLOUD") \ late' : link'[r] = link[r]
  <1>1. CASE UNCHANGED <<link, late>>
    BY <1>1
  <1>2. ASSUME NEW s \in Slots, LinkDuplicate(s)
        PROVE  /\ late \subseteq late'
               /\ \A r \in DecidedAt("CLOUD") \ late' : link'[r] = link[r]
    BY <1>2 DEF LinkDuplicate, AccessTypeOK, DecidedAt
  <1>3. ASSUME NEW s \in Slots, InsertRequest(s)
        PROVE  /\ late \subseteq late'
               /\ \A r \in DecidedAt("CLOUD") \ late' : link'[r] = link[r]
    BY <1>3 DEF InsertRequest, accessHistory, AccessTypeOK, DecidedAt, Verdicts
  <1> QED
    BY <1>1, <1>2, <1>3
    DEF AccessNext, Call, Step, accessVars, requestRows, accessHistory, Ask, Look,
        MakeRequest, Receive, FindDuplicate, Finish, CallerGone, Stop, StartReview, Review,
        Resend, StartPull, ApplyVerdict, VerdictThrows, AckVerdict, AckLost, PullRestart

\* What a review or a resend adds is about a decided row and follows its link.
LEMMA FollowLinksStep ==
  ASSUME AccessTypeOK, IdsInTurn, CallsAreFounded, AnswersFollowLinks,
         [AccessNext]_accessVars
  PROVE  AnswersFollowLinks'
  <1>1. \A r \in DecidedAt("CLOUD") :
          /\ r \in DecidedAt("CLOUD")'
          /\ r \notin late' => r \notin late /\ link'[r] = link[r]
    BY RowsStay, DecidedLinksStay DEF DecidedAt, Sites
  <1>2. \A p \in DOMAIN answers :
          /\ answers[p].of \in DecidedAt("CLOUD")'
          /\ answers[p].of \notin late' => answers[p].to = link'[answers[p].of]
    BY <1>1 DEF AnswersFollowLinks
  <1>3. \A p \in DOMAIN answers' :
          /\ answers'[p].of \in DecidedAt("CLOUD")'
          /\ answers'[p].of \notin late' => answers'[p].to = link'[answers'[p].of]
    <2>1. CASE UNCHANGED answers
      BY <1>2, <2>1
    <2>2. ASSUME NEW s \in Slots, Review(s)
          PROVE  \A p \in DOMAIN answers' :
                   /\ answers'[p].of \in DecidedAt("CLOUD")'
                   /\ answers'[p].of \notin late' => answers'[p].to = link'[answers'[p].of]
      <3>1. PICK v \in Verdicts : /\ Decide(task[s].site, task[s].of, v)
                                  /\ Answer(task[s].site, task[s].of, v, link[task[s].of])
        BY <2>2 DEF Review
      <3>2. /\ task[s].site \in Sites /\ task[s].of \in Requests
            /\ link[task[s].of] # NoRequest =>
                 [of |-> task[s].of, verdict |-> v, to |-> link[task[s].of]] \in Reviews
        BY <2>2, ReviewFields DEF Review
      <3>3. task[s].site = "CLOUD" => task[s].of \in DecidedAt("CLOUD")'
        BY <3>1, <3>2 DEF Decide, DecidedAt, AccessTypeOK
      <3>4. link' = link
        BY <2>2 DEF Review
      <3>5. \A p \in DOMAIN answers' :
              \/ p \in DOMAIN answers /\ answers'[p] = answers[p]
              \/ /\ task[s].site # "EDGE"
                 /\ answers'[p].of = task[s].of
                 /\ answers'[p].to = link[task[s].of]
        BY <3>1, <3>2, OneAnswer
      <3> QED BY <1>2, <3>2, <3>3, <3>4, <3>5 DEF Sites
    <2>3. ASSUME NEW s \in Slots, Resend(s)
          PROVE  \A p \in DOMAIN answers' :
                   /\ answers'[p].of \in DecidedAt("CLOUD")'
                   /\ answers'[p].of \notin late' => answers'[p].to = link'[answers'[p].of]
      <3>1. /\ Answer(task[s].site, task[s].of, task[s].seen, task[s].to)
            /\ task[s].step = "review" /\ task[s].seen \in Verdicts
        BY <2>3 DEF Resend
      <3>2. task[s].to # NoRequest =>
              [of |-> task[s].of, verdict |-> task[s].seen, to |-> task[s].to] \in Reviews
        BY <3>1, ReviewFields
      <3>3. /\ task[s].of \in DecidedAt("CLOUD")
            /\ task[s].of \notin late => task[s].to = link[task[s].of]
        BY <3>1 DEF CallsAreFounded, AnswersFollowLinks
      <3>4. \A p \in DOMAIN answers' :
              \/ p \in DOMAIN answers /\ answers'[p] = answers[p]
              \/ answers'[p].of = task[s].of /\ answers'[p].to = task[s].to
        BY <3>1, <3>2, OneAnswer
      <3> QED BY <1>1, <1>2, <3>3, <3>4
    <2> QED
      BY <2>1, <2>2, <2>3
      DEF AccessNext, Call, Step, accessVars, channels, Ask, Look, MakeRequest, Receive,
          FindDuplicate, LinkDuplicate, InsertRequest, Finish, CallerGone, Stop, StartReview,
          StartPull, ApplyVerdict, VerdictThrows, AckVerdict, AckLost, PullRestart
  <1> DEFINE ToLink(t, l, k) ==
               t.step = "review" /\ t.seen \in Verdicts /\ t.of \notin l => t.to = k[t.of]
  <1>4. \A s \in Slots : ToLink(task[s], late', link')
    BY <1>1 DEF AnswersFollowLinks, CallsAreFounded
  <1>5. \A s \in Slots : ToLink(task'[s], late', link')
    <2>1. ASSUME NEW s \in Slots, NEW t, Becomes(s, t), ToLink(t, late', link')
          PROVE  \A u \in Slots : ToLink(task'[u], late', link')
      BY <1>4, <2>1, OneCallMoves
    <2>2. ASSUME NEW s \in Slots, NEW t, Becomes(s, t), t.step # "review"
          PROVE  \A u \in Slots : ToLink(task'[u], late', link')
      BY <2>1, <2>2
    <2>3. ASSUME NEW s \in Slots, NEW site, NEW r \in Requests, StartReview(s, site, r)
          PROVE  \A u \in Slots : ToLink(task'[u], late', link')
      BY <2>1, <2>3 DEF StartReview, requestRows
    <2> HIDE DEF ToLink
    <2>4. ASSUME NEW s \in Slots,
                 \/ \E site, old : Ask(s, site, old)
                 \/ Look(s) \/ MakeRequest(s) \/ FindDuplicate(s) \/ LinkDuplicate(s)
          PROVE  \A u \in Slots : ToLink(task'[u], late', link')
      BY <2>2, <2>4 DEF Ask, Look, MakeRequest, FindDuplicate, LinkDuplicate, Finishing, Idle
    <2>5. ASSUME NEW s \in Slots,
                 \/ InsertRequest(s) \/ Finish(s) \/ Stop(s) \/ Review(s) \/ Resend(s)
          PROVE  \A u \in Slots : ToLink(task'[u], late', link')
      BY <2>2, <2>5 DEF InsertRequest, Finish, Stop, Review, Resend, Finishing, Idle
    <2>6. ASSUME NEW s \in Slots, NEW e \in Requests, Receive(s, e)
          PROVE  \A u \in Slots : ToLink(task'[u], late', link')
      <3>1. CASE e \in inbox
        BY <1>4, <2>6, <3>1 DEF Receive
      <3>2. CASE e \notin inbox
        BY <2>2, <2>6, <3>2 DEF Receive
      <3> QED BY <3>1, <3>2
    <2>7. ASSUME NEW s \in Slots, CallerGone(s)
          PROVE  \A u \in Slots : ToLink(task'[u], late', link')
      <3>1. /\ Becomes(s, [task[s] EXCEPT !.called = FALSE])
            /\ task[s].step \in {"duplicate", "write", "finish"}
            /\ task[s] \in Tasks
        BY <2>7 DEF CallerGone, Called, Becomes, AccessTypeOK
      <3>2. [task[s] EXCEPT !.called = FALSE].step # "review"
        BY <3>1 DEF Tasks
      <3> QED BY <2>2, <3>1, <3>2
    <2>8. CASE UNCHANGED task
      BY <1>4, <2>8
    <2> QED
      BY <2>3, <2>4, <2>5, <2>6, <2>7, <2>8
      DEF AccessNext, Call, Step, accessVars, StartPull, ApplyVerdict, VerdictThrows,
          AckVerdict, AckLost, PullRestart
  <1> QED BY <1>3, <1>5 DEF AnswersFollowLinks

\* The verdict is written and sent in one step, or was sent before.
LEMMA LastVerdictStep ==
  ASSUME AccessTypeOK, IdsInTurn, CallsAreFounded, LastVerdictSent, [AccessNext]_accessVars
  PROVE  LastVerdictSent'
  <1> SUFFICES ASSUME NEW r \in DecidedAt("CLOUD")', r \notin late', link'[r] # NoRequest
               PROVE  \E p \in DOMAIN answers' :
                        answers'[p].of = r /\ answers'[p].verdict = status'["CLOUD"][r]
    BY DEF LastVerdictSent
  <1>1. r \in Requests /\ status'["CLOUD"][r] \in Verdicts
    BY DEF DecidedAt
  <1>2. CASE status'["CLOUD"][r] = status["CLOUD"][r]
    <2>1. r \in DecidedAt("CLOUD") \ late /\ link[r] # NoRequest
      BY <1>1, <1>2, DecidedLinksStay DEF DecidedAt
    <2>2. PICK p \in DOMAIN answers :
            answers[p].of = r /\ answers[p].verdict = status["CLOUD"][r]
      BY <2>1 DEF LastVerdictSent
    <2> QED BY <1>2, <2>2, AnswersGrow
  <1>3. ASSUME NEW s \in Slots, Review(s), task[s].site = "CLOUD", task[s].of = r
        PROVE  \E p \in DOMAIN answers' :
                 answers'[p].of = r /\ answers'[p].verdict = status'["CLOUD"][r]
    <2>1. PICK v \in Verdicts : Decide("CLOUD", r, v) /\ Answer("CLOUD", r, v, link[r])
      BY <1>3 DEF Review
    <2>2. status'["CLOUD"][r] = v /\ link[r] # NoRequest
      BY <1>1, <1>3, <2>1 DEF Decide, AccessTypeOK, Sites, Review
    <2>3. [of |-> r, verdict |-> v, to |-> link[r]] \in Reviews
      BY <1>3, <2>2, ReviewFields DEF Review
    <2> QED BY <2>1, <2>2, <2>3, OneAnswer
  <1>4. ASSUME NEW s \in Slots, Review(s), ~ (task[s].site = "CLOUD" /\ task[s].of = r)
        PROVE  status'["CLOUD"][r] = status["CLOUD"][r]
    BY <1>1, <1>4, ReviewFields DEF Review, Decide, AccessTypeOK, Sites
  <1>5. ASSUME NEW s \in Slots, InsertRequest(s)
        PROVE  status'["CLOUD"][r] = status["CLOUD"][r]
    BY <1>1, <1>5 DEF InsertRequest, AccessTypeOK, Sites, Verdicts
  <1>6. ASSUME NEW s \in Slots, MakeRequest(s)
        PROVE  status'["CLOUD"][r] = status["CLOUD"][r]
    BY <1>1, <1>6 DEF MakeRequest, AccessTypeOK, Sites, Verdicts
  <1>7. CASE ApplyVerdict
    BY <1>2, <1>7 DEF ApplyVerdict, Decide, AccessTypeOK, Sites
  <1>8. CASE UNCHANGED status
    BY <1>2, <1>8
  <1> QED
    BY <1>2, <1>3, <1>4, <1>5, <1>6, <1>7, <1>8
    DEF AccessNext, Call, Step, accessVars, requestRows, Ask, Look, Receive, FindDuplicate,
        LinkDuplicate, Finish, CallerGone, Stop, StartReview, Resend, StartPull,
        VerdictThrows, AckVerdict, AckLost, PullRestart

\* A verdict is acknowledged after the edge has written it, and is gone from
\* there only when the other was written over it.
LEMMA ShownStep ==
  ASSUME AccessTypeOK, IdsInTurn, RequestsExist, AckedIsShown, [AccessNext]_accessVars
  PROVE  AckedIsShown'
  <1> DEFINE Shown(m, st, o) == /\ st["EDGE"][m.to] \in Verdicts
                                /\ st["EDGE"][m.to] = m.verdict \/ <<"EDGE", m.to>> \in o
             A == acked \cup ({ackDue} \ {NoRequest})
  <1>1. \A p \in A : /\ p \in DOMAIN answers /\ answers[p] \in Reviews
                     /\ answers[p].to \in Requests
                     /\ Shown(answers[p], status, overruled)
    <2>1. \A p \in A : p \in DOMAIN answers
      BY DEF AccessTypeOK
    <2>2. \A p \in A : answers[p] \in Reviews
      BY <2>1 DEF AccessTypeOK
    <2>3. \A p \in A : answers[p].to \in Requests
      BY <2>2 DEF Reviews
    <2> QED BY <2>1, <2>2, <2>3 DEF AckedIsShown, DecidedAt
  <1>2. \A p \in A : answers'[p] = answers[p]
    BY <1>1, AnswersGrow
  <1>3. ASSUME NEW m \in Reviews, Shown(m, status, overruled), overruled' = overruled,
               status'["EDGE"][m.to] = status["EDGE"][m.to]
        PROVE  Shown(m, status', overruled')
    BY <1>3
  <1>4. ASSUME NEW m \in Reviews, Shown(m, status, overruled), NEW w \in Sites,
               NEW q \in Requests, NEW v \in Verdicts, Decide(w, q, v)
        PROVE  Shown(m, status', overruled')
    <2>1. m.to \in Requests /\ m.verdict \in Verdicts
      BY DEF Reviews
    <2>2. CASE w = "EDGE" /\ q = m.to
      BY <1>4, <2>1, <2>2 DEF Decide, AccessTypeOK
    <2>3. CASE ~ (w = "EDGE" /\ q = m.to)
      BY <1>4, <2>1, <2>3 DEF Decide, AccessTypeOK, Sites
    <2> QED BY <2>2, <2>3
  <1>5. \A p \in A : Shown(answers[p], status', overruled')
    <2> SUFFICES ASSUME NEW p \in A PROVE Shown(answers[p], status', overruled')
      OBVIOUS
    <2> DEFINE m == answers[p]
    <2>1. m \in Reviews /\ m.to \in Requests /\ Shown(m, status, overruled)
      BY <1>1
    <2> HIDE DEF m, Shown
    <2>2. ASSUME NEW s \in Slots, MakeRequest(s)  PROVE Shown(m, status', overruled')
      <3>1. m.to \in Made
        BY <2>1 DEF Made, Shown, Verdicts, Sites
      <3>2. CASE task[s].found = NoRequest
        <4>1. Cardinality(Made) + 1 # m.to
          BY <2>2, <3>1, NextIdIsFree DEF MakeRequest
        <4>2. /\ status' = [status EXCEPT ![task[s].site][Cardinality(Made) + 1] = "PENDING"]
              /\ overruled' = overruled
          BY <2>2, <3>2 DEF MakeRequest, accessHistory
        <4>3. status'["EDGE"][m.to] = status["EDGE"][m.to]
          BY <2>1, <4>1, <4>2 DEF AccessTypeOK, Sites
        <4> QED BY <1>3, <2>1, <4>2, <4>3
      <3>3. CASE task[s].found # NoRequest
        BY <1>3, <2>1, <2>2, <3>3 DEF MakeRequest, accessHistory
      <3> QED BY <3>2, <3>3
    <2>3. ASSUME NEW s \in Slots, InsertRequest(s)  PROVE Shown(m, status', overruled')
      <3>1. status'["EDGE"][m.to] = status["EDGE"][m.to] /\ overruled' = overruled
        BY <2>1, <2>3 DEF InsertRequest, accessHistory, AccessTypeOK, Sites
      <3> QED BY <1>3, <2>1, <3>1
    <2>4. ASSUME NEW s \in Slots, Review(s)  PROVE Shown(m, status', overruled')
      BY <1>4, <2>1, <2>4, ReviewFields DEF Review
    <2>5. CASE ApplyVerdict
      <3>1. PICK n \in NextOf(run) : Decide("EDGE", answers[n].to, answers[n].verdict)
        BY <2>5 DEF ApplyVerdict
      <3>2. answers[n] \in Reviews
        BY <3>1 DEF NextOf, AccessTypeOK
      <3>3. answers[n].to \in Requests /\ answers[n].verdict \in Verdicts /\ "EDGE" \in Sites
        BY <3>2 DEF Reviews, Sites
      <3> QED BY <1>4, <2>1, <3>1, <3>3 DEF m
    <2>6. CASE UNCHANGED <<status, overruled>>
      BY <1>3, <2>1, <2>6 DEF m
    <2>7. ASSUME NEW s \in Slots, ~ (MakeRequest(s) \/ InsertRequest(s) \/ Review(s)),
                 Call(s) \/ Step(s) \/ CallerGone(s) \/ Stop(s)
          PROVE  UNCHANGED <<status, overruled>>
      BY <2>7 DEF Call, Step, requestRows, accessHistory, Ask, Look, Receive, FindDuplicate,
                  LinkDuplicate, Finish, CallerGone, Stop, StartReview, Resend
    <2>8. CASE StartPull \/ VerdictThrows \/ PullRestart
      <3>1. UNCHANGED requestRows /\ UNCHANGED accessHistory
        BY <2>8 DEF StartPull, VerdictThrows, PullRestart
      <3> QED BY <2>6, <3>1 DEF requestRows, accessHistory
    <2>9. CASE AckVerdict \/ AckLost
      <3>1. UNCHANGED requestRows /\ UNCHANGED accessHistory
        BY <2>9 DEF AckVerdict, AckLost
      <3> QED BY <2>6, <3>1 DEF requestRows, accessHistory
    <2>10. CASE UNCHANGED accessVars
      BY <2>6, <2>10 DEF accessVars
    <2>11. ASSUME NEW s \in Slots, Call(s) \/ Step(s) \/ CallerGone(s) \/ Stop(s)
           PROVE  Shown(answers[p], status', overruled')
      <3>1. CASE MakeRequest(s) \/ InsertRequest(s) \/ Review(s)
        BY <2>2, <2>3, <2>4, <3>1 DEF m
      <3>2. CASE ~ (MakeRequest(s) \/ InsertRequest(s) \/ Review(s))
        <4>1. UNCHANGED <<status, overruled>>
          BY <2>7, <2>11, <3>2
        <4> QED BY <2>6, <4>1
      <3> QED BY <3>1, <3>2
    <2>12. \/ \E s \in Slots : Call(s) \/ Step(s) \/ CallerGone(s) \/ Stop(s)
           \/ StartPull \/ VerdictThrows \/ PullRestart
           \/ AckVerdict \/ AckLost
           \/ ApplyVerdict \/ UNCHANGED accessVars
      BY DEF AccessNext
    <2> QED BY <2>5, <2>8, <2>9, <2>10, <2>11, <2>12
  <1>6. ASSUME NEW p \in acked' \cup ({ackDue'} \ {NoRequest}), p \notin A
        PROVE  ApplyVerdict /\ p = ackDue'
    <2>1. CASE ApplyVerdict
      BY <1>6, <2>1 DEF ApplyVerdict, channels
    <2>2. ASSUME NEW s \in Slots, Call(s) \/ Step(s) \/ CallerGone(s) \/ Stop(s)
          PROVE  acked' = acked /\ ackDue' = ackDue
      BY <2>2 DEF Call, Step, channels, puller, Ask, Look, MakeRequest, Receive,
                  FindDuplicate, LinkDuplicate, InsertRequest, Finish, CallerGone, Stop,
                  StartReview, Review, Resend
    <2>3. CASE \/ StartPull \/ VerdictThrows \/ AckVerdict \/ AckLost \/ PullRestart
               \/ UNCHANGED accessVars
      BY <1>6, <2>3 DEF StartPull, VerdictThrows, AckVerdict, AckLost, PullRestart,
                        accessVars, channels
    <2> QED BY <1>6, <2>1, <2>2, <2>3 DEF AccessNext
  <1>7. CASE ApplyVerdict
    <2>1. PICK n \in NextOf(run) : /\ Decide("EDGE", answers[n].to, answers[n].verdict)
                                   /\ ackDue' = n
      BY <1>7 DEF ApplyVerdict
    <2>2. n \in DOMAIN answers /\ answers[n] \in Reviews /\ answers' = answers
      BY <1>7, <2>1 DEF NextOf, AccessTypeOK, ApplyVerdict, channels
    <2>3. Shown(answers[n], status', overruled')
      BY <2>1, <2>2 DEF Decide, AccessTypeOK, Sites, Reviews
    <2>4. \A p \in acked' \cup ({ackDue'} \ {NoRequest}) : p \in A \/ p = n
      BY <1>6, <2>1
    <2> QED BY <1>1, <1>2, <1>5, <2>2, <2>3, <2>4 DEF AckedIsShown, DecidedAt, Reviews
  <1>8. CASE ~ApplyVerdict
    <2>1. acked' \cup ({ackDue'} \ {NoRequest}) \subseteq A
      BY <1>6, <1>8
    <2> QED BY <1>1, <1>2, <1>5, <2>1 DEF AckedIsShown, DecidedAt
  <1> QED BY <1>7, <1>8

LEMMA AccessNextIInv == AccessIInv /\ [AccessNext]_accessVars => AccessIInv'
  BY AccessTypeStep, IdsStep, RequestsStep, CallsStep, HandledStep, FollowsStep,
     FollowLinksStep, LastVerdictStep, ShownStep
  DEF AccessIInv

THEOREM AccessInvariant == AccessSpec => []AccessIInv
  BY AccessInitIInv, AccessNextIInv, PTL DEF AccessSpec

\* Every call, message and row of the requests has the fields the code gives it.
THEOREM AccessTypeCorrect == AccessSpec => []AccessTypeOK
  BY AccessInvariant, PTL DEF AccessIInv

\* AckedRequestKnown: a request the edge has off its hands is known to the cloud.
THEOREM AckedKnown == AccessSpec => []AckedRequestKnown
  <1>1. AccessIInv => AckedRequestKnown
    BY DEF AccessIInv, HandledIsKnown, AckedRequestKnown
  <1> QED BY <1>1, AccessInvariant, PTL

\* AccessFollowsVerdict: a site lets the manager in where it shows an approval,
\* and else only where it has decided both ways.
THEOREM AccessFollows == AccessSpec => []AccessFollowsVerdict
  BY AccessInvariant, PTL DEF AccessIInv

\* AnswerOwed: the answer to a request of the edge is shown there or on its way.
THEOREM AnswerIsOwed == AccessSpec => []AnswerOwed
  <1>1. AccessIInv => AnswerOwed
    <2> SUFFICES ASSUME AccessIInv, NEW r \in DecidedAt("CLOUD") \ late, link[r] # NoRequest
                 PROVE  \/ link[r] \in DecidedAt("EDGE")
                        \/ \E p \in Unacked : answers[p].to = link[r]
      BY DEF AnswerOwed
    <2>1. PICK p \in DOMAIN answers : answers[p].of = r
      BY DEF AccessIInv, LastVerdictSent
    <2>2. answers[p].to = link[r]
      BY <2>1 DEF AccessIInv, AnswersFollowLinks
    <2> QED BY <2>1, <2>2 DEF AccessIInv, AckedIsShown, Unacked
  <1> QED BY <1>1, AccessInvariant, PTL

\* VerdictsAgree: with every message acknowledged the edge shows what the cloud
\* decided last.
THEOREM VerdictsDoAgree == AccessSpec => []VerdictsAgree
  <1>1. AccessIInv => VerdictsAgree
    <2> SUFFICES ASSUME AccessIInv, Unacked = {}, NEW p \in DOMAIN answers,
                        answers[p].of \notin late
                 PROVE  \/ status["EDGE"][answers[p].to] = status["CLOUD"][answers[p].of]
                        \/ <<"EDGE", answers[p].to>> \in overruled
      BY DEF VerdictsAgree
    <2> DEFINE r == answers[p].of
    <2>1. r \in DecidedAt("CLOUD") \ late /\ answers[p].to = link[r]
      BY DEF AccessIInv, AnswersFollowLinks
    <2>2. answers[p].to \in Requests
      <3>1. answers[p] \in Reviews
        BY DEF AccessIInv, AccessTypeOK
      <3> QED BY <3>1 DEF Reviews
    <2>3. link[r] # NoRequest
      BY <2>1, <2>2 DEF Requests, NoRequest
    <2>4. PICK q \in DOMAIN answers :
            answers[q].of = r /\ answers[q].verdict = status["CLOUD"][r]
      BY <2>1, <2>3 DEF AccessIInv, LastVerdictSent
    <2>5. answers[q].to = link[r]
      BY <2>1, <2>4 DEF AccessIInv, AnswersFollowLinks
    <2>6. q \in acked
      BY <2>4 DEF Unacked
    <2>7. \/ status["EDGE"][answers[q].to] = answers[q].verdict
          \/ <<"EDGE", answers[q].to>> \in overruled
      BY <2>6 DEF AccessIInv, AckedIsShown
    <2> QED BY <2>1, <2>4, <2>5, <2>7
  <1> QED BY <1>1, AccessInvariant, PTL

---------------------------------------------------------------------------
(* LotSnapshot.                                                            *)

\* A set of numbers has a least one.
LEMMA SmallestNumber ==
  ASSUME NEW T \in SUBSET Nat, T # {}
  PROVE  \E n \in T : \A m \in T : n <= m
  <1> DEFINE R == {p \in Nat \X Nat : p[1] < p[2]}
  <1>1. IsWellFoundedOn(R, Nat)
    BY NatLessThanWellFounded, Zenon DEF OpToRel
  <1> HIDE DEF R
  <1>2. PICK n \in T : \A m \in T : ~ (<<m, n>> \in R)
    BY <1>1, WFMin, Zenon
  <1>3. \A m \in T : m < n => <<m, n>> \in R
    BY DEF R
  <1>4. \A m \in T : n <= m
    <2> SUFFICES ASSUME NEW m \in T PROVE n <= m
      OBVIOUS
    <2>1. m \in Nat /\ n \in Nat
      OBVIOUS
    <2>2. ~ (m < n)
      BY <1>2, <1>3
    <2> QED BY <2>1, <2>2
  <1> QED BY <1>4

\* The outcomes are those of the last space, after those of the one before.
LEMMA OutcomesInTurn ==
  ASSUME NEW l
  PROVE  \E upTo : /\ upTo[0] = {Begun}
                   /\ \A n \in 1..MaxSpaces : upTo[n] = OneSpace(l, upTo[n - 1], n)
                   /\ Outcomes(l) = upTo[MaxSpaces]
  <1> DEFINE Run(g, k) ==
               g = [n \in 0..k |-> IF n = 0 THEN {Begun} ELSE OneSpace(l, g[n - 1], n)]
             T == {k \in Nat : ~ \E g : Run(g, k)}
  <1>0. MaxSpaces \in Nat
    BY BoundsAssumption
  <1>1. \E g : Run(g, 0)
    <2> DEFINE g == [n \in 0..0 |-> {Begun}]
    <2>1. Run(g, 0)
      OBVIOUS
    <2> QED BY <2>1
  <1>2. ASSUME NEW k \in Nat, NEW g, Run(g, k)  PROVE \E h : Run(h, k + 1)
    <2> DEFINE h == [n \in 0..k + 1 |-> IF n = k + 1 THEN OneSpace(l, g[k], k + 1) ELSE g[n]]
    <2>1. \A n \in 0..k : g[n] = IF n = 0 THEN {Begun} ELSE OneSpace(l, g[n - 1], n)
      BY <1>2
    <2>2. \A n \in 0..k + 1 : h[n] = IF n = 0 THEN {Begun} ELSE OneSpace(l, h[n - 1], n)
      <3> SUFFICES ASSUME NEW n \in 0..k + 1
                   PROVE  h[n] = IF n = 0 THEN {Begun} ELSE OneSpace(l, h[n - 1], n)
        OBVIOUS
      <3>1. CASE n = 0
        BY <2>1, <3>1
      <3>2. CASE n = k + 1
        <4>1. h[n - 1] = g[k] /\ h[n] = OneSpace(l, g[k], n)
          BY <3>2
        <4> QED BY <3>2, <4>1
      <3>3. CASE n # 0 /\ n # k + 1
        <4>1. h[n - 1] = g[n - 1] /\ h[n] = g[n] /\ n \in 0..k
          BY <3>3
        <4> QED BY <2>1, <3>3, <4>1
      <3> QED BY <3>1, <3>2, <3>3
    <2>3. h = [n \in 0..k + 1 |-> h[n]]
      OBVIOUS
    <2> HIDE DEF h
    <2>4. Run(h, k + 1)
      BY <2>2, <2>3
    <2> QED BY <2>4
  <1>3. T = {}
    <2> SUFFICES ASSUME T # {} PROVE FALSE
      OBVIOUS
    <2>1. PICK k \in T : \A m \in T : k <= m
      BY SmallestNumber
    <2>a. k # 0
      BY <1>1, <2>1
    <2>b. k - 1 \in Nat /\ k - 1 \notin T
      <3> HIDE DEF T
      <3>1. k \in Nat
        BY <2>1 DEF T
      <3> QED BY <2>1, <2>a, <3>1
    <2>2. k # 0 /\ k - 1 \in Nat /\ k - 1 \notin T
      BY <2>a, <2>b
    <2>3. PICK g : Run(g, k - 1)
      BY <2>2
    <2>4. \E h : Run(h, (k - 1) + 1)
      BY <1>2, <2>2, <2>3
    <2> QED BY <2>1, <2>4
  <1>4. \E g : Run(g, MaxSpaces)
    BY <1>0, <1>3
  <1> DEFINE upTo == CHOOSE g : Run(g, MaxSpaces)
  <1>5. Run(upTo, MaxSpaces)
    BY <1>4
  <1>6. upTo = CHOOSE g : g = [n \in 0..MaxSpaces |->
                                IF n = 0 THEN {Begun} ELSE OneSpace(l, g[n - 1], n)]
    OBVIOUS
  <1>7. Outcomes(l) = upTo[MaxSpaces]
    BY Zenon DEF Outcomes
  <1>8. ASSUME NEW g, Run(g, MaxSpaces)
        PROVE  /\ g[0] = {Begun}
               /\ \A n \in 1..MaxSpaces : g[n] = OneSpace(l, g[n - 1], n)
    <2>1. \A n \in 0..MaxSpaces : g[n] = IF n = 0 THEN {Begun} ELSE OneSpace(l, g[n - 1], n)
      BY <1>8
    <2>2. g[0] = {Begun}
      BY <1>0, <2>1
    <2>3. \A n \in 1..MaxSpaces : n \in 0..MaxSpaces /\ n # 0
      BY <1>0
    <2> QED BY <2>1, <2>2, <2>3
  <1>9. /\ upTo[0] = {Begun}
        /\ \A n \in 1..MaxSpaces : upTo[n] = OneSpace(l, upTo[n - 1], n)
    <2> HIDE DEF upTo, Run
    <2> QED BY <1>5, <1>8
  <1> HIDE DEF upTo
  <1> QED BY <1>7, <1>9

EdgeRows == [Spaces -> Codes \cup {Nothing}]
Savings == [rows : EdgeRows, kept : [Spaces -> {0} \cup Spaces], refused : BOOLEAN]

\* A space of a snapshot is saved in its own row, or in one that has its code.
LEMMA UpsertSaves ==
  ASSUME NEW e \in Savings, NEW s \in Spaces, NEW c, NEW d \in Upsert(e, s, c)
  PROVE  \E r \in Spaces :
           /\ r = s \/ e.rows[r] = c
           /\ \A q \in Spaces : /\ d.rows[q] = IF q = r THEN c ELSE e.rows[q]
                                /\ d.kept[q] = IF q = s THEN r ELSE e.kept[q]
  <1> DEFINE found == {r \in Spaces : e.rows[r] # Nothing /\ (r = s \/ e.rows[r] = c)}
             at    == IF found = {} THEN {s} ELSE found
             Saved(r) == [rows    |-> [e.rows EXCEPT ![r] = c],
                          kept    |-> [e.kept EXCEPT ![s] = r],
                          refused |-> e.refused \/ \E q \in Spaces \ {r} : e.rows[q] = c]
  <1>1. d \in {Saved(r) : r \in at}
    BY DEF Upsert
  <1>2. PICK r \in at : d = Saved(r)
    BY <1>1
  <1>3. r \in Spaces /\ (r = s \/ e.rows[r] = c)
    BY <1>2
  <1>4. /\ d.rows = [e.rows EXCEPT ![r] = c]
        /\ d.kept = [e.kept EXCEPT ![s] = r]
    BY <1>2
  <1>5. e.rows \in EdgeRows /\ e.kept \in [Spaces -> {0} \cup Spaces]
    BY DEF Savings
  <1>6. \A q \in Spaces : /\ d.rows[q] = IF q = r THEN c ELSE e.rows[q]
                          /\ d.kept[q] = IF q = s THEN r ELSE e.kept[q]
    BY <1>3, <1>4, <1>5 DEF EdgeRows
  <1> QED BY <1>3, <1>6

\* The ids of spaces are positive numbers.
LEMMA SpacesAreNumbers == MaxSpaces \in Nat /\ Spaces \subseteq Nat /\ 0 \notin Spaces
  BY BoundsAssumption DEF Spaces

\* What holds of the outcomes where the transaction begins, and of one space's
\* after those of the spaces before it, holds of the outcomes of them all.
\* Each is told by the set of what it may be after each space.
LEMMA OutcomesStay ==
  ASSUME NEW l, NEW G, Begun \in G[0],
         \A n \in Spaces : \A e \in G[n - 1] :
           IF n \in Ids(l) THEN Upsert(e, n, l.codes[n]) \subseteq G[n] ELSE e \in G[n]
  PROVE  Outcomes(l) \subseteq G[MaxSpaces]
  <1>1. PICK upTo : /\ upTo[0] = {Begun}
                    /\ \A n \in 1..MaxSpaces : upTo[n] = OneSpace(l, upTo[n - 1], n)
                    /\ Outcomes(l) = upTo[MaxSpaces]
    BY OutcomesInTurn
  <1> DEFINE T == {n \in 0..MaxSpaces : ~ (upTo[n] \subseteq G[n])}
  <1>2. T \in SUBSET Nat
    OBVIOUS
  <1>3. 0 \notin T
    BY <1>1
  <1>4. ASSUME NEW n \in Spaces, upTo[n - 1] \subseteq G[n - 1]
        PROVE  upTo[n] \subseteq G[n]
    <2>1. upTo[n] = OneSpace(l, upTo[n - 1], n)
      BY <1>1 DEF Spaces
    <2>2. \A e \in upTo[n - 1] :
            IF n \in Ids(l) THEN Upsert(e, n, l.codes[n]) \subseteq G[n] ELSE e \in G[n]
      BY <1>4
    <2>3. CASE n \in Ids(l)
      <3>1. upTo[n] = UNION {Upsert(e, n, l.codes[n]) : e \in upTo[n - 1]}
        BY <2>1, <2>3 DEF OneSpace
      <3>2. \A e \in upTo[n - 1] : Upsert(e, n, l.codes[n]) \subseteq G[n]
        BY <2>2, <2>3
      <3> QED BY <3>1, <3>2
    <2>4. CASE n \notin Ids(l)
      BY <2>1, <2>2, <2>4 DEF OneSpace
    <2> QED BY <2>3, <2>4
  <1>5. T = {}
    <2> SUFFICES ASSUME T # {} PROVE FALSE
      OBVIOUS
    <2> HIDE DEF T
    <2>1. PICK n \in T : \A m \in T : n <= m
      BY <1>2, SmallestNumber
    <2>2. n \in 0..MaxSpaces /\ ~ (upTo[n] \subseteq G[n]) /\ n # 0
      BY <1>3, <2>1 DEF T
    <2>3. n \in Spaces /\ n - 1 \in 0..MaxSpaces /\ ~ (n <= n - 1)
      BY <2>2, SpacesAreNumbers DEF Spaces
    <2>4. n - 1 \notin T
      BY <2>1, <2>3
    <2>5. upTo[n - 1] \subseteq G[n - 1]
      BY <2>3, <2>4 DEF T
    <2> QED BY <1>4, <2>2, <2>3, <2>5
  <1>6. MaxSpaces \in 0..MaxSpaces
    BY SpacesAreNumbers
  <1> QED BY <1>1, <1>5, <1>6

\* A transaction of ApplySpaces begins with the edge's rows and an empty map.
LEMMA BegunTyped ==
  ASSUME rows \in EdgeRows  PROVE Begun \in Savings
  BY DEF Begun, Savings

\* Upsert keeps rows rows, and the map a map to rows.
LEMMA UpsertTyped ==
  ASSUME NEW e \in Savings, NEW s \in Spaces, NEW c \in Codes
  PROVE  Upsert(e, s, c) \subseteq Savings
  <1> DEFINE found == {r \in Spaces : e.rows[r] # Nothing /\ (r = s \/ e.rows[r] = c)}
             at    == IF found = {} THEN {s} ELSE found
             Saved(r) == [rows    |-> [e.rows EXCEPT ![r] = c],
                          kept    |-> [e.kept EXCEPT ![s] = r],
                          refused |-> e.refused \/ \E q \in Spaces \ {r} : e.rows[q] = c]
  <1>1. Upsert(e, s, c) = {Saved(r) : r \in at}
    BY DEF Upsert
  <1>2. at \subseteq Spaces
    OBVIOUS
  <1>3. ASSUME NEW r \in Spaces  PROVE Saved(r) \in Savings
    <2>1. e.rows \in EdgeRows /\ e.kept \in [Spaces -> {0} \cup Spaces]
      BY DEF Savings
    <2>2. [e.rows EXCEPT ![r] = c] \in EdgeRows
      BY <2>1 DEF EdgeRows
    <2>3. [e.kept EXCEPT ![s] = r] \in [Spaces -> {0} \cup Spaces]
      BY <2>1
    <2>4. (e.refused \/ \E q \in Spaces \ {r} : e.rows[q] = c) \in BOOLEAN
      OBVIOUS
    <2> QED BY <2>2, <2>3, <2>4 DEF Savings
  <1> HIDE DEF Saved, at
  <1> QED BY <1>1, <1>2, <1>3

\* Every space of a snapshot is saved in a row that has a code of the snapshot.
LEMMA OutcomesSave ==
  ASSUME NEW l \in Lot, rows \in EdgeRows, NEW e \in Outcomes(l)
  PROVE  /\ e.rows \in EdgeRows
         /\ \A s \in Ids(l) : e.kept[s] \in Spaces /\ e.rows[e.kept[s]] \in Held(l)
  <1> DEFINE Good(d, n) == \A s \in Ids(l) : s <= n =>
                             d.kept[s] \in Spaces /\ d.rows[d.kept[s]] \in Held(l)
             G == [n \in 0..MaxSpaces |-> {d \in Savings : Good(d, n)}]
  <1>1. Begun \in G[0]
    <2>1. \A s \in Ids(l) : ~ (s <= 0)
      BY SpacesAreNumbers DEF Ids, Spaces
    <2> QED BY <2>1, BegunTyped, SpacesAreNumbers
  <1>2. ASSUME NEW n \in Spaces, NEW d \in G[n - 1]
        PROVE  IF n \in Ids(l) THEN Upsert(d, n, l.codes[n]) \subseteq G[n] ELSE d \in G[n]
    <2>1. d \in Savings /\ Good(d, n - 1) /\ n - 1 \in 0..MaxSpaces /\ n \in 0..MaxSpaces
      BY SpacesAreNumbers DEF Spaces
    <2>2. \A s \in Ids(l) : s \in Spaces /\ (s <= n => s <= n - 1 \/ s = n)
      BY SpacesAreNumbers DEF Ids, Spaces
    <2>3. CASE n \in Ids(l)
      <3>1. l.codes[n] \in Codes /\ l.codes[n] \in Held(l)
        BY <2>3 DEF Lot, Ids, Held
      <3> SUFFICES ASSUME NEW f \in Upsert(d, n, l.codes[n])
                   PROVE  f \in Savings /\ Good(f, n)
        BY <2>1, <2>3
      <3>2. f \in Savings
        BY <2>1, <3>1, UpsertTyped
      <3>3. PICK r \in Spaces :
              \A q \in Spaces : /\ f.rows[q] = IF q = r THEN l.codes[n] ELSE d.rows[q]
                                /\ f.kept[q] = IF q = n THEN r ELSE d.kept[q]
        <4>1. d \in Savings /\ n \in Spaces /\ f \in Upsert(d, n, l.codes[n])
          BY <2>1
        <4> HIDE DEF G, Good
        <4> QED BY <4>1, UpsertSaves
      <3>4. d.rows \in EdgeRows /\ d.kept \in [Spaces -> {0} \cup Spaces]
        BY <2>1 DEF Savings
      <3>5. f.kept[n] = r /\ f.rows[r] = l.codes[n]
        BY <3>3, <3>4 DEF EdgeRows
      <3>6. ASSUME NEW s \in Ids(l), s <= n, s # n
            PROVE  f.kept[s] \in Spaces /\ f.rows[f.kept[s]] \in Held(l)
        <4>1. s \in Spaces /\ d.kept[s] \in Spaces /\ d.rows[d.kept[s]] \in Held(l)
          BY <2>1, <2>2, <3>6
        <4>2. f.kept[s] = d.kept[s]
          BY <3>3, <3>4, <3>6, <4>1
        <4>3. f.rows[d.kept[s]] \in {d.rows[d.kept[s]], l.codes[n]}
          BY <3>3, <3>4, <4>1 DEF EdgeRows
        <4> QED BY <3>1, <4>1, <4>2, <4>3
      <3>7. Good(f, n)
        BY <3>1, <3>5, <3>6
      <3> QED BY <3>2, <3>7
    <2>4. CASE n \notin Ids(l)
      BY <2>1, <2>2, <2>4
    <2> QED BY <2>3, <2>4
  <1>3. e \in G[MaxSpaces]
    <2> HIDE DEF G
    <2> QED BY <1>1, <1>2, OutcomesStay
  <1>4. e \in Savings /\ Good(e, MaxSpaces)
    BY <1>3, SpacesAreNumbers
  <1>5. \A s \in Ids(l) : s <= MaxSpaces
    BY SpacesAreNumbers DEF Ids, Spaces
  <1> QED BY <1>4, <1>5 DEF Savings

\* Where the codes of a snapshot are in no row of another id, its spaces are
\* written over the rows of their own ids.
LEMMA OutcomesOverwrite ==
  ASSUME NEW l \in Lot, rows \in EdgeRows, NEW e \in Outcomes(l), Follows(l, l),
         \A s \in Ids(l), r \in Spaces : r # s => rows[r] # l.codes[s]
  PROVE  /\ e.rows = [r \in Spaces |-> IF r \in Ids(l) THEN l.codes[r] ELSE rows[r]]
         /\ \A s \in Ids(l) : e.kept[s] = s
  <1> DEFINE Over(n) ==
               [r \in Spaces |-> IF r \in Ids(l) /\ r <= n THEN l.codes[r] ELSE rows[r]]
             Good(d, n) == d.rows = Over(n) /\ \A s \in Ids(l) : s <= n => d.kept[s] = s
             G == [n \in 0..MaxSpaces |-> {d \in Savings : Good(d, n)}]
  <1>1. Begun \in G[0]
    <2>1. \A s \in Spaces : ~ (s <= 0)
      BY SpacesAreNumbers DEF Spaces
    <2>2. Over(0) = rows
      BY <2>1 DEF EdgeRows
    <2>3. Good(Begun, 0)
      BY <2>1, <2>2 DEF Begun, Ids
    <2> HIDE DEF Good
    <2> QED BY <2>3, BegunTyped, SpacesAreNumbers
  <1>2. ASSUME NEW n \in Spaces, NEW d \in G[n - 1]
        PROVE  IF n \in Ids(l) THEN Upsert(d, n, l.codes[n]) \subseteq G[n] ELSE d \in G[n]
    <2>1. d \in Savings /\ Good(d, n - 1) /\ n - 1 \in 0..MaxSpaces /\ n \in 0..MaxSpaces
      BY SpacesAreNumbers DEF Spaces
    <2>2. \A s \in Spaces : s <= n <=> s <= n - 1 \/ s = n
      BY SpacesAreNumbers DEF Spaces
    <2>a. ~ (n <= n - 1)
      BY SpacesAreNumbers DEF Spaces
    <2>b. Ids(l) \subseteq Spaces
      BY DEF Ids
    <2>3. CASE n \in Ids(l)
      <3>1. l.codes[n] \in Codes
        BY <2>3 DEF Lot, Ids
      <3> SUFFICES ASSUME NEW f \in Upsert(d, n, l.codes[n])
                   PROVE  f \in Savings /\ Good(f, n)
        BY <2>1, <2>3
      <3>2. f \in Savings
        BY <2>1, <3>1, UpsertTyped
      <3>3. PICK r \in Spaces :
              /\ r = n \/ d.rows[r] = l.codes[n]
              /\ \A q \in Spaces : /\ f.rows[q] = IF q = r THEN l.codes[n] ELSE d.rows[q]
                                   /\ f.kept[q] = IF q = n THEN r ELSE d.kept[q]
        <4>1. d \in Savings /\ n \in Spaces /\ f \in Upsert(d, n, l.codes[n])
          BY <2>1
        <4> HIDE DEF G, Good
        <4> QED BY <4>1, UpsertSaves
      <3>4. d.rows \in EdgeRows /\ d.kept \in [Spaces -> {0} \cup Spaces]
        BY <2>1 DEF Savings
      <3>5. r = n
        <4> SUFFICES ASSUME r # n PROVE FALSE
          OBVIOUS
        <4>1. d.rows[r] = IF r \in Ids(l) /\ r <= n - 1 THEN l.codes[r] ELSE rows[r]
          BY <2>1
        <4>2. r \in Ids(l) => l.codes[r] # l.codes[n]
          BY <2>3 DEF Follows
        <4>3. rows[r] # l.codes[n]
          BY <2>3
        <4> QED BY <3>3, <4>1, <4>2, <4>3
      <3>6. f.rows = Over(n)
        <4>1. f.rows = [q \in Spaces |-> IF q = n THEN l.codes[n] ELSE d.rows[q]]
          <5>1. f.rows \in EdgeRows
            BY <3>2 DEF Savings
          <5> QED BY <3>3, <3>5, <5>1 DEF EdgeRows
        <4>2. ASSUME NEW q \in Spaces
              PROVE  (IF q = n THEN l.codes[n] ELSE d.rows[q])
                       = IF q \in Ids(l) /\ q <= n THEN l.codes[q] ELSE rows[q]
          <5>1. d.rows[q] = IF q \in Ids(l) /\ q <= n - 1 THEN l.codes[q] ELSE rows[q]
            BY <2>1
          <5> QED BY <2>2, <2>3, <5>1, SpacesAreNumbers
        <4> QED BY <4>1, <4>2
      <3>7. \A s \in Ids(l) : s <= n => f.kept[s] = s
        BY <2>1, <2>2, <2>b, <3>3, <3>4, <3>5
      <3> QED BY <3>2, <3>6, <3>7
    <2>4. CASE n \notin Ids(l)
      <3>1. Over(n) = Over(n - 1)
        BY <2>2, <2>4
      <3>2. \A s \in Ids(l) : s <= n => s <= n - 1
        BY <2>2, <2>4, <2>b
      <3>3. Good(d, n)
        BY <2>1, <3>1, <3>2
      <3> HIDE DEF Good
      <3> QED BY <2>1, <2>4, <3>3
    <2> QED BY <2>3, <2>4
  <1>3. e \in G[MaxSpaces]
    <2> HIDE DEF G
    <2> QED BY <1>1, <1>2, OutcomesStay
  <1>4. Good(e, MaxSpaces)
    BY <1>3, SpacesAreNumbers
  <1>5. \A s \in Ids(l) : s <= MaxSpaces
    BY SpacesAreNumbers DEF Ids, Spaces
  <1>6. Over(MaxSpaces) = [r \in Spaces |-> IF r \in Ids(l) THEN l.codes[r] ELSE rows[r]]
    BY <1>5
  <1> QED BY <1>4, <1>5, <1>6

\* What a change of each kind is about (Change).
LEMMA ChangeFields ==
  ASSUME NEW c \in Change
  PROVE  /\ c.kind \in {"add", "rename", "remove", "assign", "mode"}
         /\ c.kind \in {"add", "rename"} => c.space \in Spaces /\ c.code \in Codes
         /\ c.kind = "remove" => c.space \in Spaces
         /\ c.kind = "assign" => c.space \in {0} \cup Spaces
         /\ c.kind = "mode" => c.mode \in Modes
  BY DEF Change

\* A lot's columns, and the codes of the spaces it has.
LEMMA LotFields ==
  ASSUME NEW l \in Lot
  PROVE  /\ l.codes \in EdgeRows /\ l.sensor \in {0} \cup Spaces /\ l.mode \in Modes
         /\ \A s \in Spaces : l.codes[s] \in Codes \cup {Nothing}
         /\ \A s \in Ids(l) : s \in Spaces /\ l.codes[s] \in Codes /\ l.codes[s] \in Held(l)
         /\ Held(l) \subseteq Codes
  <1>1. l.codes \in EdgeRows /\ l.sensor \in {0} \cup Spaces /\ l.mode \in Modes
    BY DEF Lot, EdgeRows
  <1>2. \A s \in Spaces : l.codes[s] \in Codes \cup {Nothing}
    BY <1>1 DEF EdgeRows
  <1>3. \A s \in Ids(l) : s \in Spaces /\ l.codes[s] \in Codes /\ l.codes[s] \in Held(l)
    BY <1>2 DEF Ids, Held
  <1> QED BY <1>1, <1>2, <1>3 DEF Held

\* The columns of the lot a change leaves.
LEMMA AfterFields ==
  ASSUME NEW l \in Lot, NEW c \in Change
  PROVE  /\ After(c, l) \in Lot
         /\ c.kind \in {"add", "rename"} =>
              /\ \A s \in Spaces :
                   After(c, l).codes[s] = IF s = c.space THEN c.code ELSE l.codes[s]
              /\ After(c, l).sensor = l.sensor
         /\ c.kind = "remove" =>
              /\ \A s \in Spaces :
                   After(c, l).codes[s] = IF s = c.space THEN Nothing ELSE l.codes[s]
              /\ After(c, l).sensor = IF l.sensor = c.space THEN 0 ELSE l.sensor
         /\ c.kind = "assign" => After(c, l).codes = l.codes /\ After(c, l).sensor = c.space
         /\ c.kind = "mode" => After(c, l).codes = l.codes /\ After(c, l).sensor = l.sensor
  <1>1. CASE c.kind \in {"add", "rename"}
    <2>1. After(c, l) = [l EXCEPT !.codes[c.space] = c.code]
      BY <1>1 DEF After
    <2>2. c.space \in Spaces /\ c.code \in Codes
      BY <1>1, ChangeFields
    <2> QED BY <1>1, <2>1, <2>2 DEF Lot
  <1>2. CASE c.kind = "remove"
    <2>1. After(c, l) = [l EXCEPT !.codes[c.space] = Nothing,
                                  !.sensor = IF @ = c.space THEN 0 ELSE @]
      BY <1>2 DEF After
    <2>2. c.space \in Spaces
      BY <1>2, ChangeFields
    <2>3. /\ After(c, l).codes = [l.codes EXCEPT ![c.space] = Nothing]
          /\ After(c, l).sensor = IF l.sensor = c.space THEN 0 ELSE l.sensor
          /\ After(c, l).mode = l.mode
          /\ After(c, l) \in Lot
      BY <2>1, <2>2 DEF Lot
    <2>4. l.codes \in EdgeRows
      BY LotFields
    <2>5. \A s \in Spaces :
            After(c, l).codes[s] = IF s = c.space THEN Nothing ELSE l.codes[s]
      BY <2>2, <2>3, <2>4 DEF EdgeRows
    <2> QED BY <1>2, <2>3, <2>5
  <1>3. CASE c.kind = "assign"
    <2>1. After(c, l) = [l EXCEPT !.sensor = c.space]
      BY <1>3 DEF After
    <2>2. c.space \in {0} \cup Spaces
      BY <1>3, ChangeFields
    <2> QED BY <1>3, <2>1, <2>2 DEF Lot
  <1>4. CASE c.kind = "mode"
    <2>1. After(c, l) = [l EXCEPT !.mode = c.mode]
      BY <1>4 DEF After
    <2>2. c.mode \in Modes
      BY <1>4, ChangeFields
    <2> QED BY <1>4, <2>1, <2>2 DEF Lot
  <1> QED BY <1>1, <1>2, <1>3, <1>4, ChangeFields

\* A change of what is there, giving codes that are free.
Founded(c, l) ==
  /\ c \in Change
  /\ c.kind \in {"rename", "remove"} => c.space \in Ids(l)
  /\ c.kind = "assign" => c.space \in {0} \cup Ids(l)
  /\ c.kind \in {"add", "rename"} => c.code \notin Held(l)

Given(c) == IF c.kind \in {"add", "rename"} THEN {c.code} ELSE {}
Dropped(c) == IF c.kind = "remove" THEN {c.space} ELSE {}

\* A change drops the space it removes, and holds no code but the old ones and
\* the one it gives.
LEMMA AfterSpaces ==
  ASSUME NEW l \in Lot, NEW c, Founded(c, l)
  PROVE  /\ Held(After(c, l)) \subseteq Held(l) \cup Given(c)
         /\ Ids(l) \ Dropped(c) \subseteq Ids(After(c, l))
         /\ Dropped(c) \cap Ids(After(c, l)) = {}
         /\ \A s \in Ids(After(c, l)) :
              \/ s \in Ids(l) /\ After(c, l).codes[s] = l.codes[s]
              \/ After(c, l).codes[s] \in Given(c)
  <1> DEFINE n == After(c, l)
  <1>1. c \in Change /\ n \in Lot
    BY AfterFields DEF Founded
  <1>2. \A s \in Spaces :
          n.codes[s] = IF s \in Dropped(c) THEN Nothing
                       ELSE IF Given(c) # {} /\ s = c.space THEN c.code ELSE l.codes[s]
    <2>1. CASE c.kind \in {"add", "rename"}
      BY <1>1, <2>1, AfterFields DEF Dropped, Given
    <2>2. CASE c.kind = "remove"
      BY <1>1, <2>2, AfterFields DEF Dropped, Given
    <2>3. CASE c.kind \in {"assign", "mode"}
      <3>1. n.codes = l.codes /\ Dropped(c) = {} /\ Given(c) = {}
        BY <1>1, <2>3, AfterFields DEF Dropped, Given
      <3> QED BY <3>1
    <2> QED BY <1>1, <2>1, <2>2, <2>3, ChangeFields
  <1>3. Given(c) # {} => Given(c) = {c.code} /\ c.code \in Codes /\ c.code # Nothing
    BY <1>1, ChangeFields, NothingAssumption DEF Given
  <1> HIDE DEF n
  <1>4. \A s \in Ids(n) : s \in Spaces /\ n.codes[s] # Nothing
    BY DEF Ids
  <1>5. \A s \in Ids(n) : \/ s \in Ids(l) /\ n.codes[s] = l.codes[s]
                          \/ n.codes[s] \in Given(c)
    BY <1>2, <1>3, <1>4 DEF Ids
  <1>6. Held(n) \subseteq Held(l) \cup Given(c)
    BY <1>5 DEF Held
  <1>7. Ids(l) \ Dropped(c) \subseteq Ids(n)
    BY <1>2, <1>3 DEF Ids
  <1>8. Dropped(c) \cap Ids(n) = {}
    BY <1>2, <1>4
  <1> QED BY <1>5, <1>6, <1>7, <1>8 DEF n

\* A change keeps the lot's codes distinct and the sensor where there is a
\* space; the code of a space it removes is free.
LEMMA AfterSound ==
  ASSUME NEW l \in Lot, NEW c, Founded(c, l), Sound(l)
  PROVE  /\ Sound(After(c, l))
         /\ Follows(l, After(c, l))
         /\ {l.codes[s] : s \in Ids(l) \ Ids(After(c, l))} \cap Held(After(c, l)) = {}
         /\ Ids(l) \ Ids(After(c, l)) = Dropped(c)
  <1> DEFINE n == After(c, l)
  <1>1. c \in Change /\ n \in Lot
    BY AfterFields DEF Founded
  <1>2. \A s, q \in Ids(l) : s # q => l.codes[s] # l.codes[q]
    BY DEF Sound, Follows
  <1>3. \A s \in Ids(n) : \/ s \in Ids(l) /\ n.codes[s] = l.codes[s]
                          \/ n.codes[s] \in Given(c)
    BY AfterSpaces
  <1>4. Given(c) \cap Held(l) = {}
    BY DEF Founded, Given
  <1>5. \A s \in Ids(l) : l.codes[s] \in Held(l)
    BY DEF Held
  <1>6. Follows(l, n)
    <2> HIDE DEF n
    <2> QED BY <1>2, <1>3, <1>4, <1>5 DEF Follows
  <1>7. \A s \in Ids(n) : n.codes[s] \in Given(c) => s = c.space
    <2> SUFFICES ASSUME NEW s \in Ids(n), n.codes[s] \in Given(c), s # c.space PROVE FALSE
      OBVIOUS
    <2>1. c.kind \in {"add", "rename"}
      BY DEF Given
    <2>2. s \in Spaces /\ n.codes[s] = l.codes[s]
      BY <1>1, <2>1, AfterFields DEF Ids
    <2>3. s \in Ids(l)
      BY <2>2 DEF Ids
    <2> QED BY <1>4, <1>5, <2>2, <2>3
  <1>8. Follows(n, n)
    <2> HIDE DEF n
    <2> QED BY <1>2, <1>3, <1>4, <1>5, <1>7 DEF Follows
  <1>9. Ids(l) \ Ids(n) = Dropped(c)
    <2>1. Dropped(c) \subseteq Ids(l)
      BY DEF Founded, Dropped
    <2> QED BY <2>1, AfterSpaces
  <1>10. n.sensor \in {0} \cup Ids(n)
    <2>1. l.sensor \in {0} \cup Ids(l) /\ Ids(l) \ Dropped(c) \subseteq Ids(n)
      BY AfterSpaces DEF Sound
    <2>2. CASE c.kind \in {"add", "rename", "mode"}
      BY <1>1, <2>1, <2>2, AfterFields DEF Dropped
    <2>3. CASE c.kind = "remove"
      BY <1>1, <2>1, <2>3, AfterFields DEF Dropped
    <2>4. CASE c.kind = "assign"
      BY <1>1, <2>1, <2>4, AfterFields DEF Dropped, Founded
    <2> QED BY <1>1, <2>2, <2>3, <2>4, ChangeFields
  <1>11. {l.codes[s] : s \in Ids(l) \ Ids(n)} \cap Held(n) = {}
    <2> HIDE DEF n
    <2> SUFFICES ASSUME NEW s \in Ids(l) \ Ids(n), NEW q \in Ids(n), l.codes[s] = n.codes[q]
                 PROVE  FALSE
      BY DEF Held
    <2> QED BY <1>6 DEF Follows
  <1> QED BY <1>6, <1>8, <1>9, <1>10, <1>11 DEF Sound

\* The lot as the edge's message has it.
LEMMA FirstSpaces ==
  /\ DOMAIN AtFirst \subseteq Spaces
  /\ Len(AtFirst) \in Spaces
  /\ \A s \in DOMAIN AtFirst : AtFirst[s] \in Codes /\ AtFirst[s] # Nothing
  /\ \A s \in DOMAIN AtFirst, q \in Spaces : q \notin DOMAIN AtFirst => q > s
  <1>1. DOMAIN AtFirst = 1..Len(AtFirst) /\ Len(AtFirst) \in 1..MaxSpaces
    BY CodesAssumption
  <1>2. \A s \in 1..Len(AtFirst) : AtFirst[s] \in Codes
    BY CodesAssumption
  <1> QED BY <1>1, <1>2, NothingAssumption, SpacesAreNumbers DEF Spaces

\* FirstOver writes the first spaces and no other.
LEMMA FirstOverSpaces ==
  ASSUME NEW f \in EdgeRows
  PROVE  /\ FirstOver(f) \in EdgeRows
         /\ \A s \in Spaces :
              FirstOver(f)[s] = IF s \in DOMAIN AtFirst THEN AtFirst[s] ELSE f[s]
  BY FirstSpaces DEF FirstOver, EdgeRows

\* The lot the edge created has distinct codes and no sensor.
LEMMA FirstLotSound ==
  /\ FirstLot \in Lot
  /\ Ids(FirstLot) = DOMAIN AtFirst
  /\ Sound(FirstLot)
  <1> DEFINE none == [s \in Spaces |-> Nothing]
  <1>1. none \in EdgeRows
    BY DEF EdgeRows
  <1>2. /\ FirstLot.codes = FirstOver(none)
        /\ FirstLot.sensor = 0 /\ FirstLot.mode = FirstMode
    BY DEF FirstLot
  <1>3. FirstMode \in Modes
    BY ModesAssumption DEF FirstMode
  <1>4. FirstLot \in Lot
    BY <1>1, <1>3, FirstOverSpaces DEF FirstLot, Lot, EdgeRows
  <1>5. \A s \in Spaces :
          FirstLot.codes[s] = IF s \in DOMAIN AtFirst THEN AtFirst[s] ELSE Nothing
    BY <1>1, <1>2, FirstOverSpaces
  <1>6. Ids(FirstLot) = DOMAIN AtFirst
    BY <1>5, FirstSpaces DEF Ids
  <1>7. Follows(FirstLot, FirstLot)
    BY <1>5, <1>6, FirstSpaces, CodesAssumption DEF Follows, IsInjective
  <1> QED BY <1>2, <1>4, <1>6, <1>7 DEF Sound

\* Writing the lot over with what it was at first adds spaces and keeps its
\* codes distinct, where each of them could be written in turn.
LEMMA RecreatedSound ==
  ASSUME NEW l \in Lot, Sound(l), Restorable(l),
         NEW n, n = [l EXCEPT !.codes = FirstOver(@), !.mode = FirstMode]
  PROVE  n \in Lot /\ Sound(n) /\ Ids(l) \subseteq Ids(n)
  <1>1. l.codes \in EdgeRows /\ FirstMode \in Modes
    BY LotFields, ModesAssumption DEF FirstMode
  <1>2. n.codes = FirstOver(l.codes) /\ n.sensor = l.sensor /\ n.mode = FirstMode /\ n \in Lot
    BY <1>1, FirstOverSpaces DEF Lot, EdgeRows
  <1>3. \A s \in Spaces : n.codes[s] = IF s \in DOMAIN AtFirst THEN AtFirst[s] ELSE l.codes[s]
    BY <1>1, <1>2, FirstOverSpaces
  <1>4. Ids(n) = Ids(l) \cup DOMAIN AtFirst
    BY <1>3, FirstSpaces DEF Ids
  <1>5. \A s, q \in Ids(n) : s # q => n.codes[q] # n.codes[s]
    <2>1. \A s \in Ids(n) : s \in Spaces
      BY DEF Ids
    <2>2. \A s, q \in DOMAIN AtFirst : s # q => n.codes[q] # n.codes[s]
      BY <1>3, FirstSpaces, CodesAssumption DEF IsInjective
    <2>3. \A s \in DOMAIN AtFirst : \A q \in Ids(n) \ DOMAIN AtFirst : n.codes[q] # n.codes[s]
      <3> SUFFICES ASSUME NEW s \in DOMAIN AtFirst, NEW q \in Ids(n) \ DOMAIN AtFirst
                   PROVE  n.codes[q] # n.codes[s]
        OBVIOUS
      <3>1. q \in Ids(l) /\ q > s
        BY <1>4, <2>1, FirstSpaces
      <3>2. l.codes[q] # AtFirst[s]
        BY <3>1 DEF Restorable
      <3> QED BY <1>3, <2>1, <3>2, FirstSpaces
    <2>4. \A s, q \in Ids(n) \ DOMAIN AtFirst : s # q => n.codes[q] # n.codes[s]
      BY <1>3, <1>4, <2>1 DEF Sound, Follows
    <2> QED BY <2>2, <2>3, <2>4
  <1>6. n.sensor \in {0} \cup Ids(n)
    BY <1>2, <1>4 DEF Sound
  <1> QED BY <1>2, <1>4, <1>5, <1>6 DEF Sound, Follows

---------------------------------------------------------------------------
(* What a step does to the messages.                                       *)

\* Every snapshot has a lot and a status.
LEMMA SentFields ==
  ASSUME sent \in Seq(Snapshots)
  PROVE  /\ Len(sent) \in Nat /\ DOMAIN sent = 1..Len(sent)
         /\ \A i \in DOMAIN sent : /\ sent[i] \in Snapshots
                                   /\ sent[i].lot \in Lot
                                   /\ sent[i].status \in {"open", "PENDING", "ACKED"}
  <1>1. Len(sent) \in Nat /\ DOMAIN sent = 1..Len(sent)
    OBVIOUS
  <1>2. \A i \in DOMAIN sent : sent[i] \in Snapshots
    OBVIOUS
  <1> QED BY <1>1, <1>2 DEF Snapshots

\* The messages with a message's status set.
StatusSet(q, m, s) ==
  /\ q \in Seq(Snapshots)
  /\ Len(q) = Len(sent) /\ DOMAIN q = DOMAIN sent
  /\ \A i \in DOMAIN sent : /\ q[i].lot = sent[i].lot
                            /\ q[i].status = IF i = m THEN s ELSE sent[i].status

\* Setting a status changes nothing but the status.
LEMMA SetStatus ==
  ASSUME sent \in Seq(Snapshots), NEW m \in DOMAIN sent,
         NEW s \in {"open", "PENDING", "ACKED"},
         NEW q, q = [sent EXCEPT ![m].status = s]
  PROVE  StatusSet(q, m, s)
  <1> DEFINE x == [sent[m] EXCEPT !.status = s]
  <1>1. sent[m] \in Snapshots
    BY SentFields
  <1>2. x \in Snapshots /\ x.lot = sent[m].lot /\ x.status = s
    BY <1>1 DEF Snapshots
  <1>3. q = [sent EXCEPT ![m] = x]
    OBVIOUS
  <1> HIDE DEF x
  <1>4. q \in Seq(Snapshots) /\ Len(q) = Len(sent) /\ DOMAIN q = DOMAIN sent
    BY <1>2, <1>3
  <1>5. \A i \in DOMAIN sent : q[i] = IF i = m THEN x ELSE sent[i]
    BY <1>3
  <1> QED BY <1>2, <1>4, <1>5 DEF StatusSet

\* An open transaction has made a change.
LEMMA OpenChange ==
  ASSUME LotTypeOK, NEW t \in Admins, change[t] # Nothing
  PROVE  t \in Open /\ change[t] \in Change
  BY DEF LotTypeOK, Open

\* Publish adds an open snapshot with the lot as it will be.
LEMMA Published ==
  ASSUME LotTypeOK, NEW t \in Admins, Publish(t)
  PROVE  /\ sent' \in Seq(Snapshots)
         /\ Len(sent') = Len(sent) + 1 /\ Len(sent') \notin DOMAIN sent
         /\ DOMAIN sent' = DOMAIN sent \cup {Len(sent')}
         /\ \A i \in DOMAIN sent : sent'[i] = sent[i]
         /\ sent'[Len(sent')].lot = After(change[t], lot)
         /\ sent'[Len(sent')].status = "open"
         /\ \A u \in Admins : message'[u] = IF u = t THEN Len(sent') ELSE message[u]
         /\ message' \in [Admins -> 0..Len(sent')]
  <1> DEFINE x == [lot |-> After(change[t], lot), status |-> "open"]
  <1>1. sent \in Seq(Snapshots) /\ message \in [Admins -> 0..Len(sent)] /\ lot \in Lot
    BY DEF LotTypeOK
  <1>2. x \in Snapshots /\ x.lot = After(change[t], lot) /\ x.status = "open"
    BY <1>1, OpenChange, AfterFields DEF Snapshots, Publish
  <1>3. sent' = Append(sent, x) /\ message' = [message EXCEPT ![t] = Len(sent) + 1]
    BY DEF Publish
  <1> HIDE DEF x
  <1>4. /\ sent' \in Seq(Snapshots) /\ Len(sent') = Len(sent) + 1
        /\ Len(sent) \in Nat /\ DOMAIN sent = 1..Len(sent)
        /\ DOMAIN sent' = 1..Len(sent) + 1
        /\ \A i \in 1..Len(sent) : sent'[i] = sent[i]
        /\ sent'[Len(sent) + 1] = x
    BY <1>1, <1>2, <1>3
  <1>5. \A u \in Admins : message'[u] = IF u = t THEN Len(sent) + 1 ELSE message[u]
    BY <1>1, <1>3
  <1>6. message' \in [Admins -> 0..Len(sent) + 1]
    BY <1>1, <1>3, <1>4
  <1> QED BY <1>2, <1>4, <1>5, <1>6

\* Commit makes its snapshot pending and closes its transaction.
LEMMA Committed ==
  ASSUME LotTypeOK, MessagesAreOpen, NEW t \in Admins, Commit(t)
  PROVE  /\ StatusSet(sent', message[t], "PENDING")
         /\ message[t] \in DOMAIN sent /\ sent[message[t]].status = "open"
         /\ \A u \in Admins : /\ message'[u] = IF u = t THEN 0 ELSE message[u]
                              /\ change'[u] = IF u = t THEN Nothing ELSE change[u]
         /\ t \in Open /\ change[t] \in Change
  <1>1. /\ sent \in Seq(Snapshots) /\ message \in [Admins -> 0..Len(sent)]
        /\ change \in [Admins -> Change \cup {Nothing}]
    BY DEF LotTypeOK
  <1>2. message[t] \in DOMAIN sent /\ sent[message[t]].status = "open" /\ t \in Open
    BY DEF Commit, MessagesAreOpen
  <1>3. StatusSet(sent', message[t], "PENDING")
    BY <1>1, <1>2, SetStatus DEF Commit
  <1>4. \A u \in Admins : /\ message'[u] = IF u = t THEN 0 ELSE message[u]
                          /\ change'[u] = IF u = t THEN Nothing ELSE change[u]
    BY <1>1 DEF Commit
  <1> QED BY <1>2, <1>3, <1>4, OpenChange DEF Open

\* Ack makes the worker's snapshot acknowledged.
LEMMA Acknowledged ==
  ASSUME LotTypeOK, WorkIsPending, Ack
  PROVE  /\ StatusSet(sent', snapshot, "ACKED")
         /\ snapshot \in DOMAIN sent /\ sent[snapshot].status = "PENDING"
         /\ snapshot \notin listed
  <1>1. sent \in Seq(Snapshots)
    BY DEF LotTypeOK
  <1>2. snapshot \in Pending \ listed
    BY DEF WorkIsPending, Ack
  <1>3. snapshot \in DOMAIN sent /\ sent[snapshot].status = "PENDING"
    BY <1>2 DEF Pending
  <1> QED BY <1>1, <1>2, <1>3, SetStatus DEF Ack

---------------------------------------------------------------------------
(* The type invariant.                                                     *)

\* What a step of the cloud, or of the worker, leaves alone.
EdgeStays == UNCHANGED <<applying, listed, snapshot, rows, active, edgeSensor, edgeMode>>
CloudStays == UNCHANGED <<lot, made, change, message, retired>>

LEMMA WhatStays ==
  ASSUME LotNext
  PROVE  \/ /\ EdgeStays
            /\ \/ \E t \in Admins : MakeChange(t) \/ Publish(t) \/ Commit(t)
               \/ Recreated
         \/ /\ CloudStays
            /\ \/ Ack
               \/ sent' = sent /\ (\/ StartLotRun \/ ApplyLot \/ ApplySpaces \/ Refused
                                   \/ EndLotRun \/ Fails \/ LotEdgeRestart)
  <1>1. ASSUME NEW t \in Admins, MakeChange(t) \/ Publish(t) \/ Commit(t)  PROVE EdgeStays
    BY <1>1 DEF MakeChange, Publish, Commit, EdgeStays, lotWorker, edgeLot
  <1>2. ASSUME Recreated  PROVE EdgeStays
    BY <1>2 DEF Recreated, EdgeStays, lotWorker, edgeLot
  <1>3. ASSUME Ack  PROVE CloudStays
    BY <1>3 DEF Ack, CloudStays, lotHistory
  <1>4. ASSUME StartLotRun \/ ApplyLot \/ ApplySpaces \/ EndLotRun \/ LotEdgeRestart
        PROVE  CloudStays /\ sent' = sent
    BY <1>4 DEF StartLotRun, ApplyLot, ApplySpaces, EndLotRun, LotEdgeRestart,
                CloudStays, cloudLot, lotHistory
  <1>5. ASSUME Refused \/ Fails  PROVE CloudStays /\ sent' = sent
    BY <1>5 DEF Refused, Fails, GiveUp, CloudStays, cloudLot
  <1> QED BY <1>1, <1>2, <1>3, <1>4, <1>5 DEF LotNext

\* MakeChange makes a change of what is there, and locks what is free.
LEMMA ChangeMade ==
  ASSUME LotTypeOK, NEW t \in Admins, MakeChange(t)
  PROVE  \E c \in Possible(lot) :
           /\ c \in Change /\ Founded(c, lot)
           /\ Locks(c) \cap Locked = {}
           /\ \A u \in Admins : change'[u] = IF u = t THEN c ELSE change[u]
           /\ change' \in [Admins -> Change \cup {Nothing}]
           /\ made' = IF c.kind = "add" THEN c.space ELSE made
           /\ slips' = IF c.kind \in {"add", "rename"} /\ c.code \in retired
                       THEN slips \cup {"reused"} ELSE slips
           /\ c.kind = "add" => c.space \in Spaces
  <1>1. PICK c \in Possible(lot) :
          /\ Locks(c) \cap Locked = {}
          /\ change' = [change EXCEPT ![t] = c]
          /\ made' = IF c.kind = "add" THEN c.space ELSE made
          /\ slips' = IF c.kind \in {"add", "rename"} /\ c.code \in retired
                      THEN slips \cup {"reused"} ELSE slips
    BY DEF MakeChange
  <1>2. change \in [Admins -> Change \cup {Nothing}] /\ lot \in Lot
    BY DEF LotTypeOK
  <1>3. c \in Change /\ Founded(c, lot)
    BY <1>2 DEF Possible, Change, Founded, Ids, Lot
  <1>4. \A u \in Admins : change'[u] = IF u = t THEN c ELSE change[u]
    BY <1>1, <1>2
  <1>5. change' \in [Admins -> Change \cup {Nothing}]
    BY <1>1, <1>2, <1>3
  <1>6. c.kind = "add" => c.space \in Spaces
    BY <1>3, ChangeFields
  <1> QED BY <1>1, <1>3, <1>4, <1>5, <1>6

\* The change of an open transaction is of what the lot has.
LEMMA OpenFounded ==
  ASSUME LotTypeOK, ChangesHold, NEW t \in Open
  PROVE  t \in Admins /\ Founded(change[t], lot)
  <1>1. t \in Admins /\ change[t] # Nothing
    BY DEF Open
  <1>2. change[t] \in Change
    BY <1>1, OpenChange
  <1> QED BY <1>1, <1>2 DEF ChangesHold, Founded

\* Every step keeps the types.
LEMMA LotTypeStep ==
  ASSUME LotTypeOK, ChangesHold, LotsAreSound, MessagesAreOpen, WorkIsPending, LotNext
  PROVE  LotTypeOK'
  <1>0. /\ sent \in Seq(Snapshots) /\ lot \in Lot /\ Len(sent) \in Nat
        /\ DOMAIN sent = 1..Len(sent)
    BY SentFields DEF LotTypeOK
  <1>a. lotFaults' \in 0..MaxLotFaults /\ slips' \in SUBSET Slips
    <2>0. lotFaults \in 0..MaxLotFaults /\ slips \in SUBSET Slips
      BY DEF LotTypeOK
    <2>1. lotFaults' = lotFaults \/ LotFault
      BY DEF LotNext, MakeChange, Publish, Commit, Recreated, StartLotRun, ApplyLot,
             ApplySpaces, Refused, Ack, EndLotRun, Fails, LotEdgeRestart
    <2>2. lotFaults' \in 0..MaxLotFaults
      BY <2>0, <2>1, BoundsAssumption DEF LotFault
    <2>3. slips' = slips \/ \E x \in Slips : slips' = slips \cup {x}
      BY DEF LotNext, MakeChange, Publish, Commit, Recreated, StartLotRun, ApplyLot,
             ApplySpaces, Refused, Ack, EndLotRun, Fails, LotEdgeRestart, GiveUp, Slips,
             lotHistory
    <2> QED BY <2>0, <2>2, <2>3
  <1>1. ASSUME NEW t \in Admins, MakeChange(t)  PROVE LotTypeOK'
    <2>1. /\ change' \in [Admins -> Change \cup {Nothing}] /\ made' \in Spaces
      BY <1>1, ChangeMade DEF LotTypeOK
    <2>2. UNCHANGED <<lot, message, sent, applying, listed, snapshot, rows, active,
                      edgeSensor, edgeMode, retired>>
      BY <1>1 DEF MakeChange, lotWorker, edgeLot
    <2> QED BY <1>a, <2>1, <2>2 DEF LotTypeOK
  <1>2. ASSUME NEW t \in Admins, Publish(t)  PROVE LotTypeOK'
    <2>1. /\ sent' \in Seq(Snapshots) /\ message' \in [Admins -> 0..Len(sent')]
          /\ DOMAIN sent \subseteq DOMAIN sent'
          /\ Len(sent') = Len(sent) + 1
      BY <1>2, Published
    <2>2. 0..Len(sent) \subseteq 0..Len(sent')
      BY <1>0, <2>1
    <2>3. UNCHANGED <<lot, made, change, applying, listed, snapshot, rows, active,
                      edgeSensor, edgeMode, retired>>
      BY <1>2 DEF Publish, lotWorker, edgeLot
    <2> QED BY <1>a, <2>1, <2>2, <2>3 DEF LotTypeOK
  <1>3. ASSUME NEW t \in Admins, Commit(t)  PROVE LotTypeOK'
    <2>1. /\ sent' \in Seq(Snapshots) /\ Len(sent') = Len(sent) /\ DOMAIN sent' = DOMAIN sent
          /\ change[t] \in Change /\ t \in Open
      BY <1>3, Committed DEF StatusSet
    <2>2. lot' \in Lot
      BY <1>0, <1>3, <2>1, AfterFields DEF Commit
    <2>3. retired' \in SUBSET Codes
      <3>1. retired \in SUBSET Codes
        BY DEF LotTypeOK
      <3>2. CASE change[t].kind = "remove"
        <4>1. change[t].space \in Ids(lot)
          BY <2>1, <3>2, OpenFounded DEF Founded
        <4>2. CodeOf(lot, change[t].space) \in Codes
          BY <1>0, <4>1, LotFields DEF CodeOf
        <4> QED BY <1>3, <3>1, <4>2 DEF Commit
      <3>3. CASE change[t].kind # "remove"
        BY <1>3, <3>1, <3>3 DEF Commit
      <3> QED BY <3>2, <3>3
    <2>4. /\ change' \in [Admins -> Change \cup {Nothing}]
          /\ message' \in [Admins -> 0..Len(sent')]
      <3>1. /\ change \in [Admins -> Change \cup {Nothing}]
            /\ message \in [Admins -> 0..Len(sent)]
        BY DEF LotTypeOK
      <3> QED BY <1>0, <1>3, <2>1, <3>1 DEF Commit
    <2>5. UNCHANGED <<made, applying, listed, snapshot, rows, active, edgeSensor, edgeMode>>
      BY <1>3 DEF Commit, lotWorker, edgeLot
    <2> QED BY <1>a, <2>1, <2>2, <2>3, <2>4, <2>5 DEF LotTypeOK
  <1>4. ASSUME Recreated  PROVE LotTypeOK'
    <2>1. lot' \in Lot
      BY <1>0, <1>4, RecreatedSound DEF Recreated, LotsAreSound
    <2>2. UNCHANGED <<made, change, message, sent, applying, listed, snapshot, rows, active,
                      edgeSensor, edgeMode, retired>>
      BY <1>4 DEF Recreated, lotWorker, edgeLot
    <2> QED BY <1>a, <2>1, <2>2 DEF LotTypeOK
  <1>5. ASSUME StartLotRun  PROVE LotTypeOK'
    <2>1. UNCHANGED <<lot, made, change, message, sent, snapshot, rows, active, edgeSensor,
                      edgeMode, retired>>
      BY <1>5 DEF StartLotRun, cloudLot, edgeLot, lotHistory
    <2>2. listed' \subseteq DOMAIN sent /\ applying' = "apply"
      BY <1>5 DEF StartLotRun, Pending
    <2> QED BY <1>a, <2>1, <2>2 DEF LotTypeOK
  <1>6. ASSUME ApplyLot  PROVE LotTypeOK'
    <2>1. UNCHANGED <<lot, made, change, message, sent, rows, active, edgeSensor, retired>>
      BY <1>6 DEF ApplyLot, cloudLot, lotHistory
    <2>2. PICK i \in Oldest(listed) :
            snapshot' = i /\ listed' = listed \ {i} /\ edgeMode' = sent[i].lot.mode
      BY <1>6 DEF ApplyLot
    <2>3. listed \subseteq DOMAIN sent /\ i \in DOMAIN sent
      BY DEF Oldest, LotTypeOK
    <2>4. edgeMode' \in Modes /\ snapshot' \in 0..Len(sent) /\ listed' \subseteq DOMAIN sent
      BY <1>0, <2>2, <2>3, SentFields, LotFields
    <2>5. applying' = "spaces"
      BY <1>6 DEF ApplyLot
    <2> QED BY <1>a, <2>1, <2>4, <2>5 DEF LotTypeOK
  <1>7. ASSUME ApplySpaces  PROVE LotTypeOK'
    <2> DEFINE l == sent[snapshot].lot
    <2>1. UNCHANGED <<lot, made, change, message, sent, listed, snapshot, edgeMode, retired>>
      BY <1>7 DEF ApplySpaces, cloudLot, lotHistory
    <2>2. PICK e \in Outcomes(l) :
            /\ rows' = e.rows
            /\ active' = {e.kept[s] : s \in Ids(l)}
            /\ edgeSensor' = IF l.sensor = 0 THEN 0 ELSE e.kept[l.sensor]
      BY <1>7 DEF ApplySpaces
    <2>3. snapshot \in DOMAIN sent
      BY <1>7 DEF ApplySpaces, WorkIsPending, Pending
    <2>4. l \in Lot /\ l.sensor \in {0} \cup Ids(l)
      BY <1>0, <2>3, SentFields DEF LotsAreSound, Sound
    <2>5. rows \in EdgeRows
      BY DEF LotTypeOK, EdgeRows
    <2> HIDE DEF l
    <2>6. /\ e.rows \in EdgeRows
          /\ \A s \in Ids(l) : e.kept[s] \in Spaces /\ e.rows[e.kept[s]] \in Held(l)
      BY <2>2, <2>4, <2>5, OutcomesSave
    <2>7. Nothing \notin Held(l)
      BY <2>4, LotFields, NothingAssumption
    <2>8. active' \in SUBSET {r \in Spaces : rows'[r] # Nothing}
      BY <2>2, <2>6, <2>7
    <2>9. edgeSensor' \in {0} \cup Spaces
      BY <2>2, <2>4, <2>6
    <2>10. rows' \in [Spaces -> Codes \cup {Nothing}] /\ applying' = "ack"
      BY <1>7, <2>2, <2>6 DEF EdgeRows, ApplySpaces
    <2> QED BY <1>a, <2>1, <2>8, <2>9, <2>10 DEF LotTypeOK
  <1>8. ASSUME Ack  PROVE LotTypeOK'
    <2>1. sent' \in Seq(Snapshots) /\ Len(sent') = Len(sent) /\ DOMAIN sent' = DOMAIN sent
      BY <1>8, Acknowledged DEF StatusSet
    <2>2. /\ applying' = "apply" /\ snapshot' = 0
          /\ UNCHANGED <<lot, made, change, message, listed, rows, active, edgeSensor,
                         edgeMode, retired>>
      BY <1>8 DEF Ack, edgeLot, lotHistory
    <2>3. snapshot' \in 0..Len(sent')
      BY <1>0, <2>1, <2>2
    <2> QED BY <1>a, <2>1, <2>2, <2>3 DEF LotTypeOK
  <1>9. ASSUME Refused \/ Fails  PROVE LotTypeOK'
    <2>1. /\ applying' = "apply" /\ snapshot' = 0
          /\ UNCHANGED <<lot, made, change, message, sent, listed, rows, active, edgeSensor,
                         edgeMode, retired>>
      BY <1>9 DEF Refused, Fails, GiveUp, cloudLot, edgeLot
    <2>2. snapshot' \in 0..Len(sent')
      BY <1>0, <2>1
    <2> QED BY <1>a, <2>1, <2>2 DEF LotTypeOK
  <1>10. ASSUME EndLotRun  PROVE LotTypeOK'
    <2>1. /\ applying' = "idle"
          /\ UNCHANGED <<lot, made, change, message, sent, listed, snapshot, rows, active,
                         edgeSensor, edgeMode, retired>>
      BY <1>10 DEF EndLotRun, cloudLot, edgeLot, lotHistory
    <2> QED BY <1>a, <2>1 DEF LotTypeOK
  <1>11. ASSUME LotEdgeRestart  PROVE LotTypeOK'
    <2>1. /\ applying' = "idle" /\ listed' = {} /\ snapshot' = 0
          /\ UNCHANGED <<lot, made, change, message, sent, rows, active, edgeSensor,
                         edgeMode, retired>>
      BY <1>11 DEF LotEdgeRestart, cloudLot, edgeLot, lotHistory
    <2>2. snapshot' \in 0..Len(sent')
      BY <1>0, <2>1
    <2> QED BY <1>a, <2>1, <2>2 DEF LotTypeOK
  <1> QED BY <1>1, <1>2, <1>3, <1>4, <1>5, <1>6, <1>7, <1>8, <1>9, <1>10, <1>11 DEF LotNext

---------------------------------------------------------------------------
(* What holds whatever the order: changes, lots, messages and work.        *)

\* Two changes are of different spaces and give different codes.
Apart(c, d) ==
  /\ {c.kind, d.kind} \subseteq {"rename", "remove", "assign"} => c.space # d.space
  /\ {c.kind, d.kind} \subseteq {"add", "rename"} => c.code # d.code

\* Every step keeps the open changes about what the lot has, and apart.
LEMMA ChangesHoldStep ==
  ASSUME LotTypeOK, ChangesHold, LotsAreSound, MessagesAreOpen, LotNext
  PROVE  ChangesHold'
  <1>0. lot \in Lot /\ Sound(lot) /\ change \in [Admins -> Change \cup {Nothing}]
    BY DEF LotTypeOK, LotsAreSound
  <1>a. ASSUME lot' = lot, change' = change  PROVE ChangesHold'
    BY <1>a DEF ChangesHold, Open
  <1>b. \A u \in Open : u \in Admins /\ change[u] # Nothing /\ Founded(change[u], lot)
    BY OpenFounded DEF Open
  <1>1. ASSUME NEW t \in Admins, MakeChange(t)  PROVE ChangesHold'
    <2>1. PICK c \in Possible(lot) :
            /\ c \in Change /\ Founded(c, lot)
            /\ Locks(c) \cap Locked = {}
            /\ \A u \in Admins : change'[u] = IF u = t THEN c ELSE change[u]
      BY <1>1, ChangeMade
    <2>2. lot' = lot
      BY <1>1 DEF MakeChange
    <2>3. \A u \in Open' : \/ u = t /\ change'[u] = c
                           \/ u \in Open /\ change'[u] = change[u]
      BY <2>1 DEF Open
    <2>4. \A u \in Open' : Founded(change'[u], lot)
      BY <1>b, <2>1, <2>3
    <2>5. ASSUME NEW u \in Open
          PROVE  Apart(c, change[u])
      <3>1. Locks(c) \cap Locks(change[u]) = {}
        BY <2>1 DEF Locked
      <3>2. \A d \in Change : d.kind \in {"rename", "remove", "assign"} =>
                                <<"space", d.space>> \in Locks(d)
        BY DEF Locks
      <3>3. \A d \in Change : d.kind \in {"add", "rename"} => <<"code", d.code>> \in Locks(d)
        BY DEF Locks
      <3>4. c \in Change /\ change[u] \in Change
        BY <1>b, <2>1 DEF Founded
      <3> QED BY <3>1, <3>2, <3>3, <3>4 DEF Apart
    <2>6. \A u, w \in Open' : u # w => Apart(change'[u], change'[w])
      <3> SUFFICES ASSUME NEW u \in Open', NEW w \in Open', u # w
                   PROVE  Apart(change'[u], change'[w])
        OBVIOUS
      <3>1. \A d : Apart(c, d) => Apart(d, c)
        BY DEF Apart
      <3>2. CASE u = t
        <4>1. change'[u] = c /\ w \in Open /\ change'[w] = change[w]
          BY <2>1, <2>3, <3>2
        <4> QED BY <2>5, <4>1
      <3>3. CASE w = t
        <4>1. change'[w] = c /\ u \in Open /\ change'[u] = change[u]
          BY <2>1, <2>3, <3>3
        <4> QED BY <2>5, <3>1, <4>1
      <3>4. CASE u # t /\ w # t
        <4>1. u \in Open /\ w \in Open /\ change'[u] = change[u] /\ change'[w] = change[w]
          BY <2>3, <3>4
        <4> QED BY <4>1 DEF ChangesHold, Apart
      <3> QED BY <3>2, <3>3, <3>4
    <2> QED BY <2>2, <2>4, <2>6 DEF ChangesHold, Founded, Apart
  <1>2. ASSUME NEW t \in Admins, Commit(t)  PROVE ChangesHold'
    <2>1. /\ t \in Open
          /\ \A u \in Admins : change'[u] = IF u = t THEN Nothing ELSE change[u]
      BY <1>2, Committed
    <2>2. lot' = After(change[t], lot) /\ Founded(change[t], lot)
      BY <1>2, <1>b, <2>1 DEF Commit
    <2>3. \A u \in Open' : u \in Open /\ u # t /\ change'[u] = change[u]
      BY <2>1 DEF Open
    <2>4. ASSUME NEW u \in Open'  PROVE Founded(change'[u], lot')
      <3>1. u \in Open /\ u # t /\ change'[u] = change[u] /\ Founded(change[u], lot)
        BY <1>b, <2>3
      <3>2. /\ Held(lot') \subseteq Held(lot) \cup Given(change[t])
            /\ Ids(lot) \ Dropped(change[t]) \subseteq Ids(lot')
        BY <1>0, <2>2, AfterSpaces
      <3>3. change[u].kind \in {"rename", "remove", "assign"} =>
              change[u].space \notin Dropped(change[t])
        BY <2>1, <3>1 DEF ChangesHold, Dropped
      <3>4. change[u].kind \in {"add", "rename"} => change[u].code \notin Given(change[t])
        BY <2>1, <3>1 DEF ChangesHold, Given
      <3> QED BY <3>1, <3>2, <3>3, <3>4 DEF Founded
    <2> QED BY <2>3, <2>4 DEF ChangesHold, Founded
  <1>3. ASSUME Recreated  PROVE ChangesHold'
    <2>1. change' = change /\ Open' = Open
      BY <1>3 DEF Recreated, Open
    <2>2. Ids(lot) \subseteq Ids(lot')
      <3>1. /\ lot' = [lot EXCEPT !.codes = FirstOver(@), !.mode = FirstMode]
            /\ Restorable(lot)
        BY <1>3 DEF Recreated
      <3> QED BY <1>0, <3>1, RecreatedSound
    <2>3. \A u \in Open : change[u].kind \notin {"add", "rename"}
      <3> SUFFICES ASSUME NEW u \in Open, change[u].kind \in {"add", "rename"} PROVE FALSE
        OBVIOUS
      <3>1. change[u] \in Change /\ change[u].code \in Codes
        BY <1>b, ChangeFields DEF Founded
      <3>2. <<"code", change[u].code>> \in Locks(change[u])
        BY DEF Locks
      <3>3. <<"code", change[u].code>> \in Locked
        BY <3>2 DEF Locked
      <3>4. Locked \cap ({"code"} \X Codes) = {}
        BY <1>3 DEF Recreated
      <3> QED BY <3>1, <3>3, <3>4
    <2> QED BY <2>1, <2>2, <2>3 DEF ChangesHold
  <1>4. ASSUME NEW t \in Admins, Publish(t)  PROVE ChangesHold'
    BY <1>4, <1>a DEF Publish
  <1>5. CASE CloudStays
    BY <1>5, <1>a DEF CloudStays
  <1> QED BY <1>1, <1>2, <1>3, <1>4, <1>5, WhatStays

\* Every snapshot keeps its lot; a new one has that of its transaction.
LEMMA SentStays ==
  ASSUME LotTypeOK, MessagesAreOpen, WorkIsPending, LotNext
  PROVE  /\ Len(sent) \in Nat /\ DOMAIN sent = 1..Len(sent)
         /\ DOMAIN sent \subseteq DOMAIN sent'
         /\ \A i \in DOMAIN sent : sent'[i].lot = sent[i].lot
         /\ \/ Len(sent') = Len(sent) /\ DOMAIN sent' = DOMAIN sent
            \/ \E t \in Admins : Publish(t)
  <1>1. Len(sent) \in Nat /\ DOMAIN sent = 1..Len(sent)
    BY SentFields DEF LotTypeOK
  <1>2. ASSUME NEW t \in Admins, Publish(t)
        PROVE  /\ DOMAIN sent \subseteq DOMAIN sent'
               /\ \A i \in DOMAIN sent : sent'[i].lot = sent[i].lot
    BY <1>2, Published
  <1>3. ASSUME NEW m, NEW s, StatusSet(sent', m, s)
        PROVE  /\ Len(sent') = Len(sent) /\ DOMAIN sent' = DOMAIN sent
               /\ \A i \in DOMAIN sent : sent'[i].lot = sent[i].lot
    BY <1>3 DEF StatusSet
  <1>4. ASSUME NEW t \in Admins, MakeChange(t)  PROVE sent' = sent
    BY <1>4 DEF MakeChange
  <1>5. ASSUME NEW t \in Admins, Commit(t)  PROVE StatusSet(sent', message[t], "PENDING")
    BY <1>5, Committed
  <1>6. ASSUME Ack  PROVE StatusSet(sent', snapshot, "ACKED")
    BY <1>6, Acknowledged
  <1>7. Recreated => sent' = sent
    BY DEF Recreated
  <1>8. \/ sent' = sent
        \/ \E t \in Admins : Publish(t)
        \/ \E m, s : StatusSet(sent', m, s)
    BY <1>4, <1>5, <1>6, <1>7, WhatStays
  <1> QED BY <1>1, <1>2, <1>3, <1>8

\* Every step keeps the codes of a lot distinct.
LEMMA LotsAreSoundStep ==
  ASSUME LotTypeOK, ChangesHold, LotsAreSound, MessagesAreOpen, WorkIsPending, LotNext
  PROVE  LotsAreSound'
  <1>0. lot \in Lot /\ Sound(lot)
    BY DEF LotTypeOK, LotsAreSound
  <1>1. ASSUME NEW t \in Open  PROVE Sound(After(change[t], lot))
    BY <1>0, OpenFounded, AfterSound
  <1>2. Sound(lot')
    <2>1. ASSUME NEW t \in Admins, Commit(t)  PROVE Sound(lot')
      <3>1. lot' = After(change[t], lot) /\ t \in Open
        BY <2>1, Committed DEF Commit
      <3> QED BY <1>1, <3>1
    <2>2. ASSUME Recreated  PROVE Sound(lot')
      BY <1>0, <2>2, RecreatedSound DEF Recreated
    <2>3. ASSUME NEW t \in Admins, MakeChange(t) \/ Publish(t)  PROVE lot' = lot
      BY <2>3 DEF MakeChange, Publish
    <2>4. CloudStays => lot' = lot
      BY DEF CloudStays
    <2> QED BY <1>0, <2>1, <2>2, <2>3, <2>4, WhatStays
  <1>3. \A i \in DOMAIN sent' : Sound(sent'[i].lot)
    <2>1. \A i \in DOMAIN sent : Sound(sent'[i].lot)
      BY SentStays DEF LotsAreSound
    <2>2. ASSUME NEW t \in Admins, Publish(t)  PROVE Sound(sent'[Len(sent')].lot)
      <3>1. t \in Open
        BY <2>2 DEF Publish, Open
      <3> QED BY <1>1, <2>2, <3>1, Published
    <2>3. \/ DOMAIN sent' = DOMAIN sent
          \/ \E t \in Admins : Publish(t) /\ DOMAIN sent' = DOMAIN sent \cup {Len(sent')}
      BY SentStays, Published
    <2> QED BY <2>1, <2>2, <2>3
  <1> QED BY <1>2, <1>3 DEF LotsAreSound

\* Every step keeps open snapshots those of open transactions.
LEMMA MessagesAreOpenStep ==
  ASSUME LotTypeOK, MessagesAreOpen, WorkIsPending, LotNext
  PROVE  MessagesAreOpen'
  <1>0. /\ \A t \in Admins : message[t] # 0 => change[t] # Nothing
        /\ \A t \in Admins : message[t] # 0 =>
             message[t] \in DOMAIN sent /\ sent[message[t]].status = "open"
        /\ \A t, u \in Admins : message[t] # 0 /\ message[t] = message[u] => t = u
        /\ \A i \in DOMAIN sent : sent[i].status = "open" => \E t \in Admins : message[t] = i
    BY DEF MessagesAreOpen, Open
  <1>a. Len(sent) \in Nat /\ DOMAIN sent = 1..Len(sent)
    BY SentFields DEF LotTypeOK
  <1>1. ASSUME NEW t \in Admins, MakeChange(t)  PROVE MessagesAreOpen'
    <2>1. \E c : \A u \in Admins : change'[u] = IF u = t THEN c ELSE change[u]
      BY <1>1, ChangeMade
    <2>2. change[t] = Nothing /\ message' = message /\ sent' = sent
      BY <1>1 DEF MakeChange
    <2>3. \A u \in Admins : message'[u] # 0 => change'[u] # Nothing
      BY <1>0, <2>1, <2>2
    <2> QED BY <1>0, <2>2, <2>3 DEF MessagesAreOpen, Open
  <1>2. ASSUME NEW t \in Admins, Publish(t)  PROVE MessagesAreOpen'
    <2>1. /\ Len(sent') = Len(sent) + 1 /\ Len(sent') \notin DOMAIN sent
          /\ DOMAIN sent' = DOMAIN sent \cup {Len(sent')}
          /\ \A i \in DOMAIN sent : sent'[i] = sent[i]
          /\ sent'[Len(sent')].status = "open"
          /\ \A u \in Admins : message'[u] = IF u = t THEN Len(sent') ELSE message[u]
      BY <1>2, Published
    <2>2. change' = change /\ change[t] # Nothing /\ message[t] = 0
      BY <1>2 DEF Publish
    <2>3. \A u \in Admins : message'[u] # 0 =>
            /\ change'[u] # Nothing /\ message'[u] \in DOMAIN sent'
            /\ sent'[message'[u]].status = "open"
      BY <1>0, <2>1, <2>2
    <2>4. \A u, w \in Admins : message'[u] # 0 /\ message'[u] = message'[w] => u = w
      BY <1>0, <2>1, <2>2
    <2>5. \A i \in DOMAIN sent' : sent'[i].status = "open" => \E u \in Admins : message'[u] = i
      <3> SUFFICES ASSUME NEW i \in DOMAIN sent', sent'[i].status = "open"
                   PROVE  \E u \in Admins : message'[u] = i
        OBVIOUS
      <3>1. CASE i = Len(sent')
        BY <2>1, <3>1
      <3>2. CASE i \in DOMAIN sent
        <4>1. PICK u \in Admins : message[u] = i
          BY <1>0, <2>1, <3>2
        <4>2. u # t
          BY <1>a, <2>2, <3>2, <4>1
        <4> QED BY <2>1, <4>1, <4>2
      <3> QED BY <2>1, <3>1, <3>2
    <2> QED BY <2>3, <2>4, <2>5 DEF MessagesAreOpen, Open
  <1>3. ASSUME NEW t \in Admins, Commit(t)  PROVE MessagesAreOpen'
    <2>1. /\ StatusSet(sent', message[t], "PENDING")
          /\ message[t] \in DOMAIN sent /\ sent[message[t]].status = "open"
          /\ \A u \in Admins : /\ message'[u] = IF u = t THEN 0 ELSE message[u]
                               /\ change'[u] = IF u = t THEN Nothing ELSE change[u]
      BY <1>3, Committed
    <2>2. /\ DOMAIN sent' = DOMAIN sent
          /\ \A i \in DOMAIN sent :
               sent'[i].status = IF i = message[t] THEN "PENDING" ELSE sent[i].status
      BY <2>1 DEF StatusSet
    <2>3. \A u \in Admins : message'[u] # 0 =>
            /\ change'[u] # Nothing /\ message'[u] \in DOMAIN sent'
            /\ sent'[message'[u]].status = "open"
      <3> SUFFICES ASSUME NEW u \in Admins, message'[u] # 0
                   PROVE  /\ change'[u] # Nothing /\ message'[u] \in DOMAIN sent'
                          /\ sent'[message'[u]].status = "open"
        OBVIOUS
      <3>1. u # t /\ message'[u] = message[u] /\ change'[u] = change[u]
        BY <2>1
      <3>2. message[u] # message[t] /\ message[u] \in DOMAIN sent
        BY <1>0, <3>1
      <3> QED BY <1>0, <2>2, <3>1, <3>2
    <2>4. \A u, w \in Admins : message'[u] # 0 /\ message'[u] = message'[w] => u = w
      BY <1>0, <2>1
    <2>5. \A i \in DOMAIN sent' : sent'[i].status = "open" => \E u \in Admins : message'[u] = i
      <3> SUFFICES ASSUME NEW i \in DOMAIN sent', sent'[i].status = "open"
                   PROVE  \E u \in Admins : message'[u] = i
        OBVIOUS
      <3>1. i \in DOMAIN sent /\ i # message[t] /\ sent[i].status = "open"
        BY <2>2
      <3>2. PICK u \in Admins : message[u] = i
        BY <1>0, <3>1
      <3> QED BY <2>1, <3>1, <3>2
    <2> QED BY <2>3, <2>4, <2>5 DEF MessagesAreOpen, Open
  <1>4. ASSUME Recreated  PROVE MessagesAreOpen'
    <2>1. message' = message /\ sent' = sent /\ change' = change
      BY <1>4 DEF Recreated
    <2> QED BY <2>1 DEF MessagesAreOpen, Open
  <1>5. ASSUME Ack  PROVE MessagesAreOpen'
    <2>1. /\ snapshot \in DOMAIN sent /\ sent[snapshot].status = "PENDING"
          /\ DOMAIN sent' = DOMAIN sent
          /\ \A i \in DOMAIN sent :
               sent'[i].status = IF i = snapshot THEN "ACKED" ELSE sent[i].status
      BY <1>5, Acknowledged DEF StatusSet
    <2>2. message' = message /\ change' = change
      BY <1>5 DEF Ack
    <2> QED BY <1>0, <2>1, <2>2 DEF MessagesAreOpen, Open
  <1>6. ASSUME CloudStays, sent' = sent  PROVE MessagesAreOpen'
    BY <1>6 DEF MessagesAreOpen, Open, CloudStays
  <1> QED BY <1>1, <1>2, <1>3, <1>4, <1>5, <1>6, WhatStays

\* Every step keeps the worker at pending snapshots.
LEMMA WorkIsPendingStep ==
  ASSUME LotTypeOK, MessagesAreOpen, WorkIsPending, LotNext
  PROVE  WorkIsPending'
  <1>1. ASSUME EdgeStays, \A i \in Pending : i \in Pending'  PROVE WorkIsPending'
    BY <1>1 DEF EdgeStays, WorkIsPending
  <1>2. ASSUME NEW t \in Admins, Publish(t)  PROVE \A i \in Pending : i \in Pending'
    BY <1>2, Published DEF Pending
  <1>3. ASSUME NEW t \in Admins, Commit(t)  PROVE \A i \in Pending : i \in Pending'
    BY <1>3, Committed DEF Pending, StatusSet
  <1>4. sent' = sent => Pending' = Pending
    BY DEF Pending
  <1>5. ASSUME NEW t \in Admins, MakeChange(t)  PROVE sent' = sent
    BY <1>5 DEF MakeChange
  <1>6. Recreated => sent' = sent
    BY DEF Recreated
  <1>7. CASE EdgeStays /\ \/ \E t \in Admins : MakeChange(t) \/ Publish(t) \/ Commit(t)
                          \/ Recreated
    BY <1>1, <1>2, <1>3, <1>4, <1>5, <1>6, <1>7
  <1>8. CASE Ack
    <2>1. \A i \in listed : i \in Pending'
      BY <1>8, Acknowledged DEF StatusSet, Pending, WorkIsPending
    <2>2. listed' = listed /\ applying' = "apply" /\ snapshot' = 0
      BY <1>8 DEF Ack
    <2> QED BY <2>1, <2>2 DEF WorkIsPending
  <1>9. ASSUME sent' = sent, \/ StartLotRun \/ ApplyLot \/ ApplySpaces \/ Refused
                             \/ EndLotRun \/ Fails \/ LotEdgeRestart
        PROVE  WorkIsPending'
    <2>1. Pending' = Pending
      BY <1>4, <1>9
    <2>2. CASE StartLotRun
      <3>1. listed' = Pending /\ applying' = "apply" /\ snapshot' = 0
        BY <2>2 DEF StartLotRun, WorkIsPending
      <3> QED BY <2>1, <3>1 DEF WorkIsPending
    <2>3. CASE ApplyLot
      <3>1. PICK i \in Oldest(listed) : snapshot' = i /\ listed' = listed \ {i}
        BY <2>3 DEF ApplyLot
      <3>2. i \in listed /\ applying' = "spaces"
        BY <2>3 DEF Oldest, ApplyLot
      <3> QED BY <2>1, <3>1, <3>2 DEF WorkIsPending
    <2>4. CASE ApplySpaces
      BY <2>1, <2>4 DEF ApplySpaces, WorkIsPending
    <2>5. CASE Refused \/ Fails
      <3>1. listed' = listed /\ applying' = "apply" /\ snapshot' = 0
        BY <2>5 DEF Refused, Fails, GiveUp
      <3> QED BY <2>1, <3>1 DEF WorkIsPending
    <2>6. CASE EndLotRun
      BY <2>1, <2>6 DEF EndLotRun, WorkIsPending
    <2>7. CASE LotEdgeRestart
      <3>1. listed' = {} /\ applying' = "idle" /\ snapshot' = 0
        BY <2>7 DEF LotEdgeRestart
      <3> QED BY <3>1 DEF WorkIsPending
    <2> QED BY <1>9, <2>2, <2>3, <2>4, <2>5, <2>6, <2>7
  <1> QED BY <1>7, <1>8, <1>9, WhatStays

---------------------------------------------------------------------------
(* What holds while nothing has come out of order.                         *)

\* What has come out of order stays so.
LEMMA SlipsGrow ==
  ASSUME LotNext
  PROVE  slips \subseteq slips' /\ (InOrder' => InOrder) /\ (slips' = {} => slips = {})
  <1>1. slips \subseteq slips'
    BY DEF LotNext, MakeChange, Publish, Commit, Recreated, StartLotRun, ApplyLot,
           ApplySpaces, Refused, Ack, EndLotRun, Fails, LotEdgeRestart, GiveUp, lotHistory
  <1> QED BY <1>1 DEF InOrder

\* What the invariant says while nothing has come out of order.
LEMMA InOrderOpens ==
  ASSUME LotIInv, InOrder
  PROVE  LastIsLot /\ LotsFollow /\ AckedInOrder /\ RunInOrder /\ EdgeRunsOn
  BY DEF LotIInv, ChannelInOrder

\* The snapshots are numbered from one on.
LEMMA SentLength ==
  ASSUME LotIInv
  PROVE  /\ LotTypeOK /\ MessagesAreOpen /\ WorkIsPending
         /\ sent \in Seq(Snapshots) /\ Len(sent) \in Nat /\ DOMAIN sent = 1..Len(sent)
         /\ \A i \in DOMAIN sent : i - 1 \in 0..Len(sent) /\ i \in 0..Len(sent) /\ i # 0
         /\ \A i \in 0..Len(sent) : i = 0 \/ i \in DOMAIN sent
         /\ Len(sent) \in 0..Len(sent)
  <1>1. /\ LotTypeOK /\ MessagesAreOpen /\ WorkIsPending
        /\ sent \in Seq(Snapshots) /\ Len(sent) \in Nat /\ DOMAIN sent = 1..Len(sent)
    BY SentFields DEF LotIInv, LotTypeOK
  <1> QED BY <1>1

\* The i-th lot of a sequence of snapshots.
LotIn(q, i) == IF i = 0 THEN FirstLot ELSE q[i].lot

\* LotAt reads the snapshots.
LEMMA LotAtIn ==
  /\ \A i : LotAt(i) = LotIn(sent, i)
  /\ \A i : LotAt(i)' = LotIn(sent', i)
  BY DEF LotAt, LotIn

\* A snapshot's lot is never written again.
LEMMA LotStays ==
  ASSUME LotIInv, LotNext
  PROVE  \A i \in 0..Len(sent) : LotIn(sent', i) = LotIn(sent, i)
  <1>1. \A i \in DOMAIN sent : sent'[i].lot = sent[i].lot
    BY SentStays DEF LotIInv
  <1> QED BY <1>1, SentLength DEF LotIn

\* The snapshot a transaction writes has the lot as it will be.
LEMMA LotPublished ==
  ASSUME LotIInv, NEW t \in Admins, Publish(t)
  PROVE  /\ Len(sent') = Len(sent) + 1 /\ DOMAIN sent' = DOMAIN sent \cup {Len(sent) + 1}
         /\ LotIn(sent', Len(sent) + 1) = After(change[t], lot)
         /\ sent'[Len(sent) + 1].status = "open"
         /\ \A i \in DOMAIN sent : sent'[i] = sent[i] /\ i < Len(sent) + 1
         /\ change' = change /\ lot' = lot /\ retired' = retired /\ message[t] = 0
         /\ t \in Open /\ Founded(change[t], lot) /\ lot \in Lot /\ Sound(lot)
  <1>1. Len(sent) \in Nat /\ DOMAIN sent = 1..Len(sent) /\ lot \in Lot /\ Sound(lot)
    BY SentFields DEF LotIInv, LotTypeOK, LotsAreSound
  <1>2. /\ Len(sent') = Len(sent) + 1 /\ DOMAIN sent' = DOMAIN sent \cup {Len(sent')}
        /\ sent'[Len(sent')].lot = After(change[t], lot)
        /\ sent'[Len(sent')].status = "open"
        /\ \A i \in DOMAIN sent : sent'[i] = sent[i]
    BY Published DEF LotIInv
  <1>3. Len(sent) + 1 # 0
    BY <1>1
  <1>4. LotIn(sent', Len(sent) + 1) = After(change[t], lot)
    BY <1>2, <1>3 DEF LotIn
  <1>5. /\ change' = change /\ lot' = lot /\ retired' = retired /\ message[t] = 0
        /\ t \in Open
    BY DEF Publish, Open
  <1>6. \A i \in DOMAIN sent : i < Len(sent) + 1
    BY <1>1
  <1> QED BY <1>1, <1>2, <1>4, <1>5, <1>6, OpenFounded DEF LotIInv

\* A snapshot that comes in order is written while no other is open.
LEMMA InOrderAlone ==
  ASSUME NEW t \in Admins, Publish(t), InOrder'
  PROVE  \A u \in Admins : message[u] = 0
  BY DEF Publish, InOrder

\* LastIsLot, with the snapshots spelled out.
LEMMA LastIsLotOpens ==
  LastIsLot <=>
    /\ \A t \in Admins : message[t] # 0 =>
         /\ message[t] = Len(sent)
         /\ lot = LotIn(sent, Len(sent) - 1)
         /\ sent[Len(sent)].lot = After(change[t], lot)
    /\ \A t, u \in Admins : message[t] # 0 /\ message[u] # 0 => t = u
    /\ (\A t \in Admins : message[t] = 0) => lot = LotIn(sent, Len(sent))
  BY LotAtIn DEF LastIsLot

\* The same after a step.
LEMMA LastIsLotPrime ==
  LastIsLot' <=>
    /\ \A t \in Admins : message'[t] # 0 =>
         /\ message'[t] = Len(sent')
         /\ lot' = LotIn(sent', Len(sent') - 1)
         /\ sent'[Len(sent')].lot = After(change'[t], lot')
    /\ \A t, u \in Admins : message'[t] # 0 /\ message'[u] # 0 => t = u
    /\ (\A t \in Admins : message'[t] = 0) => lot' = LotIn(sent', Len(sent'))
  BY DEF LastIsLot, LotAt, LotIn

\* In order, the last snapshot has the lot as it is or will be.
LEMMA LastIsLotStep ==
  ASSUME LotIInv, LotNext, InOrder'
  PROVE  LastIsLot'
  <1>0. /\ LotTypeOK /\ MessagesAreOpen /\ WorkIsPending
        /\ Len(sent) \in Nat /\ DOMAIN sent = 1..Len(sent)
    BY SentLength
  <1>a. /\ \A t \in Admins : message[t] # 0 =>
             /\ message[t] = Len(sent)
             /\ lot = LotIn(sent, Len(sent) - 1)
             /\ sent[Len(sent)].lot = After(change[t], lot)
        /\ \A t, u \in Admins : message[t] # 0 /\ message[u] # 0 => t = u
        /\ (\A t \in Admins : message[t] = 0) => lot = LotIn(sent, Len(sent))
    BY InOrderOpens, SlipsGrow, LastIsLotOpens
  <1>b. \A t \in Admins : message[t] # 0 => t \in Open /\ message[t] \in DOMAIN sent
    BY <1>0 DEF MessagesAreOpen
  <1>1. ASSUME NEW t \in Admins, MakeChange(t)  PROVE LastIsLot'
    <2>1. \E c : \A u \in Admins : change'[u] = IF u = t THEN c ELSE change[u]
      BY <1>0, <1>1, ChangeMade
    <2>2. change[t] = Nothing /\ message' = message /\ sent' = sent /\ lot' = lot
      BY <1>1 DEF MakeChange
    <2>3. \A u \in Admins : message[u] # 0 => change'[u] = change[u]
      BY <1>b, <2>1, <2>2 DEF Open
    <2> QED BY <1>a, <2>2, <2>3, LastIsLotPrime
  <1>2. ASSUME NEW t \in Admins, Publish(t)  PROVE LastIsLot'
    <2>1. \A u \in Admins : message[u] = 0
      BY <1>2, InOrderAlone
    <2>2. \A u \in Admins : message'[u] = IF u = t THEN Len(sent') ELSE message[u]
      BY <1>0, <1>2, Published
    <2>3. /\ Len(sent') = Len(sent) + 1 /\ change' = change /\ lot' = lot
          /\ sent'[Len(sent')].lot = After(change[t], lot)
      BY <1>0, <1>2, LotPublished, Published
    <2>4. lot' = LotIn(sent', Len(sent))
      BY <1>a, <2>1, <2>3, LotStays, SentLength
    <2>5. Len(sent') - 1 = Len(sent)
      BY <1>0, <2>3
    <2>6. lot' = LotIn(sent', Len(sent') - 1)
      BY <2>4, <2>5
    <2>7. \A u \in Admins : message'[u] # 0 => u = t /\ message'[u] = Len(sent')
      BY <2>1, <2>2
    <2>8. message'[t] # 0
      BY <1>0, <2>2, <2>3
    <2> QED BY <2>3, <2>6, <2>7, <2>8, LastIsLotPrime
  <1>3. ASSUME NEW t \in Admins, Commit(t)  PROVE LastIsLot'
    <2>1. /\ message[t] \in DOMAIN sent
          /\ \A u \in Admins : message'[u] = IF u = t THEN 0 ELSE message[u]
          /\ Len(sent') = Len(sent)
          /\ \A i \in DOMAIN sent : sent'[i].lot = sent[i].lot
      BY <1>0, <1>3, Committed DEF StatusSet
    <2>2. message[t] # 0 /\ lot' = After(change[t], lot)
      BY <1>3 DEF Commit
    <2>3. \A u \in Admins : message'[u] = 0
      BY <1>a, <2>1, <2>2
    <2>4. lot' = sent'[Len(sent')].lot /\ Len(sent') # 0
      BY <1>0, <1>a, <2>1, <2>2
    <2>5. lot' = LotIn(sent', Len(sent'))
      BY <2>4 DEF LotIn
    <2> QED BY <2>3, <2>5, LastIsLotPrime
  <1>4. ASSUME Recreated  PROVE FALSE
    BY <1>4 DEF Recreated, InOrder
  <1>5. ASSUME CloudStays, sent' = sent  PROVE LastIsLot'
    BY <1>5, <1>a, LastIsLotPrime DEF CloudStays
  <1>6. ASSUME Ack  PROVE LastIsLot'
    <2>1. /\ Len(sent') = Len(sent)
          /\ \A i \in DOMAIN sent : sent'[i].lot = sent[i].lot
      BY <1>0, <1>6, Acknowledged DEF StatusSet
    <2>2. lot' = lot /\ message' = message /\ change' = change
      BY <1>6 DEF Ack
    <2>3. LotIn(sent', Len(sent)) = LotIn(sent, Len(sent))
      BY LotStays, SentLength
    <2>4. \A u \in Admins : message[u] # 0 =>
            /\ sent'[Len(sent)].lot = sent[Len(sent)].lot
            /\ LotIn(sent', Len(sent) - 1) = LotIn(sent, Len(sent) - 1)
      BY <1>a, <1>b, <2>1, LotStays, SentLength
    <2> QED BY <1>a, <2>1, <2>2, <2>3, <2>4, LastIsLotPrime
  <1> QED BY <1>1, <1>2, <1>3, <1>4, <1>5, <1>6, WhatStays

\* In order, no snapshot gives a space a code that was another's before it.
LEMMA LotsFollowStep ==
  ASSUME LotIInv, LotNext, InOrder'
  PROVE  LotsFollow'
  <1>1. \A i \in DOMAIN sent : Follows(LotIn(sent', i - 1), LotIn(sent', i))
    <2>1. \A i \in DOMAIN sent : Follows(LotIn(sent, i - 1), LotIn(sent, i))
      BY InOrderOpens, SlipsGrow, LotAtIn DEF LotsFollow
    <2> QED BY <2>1, LotStays, SentLength
  <1>2. ASSUME NEW t \in Admins, Publish(t)
        PROVE  Follows(LotIn(sent', Len(sent)), LotIn(sent', Len(sent) + 1))
    <2>1. lot = LotIn(sent', Len(sent))
      BY <1>2, InOrderAlone, InOrderOpens, SlipsGrow, LastIsLotOpens, LotStays, SentLength
    <2>2. Follows(lot, After(change[t], lot))
      BY <1>2, LotPublished, AfterSound
    <2> QED BY <1>2, <2>1, <2>2, LotPublished
  <1>3. \A i \in DOMAIN sent' : Follows(LotIn(sent', i - 1), LotIn(sent', i))
    <2>1. CASE DOMAIN sent' = DOMAIN sent
      BY <1>1, <2>1
    <2>2. ASSUME NEW t \in Admins, Publish(t)
          PROVE  \A i \in DOMAIN sent' : Follows(LotIn(sent', i - 1), LotIn(sent', i))
      <3>1. DOMAIN sent' = DOMAIN sent \cup {Len(sent) + 1}
        BY <2>2, LotPublished
      <3>2. (Len(sent) + 1) - 1 = Len(sent)
        BY SentLength
      <3> QED BY <1>1, <1>2, <2>2, <3>1, <3>2
    <2> QED BY <2>1, <2>2, SentStays, SentLength
  <1> QED BY <1>3 DEF LotsFollow, LotAt, LotIn

\* Which snapshots are acknowledged.
LEMMA AckedStays ==
  ASSUME LotIInv, LotNext
  PROVE  \/ /\ Ack /\ snapshot \in DOMAIN sent /\ sent[snapshot].status = "PENDING"
            /\ snapshot \notin listed
            /\ DOMAIN sent' = DOMAIN sent
            /\ \A i \in DOMAIN sent :
                 sent'[i].status = "ACKED" <=> i = snapshot \/ sent[i].status = "ACKED"
         \/ /\ ~ Ack
            /\ \A i \in DOMAIN sent :
                 sent'[i].status = "ACKED" <=> sent[i].status = "ACKED"
            /\ DOMAIN sent' \ DOMAIN sent # {} => EdgeStays
            /\ \A i \in DOMAIN sent' \ DOMAIN sent :
                 sent'[i].status = "open" /\ \A j \in DOMAIN sent : j < i
  <1>0. LotTypeOK /\ MessagesAreOpen /\ WorkIsPending
    BY SentLength
  <1>1. ASSUME Ack
        PROVE  /\ snapshot \in DOMAIN sent /\ sent[snapshot].status = "PENDING"
               /\ snapshot \notin listed
               /\ DOMAIN sent' = DOMAIN sent
               /\ \A i \in DOMAIN sent :
                    sent'[i].status = "ACKED" <=> i = snapshot \/ sent[i].status = "ACKED"
    BY <1>0, <1>1, Acknowledged DEF StatusSet
  <1>2. ASSUME NEW t \in Admins, Publish(t)
        PROVE  /\ \A i \in DOMAIN sent :
                    sent'[i].status = "ACKED" <=> sent[i].status = "ACKED"
               /\ EdgeStays
               /\ \A i \in DOMAIN sent' \ DOMAIN sent :
                    sent'[i].status = "open" /\ \A j \in DOMAIN sent : j < i
    BY <1>2, LotPublished DEF Publish, lotWorker, edgeLot, EdgeStays
  <1>3. ASSUME NEW t \in Admins, Commit(t)
        PROVE  /\ DOMAIN sent' = DOMAIN sent
               /\ \A i \in DOMAIN sent :
                    sent'[i].status = "ACKED" <=> sent[i].status = "ACKED"
    BY <1>0, <1>3, Committed DEF StatusSet
  <1>4. ASSUME NEW t \in Admins, MakeChange(t)  PROVE sent' = sent
    BY <1>4 DEF MakeChange
  <1>5. Recreated => sent' = sent
    BY DEF Recreated
  <1> QED BY <1>1, <1>2, <1>3, <1>4, <1>5, WhatStays

\* In order, snapshots are acknowledged one after the other.
LEMMA AckedInOrderStep ==
  ASSUME LotIInv, LotNext, InOrder'
  PROVE  AckedInOrder'
  <1>0. /\ AckedInOrder /\ RunInOrder
        /\ DOMAIN sent = 1..Len(sent) /\ Len(sent) \in Nat
    BY InOrderOpens, SlipsGrow, SentLength
  <1>1. CASE Ack
    <2>1. /\ snapshot \in DOMAIN sent
          /\ DOMAIN sent' = DOMAIN sent
          /\ \A i \in DOMAIN sent :
               sent'[i].status = "ACKED" <=> i = snapshot \/ sent[i].status = "ACKED"
      BY <1>1, AckedStays
    <2>2. \A j \in DOMAIN sent : j < snapshot => sent[j].status = "ACKED"
      BY <1>0 DEF RunInOrder
    <2>3. \A i, j \in DOMAIN sent :
            i < j /\ sent[j].status = "ACKED" => sent[i].status = "ACKED"
      BY <1>0 DEF AckedInOrder
    <2> QED BY <2>1, <2>2, <2>3 DEF AckedInOrder
  <1>2. CASE ~ Ack
    <2>1. /\ \A i \in DOMAIN sent :
               sent'[i].status = "ACKED" <=> sent[i].status = "ACKED"
          /\ \A i \in DOMAIN sent' \ DOMAIN sent :
               sent'[i].status = "open" /\ \A j \in DOMAIN sent : j < i
      BY <1>2, AckedStays
    <2> SUFFICES ASSUME NEW i \in DOMAIN sent', NEW j \in DOMAIN sent',
                        i < j, sent'[j].status = "ACKED"
                 PROVE  sent'[i].status = "ACKED"
      BY DEF AckedInOrder
    <2>2. j \in DOMAIN sent /\ sent[j].status = "ACKED"
      BY <2>1
    <2>3. i \in DOMAIN sent
      <3> SUFFICES ASSUME i \notin DOMAIN sent PROVE FALSE
        OBVIOUS
      <3>1. j < i
        BY <2>1, <2>2
      <3>2. i \in Nat /\ j \in Nat
        <4>1. LotTypeOK'
          BY LotTypeStep DEF LotIInv
        <4>2. sent' \in Seq(Snapshots)
          BY <4>1 DEF LotTypeOK
        <4> QED BY <4>2
      <3> QED BY <3>1, <3>2
    <2>4. sent[i].status = "ACKED"
      BY <1>0, <2>2, <2>3 DEF AckedInOrder
    <2> QED BY <2>1, <2>3, <2>4
  <1> QED BY <1>1, <1>2

\* In order, a run leaves nothing behind it that is not acknowledged.
LEMMA RunInOrderStep ==
  ASSUME LotIInv, LotNext, InOrder'
  PROVE  RunInOrder'
  <1>0. /\ MessagesAreOpen /\ WorkIsPending /\ LastIsLot
        /\ DOMAIN sent = 1..Len(sent) /\ Len(sent) \in Nat
        /\ \A j \in DOMAIN sent : j < snapshot => sent[j].status = "ACKED"
        /\ \A i \in listed, j \in DOMAIN sent :
             j < i => j \in listed \cup {snapshot} \/ sent[j].status = "ACKED"
        /\ \A i \in DOMAIN sent : sent[i].status \in {"open", "PENDING", "ACKED"}
    BY InOrderOpens, SlipsGrow, SentLength, SentFields DEF RunInOrder
  <1>a. /\ listed \subseteq DOMAIN sent
        /\ snapshot \in {0} \cup DOMAIN sent
        /\ applying \in {"idle", "apply"} => snapshot = 0
    <2>1. LotTypeOK
      BY SentLength
    <2> QED BY <1>0, <2>1 DEF WorkIsPending, Pending, LotTypeOK
  <1>b. \A i, j \in DOMAIN sent' : i \in DOMAIN sent /\ j < i => j \in DOMAIN sent
    <2>1. LotTypeOK'
      BY LotTypeStep DEF LotIInv
    <2>2. DOMAIN sent' = 1..Len(sent') /\ Len(sent') \in Nat
      BY <2>1 DEF LotTypeOK
    <2> QED BY <1>0, <2>2
  <1>c. DOMAIN sent' \subseteq Nat /\ DOMAIN sent \subseteq DOMAIN sent'
    <2>1. LotTypeOK'
      BY LotTypeStep DEF LotIInv
    <2>2. DOMAIN sent' \subseteq Nat
      BY <2>1 DEF LotTypeOK
    <2> QED BY <2>2, SentStays DEF LotIInv
  <1>1. ASSUME EdgeStays, ~ Ack  PROVE RunInOrder'
    <2>1. listed' = listed /\ snapshot' = snapshot
      BY <1>1 DEF EdgeStays
    <2>2. \A i \in DOMAIN sent : sent'[i].status = "ACKED" <=> sent[i].status = "ACKED"
      BY <1>1, AckedStays
    <2>3. \A j \in DOMAIN sent' : j < snapshot => sent'[j].status = "ACKED"
      <3> SUFFICES ASSUME NEW j \in DOMAIN sent', j < snapshot
                   PROVE  sent'[j].status = "ACKED"
        OBVIOUS
      <3>1. snapshot \in DOMAIN sent
        BY <1>a, <1>c
      <3>2. j \in DOMAIN sent
        BY <1>b, <1>c, <3>1
      <3> QED BY <1>0, <2>2, <3>2
    <2>4. \A i \in listed, j \in DOMAIN sent' :
            j < i => j \in listed \cup {snapshot} \/ sent'[j].status = "ACKED"
      <3> SUFFICES ASSUME NEW i \in listed, NEW j \in DOMAIN sent', j < i
                   PROVE  j \in listed \cup {snapshot} \/ sent'[j].status = "ACKED"
        OBVIOUS
      <3>1. j \in DOMAIN sent
        BY <1>a, <1>b, <1>c
      <3> QED BY <1>0, <2>2, <3>1
    <2> QED BY <2>1, <2>3, <2>4 DEF RunInOrder
  <1>2. ASSUME Ack  PROVE RunInOrder'
    <2>1. /\ DOMAIN sent' = DOMAIN sent
          /\ \A i \in DOMAIN sent :
               sent'[i].status = "ACKED" <=> i = snapshot \/ sent[i].status = "ACKED"
      BY <1>2, AckedStays
    <2>2. listed' = listed /\ snapshot' = 0
      BY <1>2 DEF Ack
    <2>3. \A j \in DOMAIN sent : ~ (j < 0)
      BY <1>0
    <2> QED BY <1>0, <2>1, <2>2, <2>3 DEF RunInOrder
  <1>3. ASSUME sent' = sent, StartLotRun  PROVE RunInOrder'
    <2>1. listed' = Pending /\ snapshot' = 0
      BY <1>3, <1>a DEF StartLotRun
    <2>2. ASSUME NEW i \in Pending, NEW j \in DOMAIN sent, j < i
          PROVE  j \in Pending \/ sent[j].status = "ACKED"
      <3> SUFFICES ASSUME sent[j].status = "open" PROVE FALSE
        BY <1>0 DEF Pending
      <3>1. PICK t \in Admins : message[t] = j
        BY <1>0 DEF MessagesAreOpen
      <3>2. j = Len(sent)
        BY <1>0, <3>1 DEF LastIsLot
      <3>3. i \in DOMAIN sent
        BY DEF Pending
      <3> QED BY <1>0, <2>2, <3>2, <3>3
    <2>3. \A j \in DOMAIN sent : ~ (j < 0)
      BY <1>0
    <2> QED BY <1>3, <2>1, <2>2, <2>3 DEF RunInOrder
  <1>4. ASSUME sent' = sent, ApplyLot  PROVE RunInOrder'
    <2>1. PICK i \in Oldest(listed) : snapshot' = i /\ listed' = listed \ {i}
      BY <1>4 DEF ApplyLot
    <2>2. i \in listed /\ (\A j \in listed : i <= j) /\ snapshot = 0
      BY <1>4, <1>a DEF Oldest, ApplyLot
    <2>3. \A j \in DOMAIN sent : j < i => sent[j].status = "ACKED"
      BY <1>0, <1>a, <2>2
    <2>4. \A k \in listed \ {i}, j \in DOMAIN sent :
            j < k => j \in (listed \ {i}) \cup {i} \/ sent[j].status = "ACKED"
      BY <1>0, <1>a, <2>2
    <2> QED BY <1>4, <2>1, <2>3, <2>4 DEF RunInOrder
  <1>5. ASSUME sent' = sent, ApplySpaces  PROVE RunInOrder'
    <2>1. listed' = listed /\ snapshot' = snapshot
      BY <1>5 DEF ApplySpaces
    <2> QED BY <1>0, <1>5, <2>1 DEF RunInOrder
  <1>6. ASSUME sent' = sent, Refused \/ Fails  PROVE RunInOrder'
    <2>1. /\ snapshot' = 0 /\ listed' = listed
          /\ slips' = IF listed = {} THEN slips ELSE slips \cup {"passed"}
      BY <1>6 DEF Refused, Fails, GiveUp
    <2>2. listed = {}
      BY <2>1 DEF InOrder
    <2>3. \A j \in DOMAIN sent : ~ (j < 0)
      BY <1>0
    <2> QED BY <1>6, <2>1, <2>2, <2>3 DEF RunInOrder
  <1>7. ASSUME sent' = sent, EndLotRun  PROVE RunInOrder'
    <2>1. listed' = listed /\ snapshot' = snapshot
      BY <1>7 DEF EndLotRun
    <2> QED BY <1>0, <1>7, <2>1 DEF RunInOrder
  <1>8. ASSUME sent' = sent, LotEdgeRestart  PROVE RunInOrder'
    <2>1. listed' = {} /\ snapshot' = 0
      BY <1>8 DEF LotEdgeRestart
    <2>2. \A j \in DOMAIN sent : ~ (j < 0)
      BY <1>0
    <2> QED BY <1>8, <2>1, <2>2 DEF RunInOrder
  <1> QED BY <1>1, <1>2, <1>3, <1>4, <1>5, <1>6, <1>7, <1>8, WhatStays

\* The snapshot the worker has applied, and all are acknowledged but for it,
\* is the last.
LEMMA LastIsAcked ==
  ASSUME LotIInv, InOrder, LotNext, Ack, AllAcked'
  PROVE  snapshot = Len(sent) /\ Len(sent') = Len(sent)
  <1>1. /\ snapshot \in DOMAIN sent /\ sent[snapshot].status = "PENDING"
        /\ DOMAIN sent' = DOMAIN sent
        /\ \A i \in DOMAIN sent :
             sent'[i].status = "ACKED" <=> i = snapshot \/ sent[i].status = "ACKED"
    BY AckedStays
  <1>2. Len(sent) \in DOMAIN sent /\ snapshot <= Len(sent)
        /\ snapshot \in Nat /\ Len(sent) \in Nat
    BY <1>1, SentLength
  <1>3. \A i \in DOMAIN sent : i = snapshot \/ sent[i].status = "ACKED"
    BY <1>1 DEF AllAcked
  <1>4. snapshot = Len(sent)
    <2> SUFFICES ASSUME snapshot # Len(sent) PROVE FALSE
      OBVIOUS
    <2>1. sent[Len(sent)].status = "ACKED" /\ snapshot < Len(sent)
      BY <1>2, <1>3
    <2>2. sent[snapshot].status = "ACKED"
      BY <1>1, <1>2, <2>1, InOrderOpens DEF AckedInOrder
    <2> QED BY <1>1, <2>2
  <1>5. Len(sent') = Len(sent)
    BY Acknowledged, SentLength DEF StatusSet
  <1> QED BY <1>4, <1>5

\* The messages that were all acknowledged still are, and there is no new one.
LEMMA AllAckedStays ==
  ASSUME LotIInv, LotNext, ~ Ack, AllAcked'
  PROVE  AllAcked /\ Len(sent') = Len(sent) /\ sent' = sent
  <1>1. /\ \A i \in DOMAIN sent :
             sent'[i].status = "ACKED" <=> sent[i].status = "ACKED"
        /\ \A i \in DOMAIN sent' \ DOMAIN sent : sent'[i].status = "open"
    BY AckedStays
  <1>2. DOMAIN sent \subseteq DOMAIN sent'
    BY SentStays DEF LotIInv
  <1>3. AllAcked
    BY <1>1, <1>2 DEF AllAcked
  <1>4. ~ \E t \in Admins : Publish(t)
    <2> SUFFICES ASSUME NEW t \in Admins, Publish(t) PROVE FALSE
      OBVIOUS
    <2>1. /\ DOMAIN sent' = DOMAIN sent \cup {Len(sent) + 1}
          /\ sent'[Len(sent) + 1].status = "open"
      BY LotPublished
    <2> QED BY <2>1 DEF AllAcked
  <1>5. ~ \E t \in Admins : Commit(t)
    <2> SUFFICES ASSUME NEW t \in Admins, Commit(t) PROVE FALSE
      OBVIOUS
    <2>1. message[t] \in DOMAIN sent /\ sent[message[t]].status = "open"
      BY Committed, SentLength
    <2> QED BY <1>3, <2>1 DEF AllAcked
  <1>6. ASSUME NEW t \in Admins, MakeChange(t)  PROVE sent' = sent
    BY <1>6 DEF MakeChange
  <1>7. Recreated => sent' = sent
    BY DEF Recreated
  <1>8. sent' = sent
    BY <1>4, <1>5, <1>6, <1>7, WhatStays
  <1> QED BY <1>3, <1>8

\* RunsOn of a mode, rows, active rows and a sensor's row.
On(l, m, r, a, s) ==
  /\ m = l.mode
  /\ {r[q] : q \in a} \subseteq Held(l)
  /\ IF l.sensor = 0 THEN s = 0 ELSE s \in a

\* EdgeRunsOn, with the edge's variables as arguments.
LEMMA EdgeRunsOnOpens ==
  /\ EdgeRunsOn <=>
       /\ applying = "spaces" => edgeMode = sent[snapshot].lot.mode
       /\ applying = "ack" => On(sent[snapshot].lot, edgeMode, rows, active, edgeSensor)
       /\ AllAcked => On(LotIn(sent, Len(sent)), edgeMode, rows, active, edgeSensor)
  /\ EdgeRunsOn' <=>
       /\ applying' = "spaces" => edgeMode' = sent'[snapshot'].lot.mode
       /\ applying' = "ack" => On(sent'[snapshot'].lot, edgeMode', rows', active', edgeSensor')
       /\ AllAcked' => On(LotIn(sent', Len(sent')), edgeMode', rows', active', edgeSensor')
  BY DEF EdgeRunsOn, RunsOn, On, LotAt, LotIn

\* Where the worker is at a snapshot, it is not acknowledged.
LEMMA AtPending ==
  ASSUME LotIInv
  PROVE  /\ applying \in {"spaces", "ack"} =>
              /\ snapshot \in DOMAIN sent /\ sent[snapshot].status = "PENDING"
              /\ snapshot # 0 /\ ~ AllAcked
         /\ listed # {} => ~ AllAcked
         /\ \A i \in listed : i \in DOMAIN sent /\ sent[i].status = "PENDING" /\ i # 0
  <1>1. \A i \in Pending : i \in DOMAIN sent /\ sent[i].status = "PENDING" /\ i # 0
    BY SentLength DEF Pending
  <1>2. \A i \in Pending : ~ AllAcked
    BY <1>1 DEF AllAcked
  <1> QED BY <1>1, <1>2, SentLength DEF WorkIsPending

\* In order, the edge runs on what it is about to acknowledge.
LEMMA EdgeRunsOnStep ==
  ASSUME LotIInv, LotNext, InOrder'
  PROVE  EdgeRunsOn'
  <1>0. /\ LotTypeOK /\ MessagesAreOpen /\ WorkIsPending /\ LotsAreSound
    BY SentLength DEF LotIInv
  <1>a. /\ applying = "spaces" => edgeMode = sent[snapshot].lot.mode
        /\ applying = "ack" => On(sent[snapshot].lot, edgeMode, rows, active, edgeSensor)
        /\ AllAcked => On(LotIn(sent, Len(sent)), edgeMode, rows, active, edgeSensor)
    BY InOrderOpens, SlipsGrow, EdgeRunsOnOpens
  <1>1. ASSUME EdgeStays, ~ Ack  PROVE EdgeRunsOn'
    <2>1. \A i \in DOMAIN sent : sent'[i].lot = sent[i].lot
      BY <1>0, SentStays
    <2>2. UNCHANGED <<applying, snapshot, edgeMode, rows, active, edgeSensor>>
      BY <1>1 DEF EdgeStays
    <2>3. AllAcked' => On(LotIn(sent', Len(sent')), edgeMode', rows', active', edgeSensor')
      BY <1>1, <1>a, <2>2, AllAckedStays
    <2>4. applying \in {"spaces", "ack"} => snapshot \in DOMAIN sent
      BY AtPending
    <2> QED BY <1>a, <2>1, <2>2, <2>3, <2>4, EdgeRunsOnOpens
  <1>2. ASSUME Ack  PROVE EdgeRunsOn'
    <2>1. /\ applying = "ack" /\ applying' = "apply"
          /\ UNCHANGED <<edgeMode, rows, active, edgeSensor>>
      BY <1>2 DEF Ack, edgeLot
    <2>2. AllAcked' => On(LotIn(sent', Len(sent')), edgeMode, rows, active, edgeSensor)
      <3> SUFFICES ASSUME AllAcked'
                   PROVE  On(LotIn(sent', Len(sent')), edgeMode, rows, active, edgeSensor)
        OBVIOUS
      <3>1. snapshot = Len(sent) /\ Len(sent') = Len(sent)
        BY <1>2, LastIsAcked, SlipsGrow
      <3>2. LotIn(sent', Len(sent)) = LotIn(sent, Len(sent))
        BY LotStays, SentLength
      <3>3. LotIn(sent, Len(sent)) = sent[snapshot].lot
        BY <2>1, <3>1, AtPending DEF LotIn
      <3> QED BY <1>a, <2>1, <3>1, <3>2, <3>3
    <2> QED BY <2>1, <2>2, EdgeRunsOnOpens
  <1>3. ASSUME sent' = sent, ApplyLot  PROVE EdgeRunsOn'
    <2>1. PICK i \in Oldest(listed) : snapshot' = i /\ edgeMode' = sent[i].lot.mode
      BY <1>3 DEF ApplyLot
    <2>2. i \in listed /\ applying' = "spaces"
      BY <1>3 DEF Oldest, ApplyLot
    <2>3. ~ AllAcked'
      BY <1>3, <2>2, AtPending DEF AllAcked
    <2> QED BY <1>3, <2>1, <2>2, <2>3, EdgeRunsOnOpens
  <1>4. ASSUME sent' = sent, ApplySpaces  PROVE EdgeRunsOn'
    <2> DEFINE l == sent[snapshot].lot
    <2>1. /\ applying = "spaces" /\ applying' = "ack" /\ snapshot' = snapshot
          /\ edgeMode' = edgeMode
      BY <1>4 DEF ApplySpaces
    <2>2. PICK e \in Outcomes(l) :
            /\ rows' = e.rows
            /\ active' = {e.kept[s] : s \in Ids(l)}
            /\ edgeSensor' = IF l.sensor = 0 THEN 0 ELSE e.kept[l.sensor]
      BY <1>4 DEF ApplySpaces
    <2>3. snapshot \in DOMAIN sent /\ ~ AllAcked
      BY <2>1, AtPending
    <2>4. l \in Lot /\ l.sensor \in {0} \cup Ids(l) /\ edgeMode = l.mode
      BY <1>0, <1>a, <2>1, <2>3, SentFields, SentLength DEF LotsAreSound, Sound
    <2>5. rows \in EdgeRows
      BY <1>0 DEF LotTypeOK, EdgeRows
    <2>6. l = sent'[snapshot'].lot
      BY <1>4, <2>1
    <2> HIDE DEF l
    <2>7. \A s \in Ids(l) : e.kept[s] \in Spaces /\ e.rows[e.kept[s]] \in Held(l)
      BY <2>2, <2>4, <2>5, OutcomesSave
    <2>8. On(l, edgeMode', rows', active', edgeSensor')
      BY <2>1, <2>2, <2>4, <2>7 DEF On
    <2>9. ~ AllAcked'
      BY <1>4, <2>3 DEF AllAcked
    <2> QED BY <2>1, <2>6, <2>8, <2>9, EdgeRunsOnOpens
  <1>5. ASSUME sent' = sent, \/ StartLotRun \/ Refused \/ Fails \/ EndLotRun
                             \/ LotEdgeRestart
        PROVE  EdgeRunsOn'
    <2>1. applying' \in {"apply", "idle"} /\ UNCHANGED <<edgeMode, rows, active, edgeSensor>>
      BY <1>5 DEF StartLotRun, Refused, Fails, GiveUp, EndLotRun, LotEdgeRestart, edgeLot
    <2>2. AllAcked' = AllAcked
      BY <1>5 DEF AllAcked
    <2> QED BY <1>5, <1>a, <2>1, <2>2, EdgeRunsOnOpens
  <1>6. EdgeStays => ~ Ack
    BY DEF EdgeStays, Ack
  <1> QED BY <1>1, <1>2, <1>3, <1>4, <1>5, <1>6, WhatStays

\* Every step keeps what holds in order.
LEMMA ChannelInOrderStep ==
  ASSUME LotIInv, LotNext
  PROVE  ChannelInOrder'
  BY LastIsLotStep, LotsFollowStep, AckedInOrderStep, RunInOrderStep, EdgeRunsOnStep
     DEF ChannelInOrder

---------------------------------------------------------------------------
(* What holds while nothing has parted the two sides.                      *)

\* Gone of a sequence of snapshots.
GoneIn(q, i) ==
  {LotIn(q, i - 1).codes[s] : s \in Ids(LotIn(q, i - 1)) \ Ids(LotIn(q, i))}

\* Gone reads the snapshots.
LEMMA GoneAtIn ==
  /\ \A i : Gone(i) = GoneIn(sent, i)
  /\ \A i : Gone(i)' = GoneIn(sent', i)
  BY DEF Gone, GoneIn, LotAt, LotIn

\* What a change removed stays what it removed.
LEMMA GoneStays ==
  ASSUME LotIInv, LotNext
  PROVE  \A i \in DOMAIN sent : GoneIn(sent', i) = GoneIn(sent, i)
  BY LotStays, SentLength DEF GoneIn

\* What the invariant says while nothing has parted the two sides.
LEMMA NothingParted ==
  ASSUME LotIInv, LotNext, slips' = {}
  PROVE  slips = {} /\ InOrder /\ InOrder' /\ GoneStaysGone /\ EdgeHasSpaces
  BY SlipsGrow DEF LotIInv, SpacesInOrder, InOrder

\* GoneStaysGone, with the snapshots as an argument.
LEMMA GoneStaysGoneOpens ==
  /\ GoneStaysGone <=>
       /\ retired \cap Held(lot) = {}
       /\ \A t \in Open : change[t].kind \in {"add", "rename"} => change[t].code \notin retired
       /\ \A i \in DOMAIN sent : sent[i].status # "open" => GoneIn(sent, i) \subseteq retired
       /\ \A i, j \in DOMAIN sent : i <= j => GoneIn(sent, i) \cap Held(LotIn(sent, j)) = {}
  /\ GoneStaysGone' <=>
       /\ retired' \cap Held(lot') = {}
       /\ \A t \in Open' :
            change'[t].kind \in {"add", "rename"} => change'[t].code \notin retired'
       /\ \A i \in DOMAIN sent' :
            sent'[i].status # "open" => GoneIn(sent', i) \subseteq retired'
       /\ \A i, j \in DOMAIN sent' :
            i <= j => GoneIn(sent', i) \cap Held(LotIn(sent', j)) = {}
  BY DEF GoneStaysGone, Gone, GoneIn, LotAt, LotIn

\* The codes of removed spaces are never given again.
LEMMA GoneStaysGoneStep ==
  ASSUME LotIInv, LotNext, slips' = {}
  PROVE  GoneStaysGone'
  <1>0. /\ LotTypeOK /\ MessagesAreOpen /\ WorkIsPending /\ ChangesHold /\ Sound(lot)
        /\ lot \in Lot
    BY SentLength DEF LotIInv, LotsAreSound, LotTypeOK
  <1>a. /\ retired \cap Held(lot) = {}
        /\ \A t \in Open : change[t].kind \in {"add", "rename"} => change[t].code \notin retired
        /\ \A i \in DOMAIN sent : sent[i].status # "open" => GoneIn(sent, i) \subseteq retired
        /\ \A i, j \in DOMAIN sent : i <= j => GoneIn(sent, i) \cap Held(LotIn(sent, j)) = {}
    BY NothingParted, GoneStaysGoneOpens
  <1>b. \A i, j \in DOMAIN sent : i <= j => GoneIn(sent', i) \cap Held(LotIn(sent', j)) = {}
    BY <1>a, GoneStays, LotStays, SentLength
  <1>c. ASSUME sent' = sent, lot' = lot, retired' = retired, change' = change
        PROVE  GoneStaysGone'
    BY <1>c, <1>a, GoneStaysGoneOpens DEF Open
  <1>1. ASSUME NEW t \in Admins, MakeChange(t)  PROVE GoneStaysGone'
    <2>1. PICK c \in Possible(lot) :
            /\ \A u \in Admins : change'[u] = IF u = t THEN c ELSE change[u]
            /\ slips' = IF c.kind \in {"add", "rename"} /\ c.code \in retired
                        THEN slips \cup {"reused"} ELSE slips
      BY <1>0, <1>1, ChangeMade
    <2>2. c.kind \in {"add", "rename"} => c.code \notin retired
      BY <2>1
    <2>3. sent' = sent /\ lot' = lot /\ retired' = retired
      BY <1>1 DEF MakeChange
    <2>4. \A u \in Open' : \/ change'[u] = c
                           \/ u \in Open /\ change'[u] = change[u]
      BY <2>1 DEF Open
    <2> QED BY <1>a, <2>2, <2>3, <2>4, GoneStaysGoneOpens
  <1>2. ASSUME NEW t \in Admins, Publish(t)  PROVE GoneStaysGone'
    <2> DEFINE n == Len(sent) + 1
    <2>1. /\ DOMAIN sent' = DOMAIN sent \cup {n}
          /\ LotIn(sent', n) = After(change[t], lot)
          /\ sent'[n].status = "open"
          /\ \A i \in DOMAIN sent : sent'[i] = sent[i] /\ i < n
          /\ change' = change /\ lot' = lot /\ retired' = retired
          /\ t \in Open /\ Founded(change[t], lot)
      BY <1>2, LotPublished
    <2>2. \A u \in Admins : message[u] = 0
      BY <1>2, InOrderAlone, NothingParted
    <2>3. lot = LotIn(sent', Len(sent))
      BY <2>2, NothingParted, InOrderOpens, LastIsLotOpens, LotStays, SentLength
    <2>4. \A i \in DOMAIN sent : GoneIn(sent', i) \subseteq retired
      <3>1. \A i \in DOMAIN sent : sent[i].status # "open"
        BY <1>0, <2>2, SentLength DEF MessagesAreOpen
      <3> QED BY <1>a, <3>1, GoneStays
    <2>5. retired \cap Held(After(change[t], lot)) = {}
      <3>1. Held(After(change[t], lot)) \subseteq Held(lot) \cup Given(change[t])
        BY <1>0, <2>1, AfterSpaces
      <3>2. Given(change[t]) \cap retired = {}
        BY <1>a, <2>1 DEF Given
      <3> QED BY <1>a, <3>1, <3>2
    <2>6. GoneIn(sent', n) \cap Held(LotIn(sent', n)) = {}
      <3>1. n - 1 = Len(sent)
        BY SentLength
      <3>2. GoneIn(sent', n) =
              {lot.codes[s] : s \in Ids(lot) \ Ids(After(change[t], lot))}
        BY <2>1, <2>3, <3>1 DEF GoneIn
      <3> HIDE DEF n
      <3> QED BY <1>0, <2>1, <3>2, AfterSound
    <2>7. \A i \in DOMAIN sent' :
            sent'[i].status # "open" => GoneIn(sent', i) \subseteq retired'
      BY <2>1, <2>4
    <2>8. \A i, j \in DOMAIN sent' :
            i <= j => GoneIn(sent', i) \cap Held(LotIn(sent', j)) = {}
      <3> SUFFICES ASSUME NEW i \in DOMAIN sent', NEW j \in DOMAIN sent', i <= j
                   PROVE  GoneIn(sent', i) \cap Held(LotIn(sent', j)) = {}
        OBVIOUS
      <3>1. CASE j \in DOMAIN sent
        <4>1. i # n
          BY <2>1, <3>1, SentLength
        <4> HIDE DEF n
        <4> QED BY <1>b, <2>1, <3>1, <4>1
      <3>2. CASE j = n
        <4> HIDE DEF n
        <4> QED BY <2>1, <2>4, <2>5, <2>6, <3>2
      <3> QED BY <2>1, <3>1, <3>2
    <2> HIDE DEF n
    <2> QED BY <1>a, <2>1, <2>7, <2>8, GoneStaysGoneOpens DEF Open
  <1>3. ASSUME NEW t \in Admins, Commit(t)  PROVE GoneStaysGone'
    <2> DEFINE n == message[t]
               c == change[t]
    <2>1. /\ StatusSet(sent', n, "PENDING")
          /\ n \in DOMAIN sent /\ t \in Open /\ n # 0
          /\ \A u \in Admins : change'[u] = IF u = t THEN Nothing ELSE change[u]
      BY <1>0, <1>3, Committed DEF Commit
    <2>2. /\ DOMAIN sent' = DOMAIN sent
          /\ \A i \in DOMAIN sent : i # n => sent'[i].status = sent[i].status
      BY <2>1 DEF StatusSet
    <2>3. /\ lot' = After(c, lot)
          /\ retired' = IF c.kind = "remove" THEN retired \cup {lot.codes[c.space]} ELSE retired
      BY <1>3 DEF Commit, CodeOf
    <2>4. Founded(c, lot)
      BY <1>0, <2>1, OpenFounded
    <2>5. /\ Held(lot') \subseteq Held(lot) \cup Given(c)
          /\ {lot.codes[s] : s \in Ids(lot) \ Ids(lot')} \cap Held(lot') = {}
          /\ Ids(lot) \ Ids(lot') = Dropped(c)
      BY <1>0, <2>3, <2>4, AfterSpaces, AfterSound
    <2>6. retired' = retired \cup {lot.codes[s] : s \in Ids(lot) \ Ids(lot')}
      BY <2>3, <2>5 DEF Dropped
    <2>7. GoneIn(sent', n) = {lot.codes[s] : s \in Ids(lot) \ Ids(lot')}
      <3>1. /\ n = Len(sent) /\ lot = LotIn(sent, Len(sent) - 1)
            /\ sent[Len(sent)].lot = After(c, lot)
        BY <2>1, NothingParted, InOrderOpens, LastIsLotOpens
      <3>2. lot' = LotIn(sent, n)
        BY <2>1, <2>3, <3>1 DEF LotIn
      <3>3. GoneIn(sent, n) = {lot.codes[s] : s \in Ids(lot) \ Ids(lot')}
        BY <3>1, <3>2 DEF GoneIn
      <3> QED BY <2>1, <3>3, GoneStays
    <2>8. retired' \cap Held(lot') = {}
      <3>1. Given(c) \cap retired = {}
        BY <1>a, <2>1 DEF Given
      <3> QED BY <1>a, <2>5, <2>6, <3>1
    <2>9. \A u \in Open' :
            change'[u].kind \in {"add", "rename"} => change'[u].code \notin retired'
      <3> SUFFICES ASSUME NEW u \in Open', change'[u].kind \in {"add", "rename"}
                   PROVE  change'[u].code \notin retired'
        OBVIOUS
      <3>1. u \in Open /\ change'[u] = change[u]
        BY <2>1 DEF Open
      <3>2. change[u].code \notin Held(lot) /\ change[u].code \notin retired
        BY <1>0, <1>a, <3>1 DEF ChangesHold
      <3>3. \A s \in Ids(lot) : lot.codes[s] \in Held(lot)
        BY DEF Held
      <3> QED BY <2>6, <3>1, <3>2, <3>3
    <2>10. \A i \in DOMAIN sent' :
             sent'[i].status # "open" => GoneIn(sent', i) \subseteq retired'
      <3> HIDE DEF n
      <3> SUFFICES ASSUME NEW i \in DOMAIN sent, sent'[i].status # "open"
                   PROVE  GoneIn(sent', i) \subseteq retired'
        BY <2>2
      <3>1. CASE i = n
        BY <2>6, <2>7, <3>1
      <3>2. CASE i # n
        <4>1. GoneIn(sent, i) \subseteq retired
          BY <1>a, <2>2, <3>2
        <4> QED BY <2>6, <4>1, GoneStays
      <3> QED BY <3>1, <3>2
    <2> QED BY <1>b, <2>2, <2>8, <2>9, <2>10, GoneStaysGoneOpens
  <1>4. ASSUME Recreated  PROVE FALSE
    BY <1>4 DEF Recreated
  <1>5. ASSUME Ack  PROVE GoneStaysGone'
    <2>1. /\ DOMAIN sent' = DOMAIN sent
          /\ \A i \in DOMAIN sent : sent'[i].status # "open" => sent[i].status # "open"
      BY <1>0, <1>5, Acknowledged DEF StatusSet
    <2>2. lot' = lot /\ retired' = retired /\ change' = change
      BY <1>5 DEF Ack, lotHistory
    <2> QED BY <1>a, <1>b, <2>1, <2>2, GoneStays, GoneStaysGoneOpens DEF Open
  <1>6. ASSUME CloudStays, sent' = sent  PROVE GoneStaysGone'
    BY <1>6, <1>c DEF CloudStays
  <1> QED BY <1>1, <1>2, <1>3, <1>4, <1>5, <1>6, WhatStays

\* RowsOf and SameSpaces of snapshots, rows, active rows and a sensor's row.
RowsIn(q, r, k) ==
  \A s \in Spaces :
    IF s \in Ids(LotIn(q, k)) THEN r[s] = LotIn(q, k).codes[s]
    ELSE r[s] = Nothing \/ \E i \in 1..k : r[s] \in GoneIn(q, i)

Same(l, r, a, s) == a = Ids(l) /\ (\A q \in a : r[q] = l.codes[q]) /\ s = l.sensor

\* The snapshots before k are acknowledged and those after it are not.
UpTo(q, k) ==
  \A j \in DOMAIN q : /\ j < k => q[j].status = "ACKED"
                      /\ j > k => q[j].status # "ACKED"

\* EdgeHasSpaces, with the edge's variables as arguments.
LEMMA EdgeHasSpacesOpens ==
  /\ EdgeHasSpaces <=>
       /\ \E k \in 0..Len(sent) : RowsIn(sent, rows, k) /\ UpTo(sent, k)
       /\ applying = "ack" => /\ RowsIn(sent, rows, snapshot)
                              /\ Same(sent[snapshot].lot, rows, active, edgeSensor)
       /\ AllAcked => Same(LotIn(sent, Len(sent)), rows, active, edgeSensor)
  /\ EdgeHasSpaces' <=>
       /\ \E k \in 0..Len(sent') : RowsIn(sent', rows', k) /\ UpTo(sent', k)
       /\ applying' = "ack" => /\ RowsIn(sent', rows', snapshot')
                               /\ Same(sent'[snapshot'].lot, rows', active', edgeSensor')
       /\ AllAcked' => Same(LotIn(sent', Len(sent')), rows', active', edgeSensor')
  <1>1. /\ \A k : RowsOf(k) <=> RowsIn(sent, rows, k)
        /\ \A k : RowsOf(k)' <=> RowsIn(sent', rows', k)
        /\ RowsOf(snapshot)' <=> RowsIn(sent', rows', snapshot')
    BY DEF RowsOf, RowsIn, Gone, GoneIn, LotAt, LotIn
  <1>2. /\ SameSpaces(sent[snapshot].lot)
             <=> Same(sent[snapshot].lot, rows, active, edgeSensor)
        /\ SameSpaces(sent[snapshot].lot)'
             <=> Same(sent'[snapshot'].lot, rows', active', edgeSensor')
    BY DEF SameSpaces, Same, CodeOf
  <1>3. /\ SameSpaces(LotAt(Len(sent)))
             <=> Same(LotIn(sent, Len(sent)), rows, active, edgeSensor)
        /\ SameSpaces(LotAt(Len(sent)))'
             <=> Same(LotIn(sent', Len(sent')), rows', active', edgeSensor')
    BY DEF SameSpaces, Same, CodeOf, LotAt, LotIn
  <1>4. \A k : AckedUpTo(k) <=> UpTo(sent, k)
    BY DEF AckedUpTo, UpTo
  <1>5. \A k : AckedUpTo(k)' <=> UpTo(sent', k)
    BY DEF AckedUpTo, UpTo
  <1>6. EdgeHasSpaces <=>
          /\ \E k \in 0..Len(sent) : RowsIn(sent, rows, k) /\ UpTo(sent, k)
          /\ applying = "ack" => /\ RowsIn(sent, rows, snapshot)
                                 /\ Same(sent[snapshot].lot, rows, active, edgeSensor)
          /\ AllAcked => Same(LotIn(sent, Len(sent)), rows, active, edgeSensor)
    BY <1>1, <1>2, <1>3, <1>4 DEF EdgeHasSpaces
  <1>7. EdgeHasSpaces' <=>
          /\ \E k \in 0..Len(sent') : RowsIn(sent', rows', k) /\ UpTo(sent', k)
          /\ applying' = "ack" => /\ RowsIn(sent', rows', snapshot')
                                  /\ Same(sent'[snapshot'].lot, rows', active', edgeSensor')
          /\ AllAcked' => Same(LotIn(sent', Len(sent')), rows', active', edgeSensor')
    BY <1>1, <1>2, <1>3, <1>5 DEF EdgeHasSpaces
  <1> QED BY <1>6, <1>7

\* Which rows are a snapshot's does not depend on what is written after it.
LEMMA EdgeRowsStay ==
  ASSUME LotIInv, LotNext
  PROVE  \A r, k : k \in 0..Len(sent) => (RowsIn(sent', r, k) <=> RowsIn(sent, r, k))
  <1>1. \A k \in 0..Len(sent) : \A i \in 1..k : i \in DOMAIN sent
    BY SentLength
  <1> QED BY <1>1, LotStays, GoneStays DEF RowsIn

\* Over the rows of the lot before, or its own, a snapshot's spaces are saved
\* in the rows of their ids, and the rows are then the snapshot's.
LEMMA SpacesApplied ==
  ASSUME LotIInv, slips = {}, applying = "spaces",
         NEW e \in Outcomes(sent[snapshot].lot)
  PROVE  /\ RowsIn(sent, e.rows, snapshot)
         /\ \A s \in Ids(sent[snapshot].lot) : /\ e.rows[s] = sent[snapshot].lot.codes[s]
                                               /\ e.kept[s] = s
  <1> DEFINE l == sent[snapshot].lot
  <1>0. /\ LotTypeOK /\ LotsAreSound /\ GoneStaysGone /\ EdgeHasSpaces
        /\ LotsFollow /\ RunInOrder
    BY InOrderOpens, SentLength DEF LotIInv, SpacesInOrder, InOrder
  <1>1. /\ snapshot \in DOMAIN sent /\ sent[snapshot].status = "PENDING"
        /\ DOMAIN sent = 1..Len(sent) /\ Len(sent) \in Nat /\ snapshot \in Nat
    BY AtPending, SentLength
  <1>2. l \in Lot /\ Follows(l, l) /\ l = LotIn(sent, snapshot)
    <2>1. l \in Lot
      BY <1>1, SentFields, SentLength
    <2>2. Follows(l, l)
      BY <1>0, <1>1 DEF LotsAreSound, Sound
    <2>3. snapshot # 0
      BY <1>1
    <2> QED BY <2>1, <2>2, <2>3 DEF LotIn
  <1>3. rows \in EdgeRows
    BY <1>0 DEF LotTypeOK, EdgeRows
  <1>4. PICK k \in 0..Len(sent) : RowsIn(sent, rows, k) /\ UpTo(sent, k)
    BY <1>0, EdgeHasSpacesOpens
  <1>5. k = snapshot \/ k = snapshot - 1
    <2>1. \A j \in DOMAIN sent : j < snapshot => sent[j].status = "ACKED"
      BY <1>0 DEF RunInOrder
    <2>2. ~ (snapshot < k)
      BY <1>1, <1>4 DEF UpTo
    <2>3. ~ (k < snapshot - 1)
      <3> SUFFICES ASSUME k < snapshot - 1 PROVE FALSE
        OBVIOUS
      <3>1. k + 1 \in DOMAIN sent /\ k + 1 < snapshot /\ k + 1 > k
        BY <1>1
      <3> QED BY <1>4, <2>1, <3>1 DEF UpTo
    <2> QED BY <1>1, <2>2, <2>3
  <1>6. \A i \in 1..k : i \in DOMAIN sent /\ i <= snapshot /\ i \in 1..snapshot
    BY <1>1, <1>5
  <1>7. Follows(LotIn(sent, k), l)
    <2>1. CASE k = snapshot
      BY <1>2, <2>1
    <2>2. CASE k = snapshot - 1
      <3>1. Follows(LotAt(snapshot - 1), LotAt(snapshot))
        BY <1>0, <1>1 DEF LotsFollow
      <3> QED BY <1>2, <2>2, <3>1, LotAtIn
    <2> QED BY <1>5, <2>1, <2>2
  <1>8. \A i \in 1..k : GoneIn(sent, i) \cap Held(l) = {}
    BY <1>0, <1>1, <1>2, <1>6, GoneStaysGoneOpens
  <1> HIDE DEF l
  <1>9. \A s \in Ids(l), r \in Spaces : r # s => rows[r] # l.codes[s]
    <2> SUFFICES ASSUME NEW s \in Ids(l), NEW r \in Spaces, r # s
                 PROVE  rows[r] # l.codes[s]
      OBVIOUS
    <2>1. l.codes[s] \in Held(l) /\ l.codes[s] # Nothing
      BY DEF Held, Ids
    <2>2. CASE r \in Ids(LotIn(sent, k))
      <3>1. rows[r] = LotIn(sent, k).codes[r]
        BY <1>4, <2>2 DEF RowsIn
      <3> QED BY <1>7, <2>2, <3>1 DEF Follows
    <2>3. CASE r \notin Ids(LotIn(sent, k))
      <3>1. rows[r] = Nothing \/ \E i \in 1..k : rows[r] \in GoneIn(sent, i)
        BY <1>4, <2>3 DEF RowsIn
      <3> QED BY <1>8, <2>1, <3>1
    <2> QED BY <2>2, <2>3
  <1>10. /\ e.rows = [r \in Spaces |-> IF r \in Ids(l) THEN l.codes[r] ELSE rows[r]]
         /\ \A s \in Ids(l) : e.kept[s] = s
    <2>1. e \in Outcomes(l)
      BY DEF l
    <2> QED BY <1>2, <1>3, <1>9, <2>1, OutcomesOverwrite
  <1>11. \A s \in Spaces \ Ids(l) :
           e.rows[s] = Nothing \/ \E i \in 1..snapshot : e.rows[s] \in GoneIn(sent, i)
    <2> SUFFICES ASSUME NEW s \in Spaces \ Ids(l)
                 PROVE  e.rows[s] = Nothing \/ \E i \in 1..snapshot : e.rows[s] \in GoneIn(sent, i)
      OBVIOUS
    <2>1. e.rows[s] = rows[s]
      BY <1>10
    <2>2. CASE s \in Ids(LotIn(sent, k))
      <3>1. k = snapshot - 1
        BY <1>2, <1>5, <2>2
      <3>2. rows[s] = LotIn(sent, snapshot - 1).codes[s]
        BY <1>4, <2>2, <3>1 DEF RowsIn
      <3>3. rows[s] \in GoneIn(sent, snapshot)
        BY <1>2, <2>2, <3>1, <3>2 DEF GoneIn
      <3>4. snapshot \in 1..snapshot
        BY <1>1
      <3> QED BY <2>1, <3>3, <3>4
    <2>3. CASE s \notin Ids(LotIn(sent, k))
      BY <1>4, <1>6, <2>1, <2>3 DEF RowsIn
    <2> QED BY <2>2, <2>3
  <1>12. \A s \in Ids(l) : s \in Spaces /\ e.rows[s] = l.codes[s]
    BY <1>10 DEF Ids
  <1>13. RowsIn(sent, e.rows, snapshot)
    BY <1>2, <1>11, <1>12 DEF RowsIn
  <1> QED BY <1>10, <1>12, <1>13 DEF l

\* The edge's rows stay those of the last snapshot, or the next.
LEMMA EdgeHasSpacesStep ==
  ASSUME LotIInv, LotNext, slips' = {}
  PROVE  EdgeHasSpaces'
  <1>0. /\ LotTypeOK /\ MessagesAreOpen /\ WorkIsPending /\ LotsAreSound
        /\ AckedInOrder /\ RunInOrder /\ slips = {} /\ InOrder /\ InOrder'
    BY NothingParted, InOrderOpens, SentLength DEF LotIInv
  <1>a. /\ \E k \in 0..Len(sent) : RowsIn(sent, rows, k) /\ UpTo(sent, k)
        /\ applying = "ack" => /\ RowsIn(sent, rows, snapshot)
                               /\ Same(sent[snapshot].lot, rows, active, edgeSensor)
        /\ AllAcked => Same(LotIn(sent, Len(sent)), rows, active, edgeSensor)
    BY NothingParted, EdgeHasSpacesOpens
  <1>b. DOMAIN sent = 1..Len(sent) /\ Len(sent) \in Nat /\ DOMAIN sent \subseteq DOMAIN sent'
    BY <1>0, SentStays
  <1>c. Len(sent') \in Nat /\ 0..Len(sent) \subseteq 0..Len(sent')
    <2>1. LotTypeOK'
      BY LotTypeStep DEF LotIInv
    <2>2. Len(sent') \in Nat /\ DOMAIN sent' = 1..Len(sent')
      BY <2>1 DEF LotTypeOK
    <2>3. Len(sent) = Len(sent') \/ \E t \in Admins : Publish(t)
      BY <1>0, SentStays
    <2>4. Len(sent') = Len(sent) \/ Len(sent') = Len(sent) + 1
      BY <2>3, LotPublished
    <2>5. 0..Len(sent) \subseteq 0..Len(sent) + 1
      BY <1>b
    <2> QED BY <2>2, <2>4, <2>5
  <1>1. ASSUME EdgeStays, ~ Ack  PROVE EdgeHasSpaces'
    <2>1. UNCHANGED <<applying, snapshot, rows, active, edgeSensor>>
      BY <1>1 DEF EdgeStays
    <2>2. PICK k \in 0..Len(sent) : RowsIn(sent, rows, k) /\ UpTo(sent, k)
      BY <1>a
    <2>3. UpTo(sent', k)
      <3>1. /\ \A i \in DOMAIN sent : sent'[i].status = "ACKED" <=> sent[i].status = "ACKED"
            /\ \A i \in DOMAIN sent' \ DOMAIN sent :
                 sent'[i].status = "open" /\ \A j \in DOMAIN sent : j < i
        BY <1>1, AckedStays
      <3>2. \A i \in DOMAIN sent' \ DOMAIN sent : ~ (i < k)
        <4> SUFFICES ASSUME NEW i \in DOMAIN sent' \ DOMAIN sent, i < k PROVE FALSE
          OBVIOUS
        <4>1. k \in DOMAIN sent \/ k = 0
          BY <1>b
        <4>2. i \in Nat
          <5>1. LotTypeOK'
            BY LotTypeStep DEF LotIInv
          <5> QED BY <5>1 DEF LotTypeOK
        <4> QED BY <1>b, <3>1, <4>1, <4>2
      <3> QED BY <2>2, <3>1, <3>2 DEF UpTo
    <2>4. RowsIn(sent', rows', k) /\ k \in 0..Len(sent')
      BY <1>c, <2>1, <2>2, EdgeRowsStay
    <2>5. applying = "ack" =>
            /\ RowsIn(sent', rows, snapshot)
            /\ Same(sent'[snapshot].lot, rows, active, edgeSensor)
      <3>1. \A i \in DOMAIN sent : sent'[i].lot = sent[i].lot
        BY <1>0, SentStays
      <3>2. applying = "ack" => snapshot \in DOMAIN sent /\ snapshot \in 0..Len(sent)
        BY AtPending, SentLength
      <3> QED BY <1>a, <3>1, <3>2, EdgeRowsStay
    <2>6. AllAcked' => Same(LotIn(sent', Len(sent')), rows', active', edgeSensor')
      BY <1>1, <1>a, <2>1, AllAckedStays
    <2> QED BY <2>1, <2>3, <2>4, <2>5, <2>6, EdgeHasSpacesOpens
  <1>2. ASSUME Ack  PROVE EdgeHasSpaces'
    <2>1. /\ applying = "ack" /\ applying' = "apply"
          /\ UNCHANGED <<rows, active, edgeSensor>>
      BY <1>2 DEF Ack, edgeLot
    <2>2. /\ snapshot \in DOMAIN sent /\ sent[snapshot].status = "PENDING"
          /\ DOMAIN sent' = DOMAIN sent
          /\ \A i \in DOMAIN sent :
               sent'[i].status = "ACKED" <=> i = snapshot \/ sent[i].status = "ACKED"
      BY <1>2, AckedStays
    <2>3. snapshot \in 0..Len(sent)
      BY <2>2, SentLength
    <2>4. RowsIn(sent', rows', snapshot)
      BY <1>a, <2>1, <2>3, EdgeRowsStay
    <2>5. UpTo(sent', snapshot)
      <3>1. \A j \in DOMAIN sent : j < snapshot => sent[j].status = "ACKED"
        BY <1>0 DEF RunInOrder
      <3>2. \A j \in DOMAIN sent : j > snapshot => sent[j].status # "ACKED"
        BY <1>0, <1>b, <2>2 DEF AckedInOrder
      <3>3. \A j \in DOMAIN sent : j > snapshot => j # snapshot
        BY <1>b
      <3> QED BY <2>2, <3>1, <3>2, <3>3 DEF UpTo
    <2>6. AllAcked' => Same(LotIn(sent', Len(sent')), rows, active, edgeSensor)
      <3> SUFFICES ASSUME AllAcked'
                   PROVE  Same(LotIn(sent', Len(sent')), rows, active, edgeSensor)
        OBVIOUS
      <3>1. snapshot = Len(sent) /\ Len(sent') = Len(sent)
        BY <1>0, <1>2, LastIsAcked
      <3>2. LotIn(sent', Len(sent)) = LotIn(sent, Len(sent))
        BY LotStays, SentLength
      <3>3. LotIn(sent, Len(sent)) = sent[snapshot].lot
        BY <2>1, <3>1, AtPending DEF LotIn
      <3> QED BY <1>a, <2>1, <3>1, <3>2, <3>3
    <2> QED BY <1>c, <2>1, <2>3, <2>4, <2>5, <2>6, EdgeHasSpacesOpens
  <1>3. ASSUME sent' = sent, ApplySpaces  PROVE EdgeHasSpaces'
    <2> DEFINE l == sent[snapshot].lot
    <2>1. applying = "spaces" /\ applying' = "ack" /\ snapshot' = snapshot
      BY <1>3 DEF ApplySpaces
    <2>2. PICK e \in Outcomes(l) :
            /\ rows' = e.rows
            /\ active' = {e.kept[s] : s \in Ids(l)}
            /\ edgeSensor' = IF l.sensor = 0 THEN 0 ELSE e.kept[l.sensor]
      BY <1>3 DEF ApplySpaces
    <2>3. /\ RowsIn(sent, e.rows, snapshot)
          /\ \A s \in Ids(l) : e.rows[s] = l.codes[s] /\ e.kept[s] = s
      BY <1>0, <2>1, <2>2, SpacesApplied
    <2>4. /\ snapshot \in DOMAIN sent /\ sent[snapshot].status = "PENDING" /\ ~ AllAcked
          /\ snapshot \in 0..Len(sent)
      BY <2>1, AtPending, SentLength
    <2>5. l.sensor \in {0} \cup Ids(l)
      BY <1>0, <2>4 DEF LotsAreSound, Sound
    <2>6. UpTo(sent, snapshot)
      <3>1. \A j \in DOMAIN sent : j < snapshot => sent[j].status = "ACKED"
        BY <1>0 DEF RunInOrder
      <3>2. \A j \in DOMAIN sent : j > snapshot => sent[j].status # "ACKED"
        BY <1>0, <1>b, <2>4 DEF AckedInOrder
      <3> QED BY <3>1, <3>2 DEF UpTo
    <2>7. l = sent'[snapshot'].lot
      BY <1>3, <2>1
    <2> HIDE DEF l
    <2>8. Same(l, rows', active', edgeSensor')
      BY <2>2, <2>3, <2>5 DEF Same
    <2>9. ~ AllAcked'
      BY <1>3, <2>4 DEF AllAcked
    <2> QED BY <1>3, <2>1, <2>2, <2>3, <2>4, <2>6, <2>7, <2>8, <2>9, EdgeHasSpacesOpens
  <1>4. ASSUME sent' = sent, \/ StartLotRun \/ ApplyLot \/ Refused \/ Fails \/ EndLotRun
                             \/ LotEdgeRestart
        PROVE  EdgeHasSpaces'
    <2>1. applying' # "ack" /\ UNCHANGED <<rows, active, edgeSensor>>
      BY <1>4 DEF StartLotRun, ApplyLot, Refused, Fails, GiveUp, EndLotRun, LotEdgeRestart,
                  edgeLot
    <2>2. AllAcked' = AllAcked
      BY <1>4 DEF AllAcked
    <2> QED BY <1>4, <1>a, <2>1, <2>2, EdgeHasSpacesOpens
  <1>5. EdgeStays => ~ Ack
    BY DEF EdgeStays, Ack
  <1> QED BY <1>1, <1>2, <1>3, <1>4, <1>5, WhatStays

\* A stuttering step leaves the invariant as it is.
LEMMA LotStutters ==
  ASSUME LotIInv, UNCHANGED lotVars
  PROVE  LotIInv'
  <1> USE DEF lotVars
  <1>1. LotTypeOK' /\ ChangesHold' /\ LotsAreSound' /\ MessagesAreOpen'
    BY DEF LotIInv, LotTypeOK, ChangesHold, LotsAreSound, MessagesAreOpen, Open
  <1>2. WorkIsPending' /\ InOrder' = InOrder /\ AllAcked' = AllAcked
    BY DEF LotIInv, WorkIsPending, Pending, InOrder, AllAcked
  <1>3. ChannelInOrder'
    BY <1>2 DEF LotIInv, ChannelInOrder, LastIsLot, LotsFollow, AckedInOrder, RunInOrder,
                EdgeRunsOn, RunsOn, LotAt
  <1>4. SpacesInOrder'
    <2>1. GoneStaysGone' <=> GoneStaysGone
      BY DEF GoneStaysGone, Gone, LotAt, Open
    <2>2. EdgeHasSpaces' <=> EdgeHasSpaces
      BY <1>2, EdgeHasSpacesOpens
    <2> QED BY <2>1, <2>2 DEF LotIInv, SpacesInOrder
  <1> QED BY <1>1, <1>2, <1>3, <1>4 DEF LotIInv

\* Before the first change the edge has the lot it created.
LEMMA LotStarts ==
  ASSUME LotInit
  PROVE  LotIInv
  <1>0. /\ FirstLot \in Lot /\ Ids(FirstLot) = DOMAIN AtFirst /\ Sound(FirstLot)
        /\ DOMAIN AtFirst \subseteq Spaces /\ Len(AtFirst) \in Spaces
        /\ FirstLot.sensor = 0 /\ FirstLot.mode = FirstMode
    BY FirstLotSound, FirstSpaces DEF FirstLot
  <1>1. /\ FirstLot.codes \in EdgeRows /\ FirstMode \in Modes
        /\ \A s \in Ids(FirstLot) : FirstLot.codes[s] \in Held(FirstLot)
    BY <1>0, LotFields
  <1>a. /\ sent = << >> /\ DOMAIN sent = {} /\ Len(sent) = 0 /\ sent \in Seq(Snapshots)
        /\ Open = {} /\ \A t \in Admins : message[t] = 0
    BY DEF LotInit, Open
  <1>2. LotTypeOK
    <2>1. /\ change \in [Admins -> Change \cup {Nothing}]
          /\ message \in [Admins -> 0..Len(sent)]
      BY <1>a DEF LotInit
    <2>2. rows \in [Spaces -> Codes \cup {Nothing}] /\ rows = FirstLot.codes
      BY <1>1 DEF LotInit, EdgeRows
    <2>3. active \in SUBSET {r \in Spaces : rows[r] # Nothing}
      BY <1>0, <2>2 DEF LotInit, Ids
    <2>4. lotFaults \in 0..MaxLotFaults
      BY BoundsAssumption DEF LotInit
    <2> QED BY <1>0, <1>1, <1>a, <2>1, <2>2, <2>3, <2>4 DEF LotInit, LotTypeOK
  <1>3. ChangesHold /\ LotsAreSound /\ MessagesAreOpen /\ WorkIsPending
    <2>1. ChangesHold /\ MessagesAreOpen
      BY <1>a DEF ChangesHold, MessagesAreOpen
    <2>2. LotsAreSound /\ WorkIsPending
      BY <1>0, <1>a DEF LotsAreSound, WorkIsPending, LotInit
    <2> QED BY <2>1, <2>2
  <1>4. LotIn(sent, Len(sent)) = FirstLot /\ lot = FirstLot
    BY <1>a DEF LotIn, LotInit
  <1>5. ChannelInOrder
    <2>1. LastIsLot
      BY <1>a, <1>4, LastIsLotOpens
    <2>2. LotsFollow /\ AckedInOrder /\ RunInOrder
      BY <1>a DEF LotsFollow, AckedInOrder, RunInOrder, LotInit
    <2>3. On(FirstLot, edgeMode, rows, active, edgeSensor)
      BY <1>0, <1>1 DEF On, LotInit
    <2>4. EdgeRunsOn
      BY <1>4, <2>3, EdgeRunsOnOpens DEF LotInit
    <2> QED BY <2>1, <2>2, <2>4 DEF ChannelInOrder
  <1>6. SpacesInOrder
    <2>1. GoneStaysGone
      BY <1>a, GoneStaysGoneOpens DEF LotInit
    <2>2. Same(FirstLot, rows, active, edgeSensor)
      BY <1>0 DEF Same, LotInit
    <2>3. RowsIn(sent, rows, 0)
      <3>1. LotIn(sent, 0) = FirstLot /\ rows = FirstLot.codes
        BY DEF LotIn, LotInit
      <3>2. \A s \in Spaces \ Ids(FirstLot) : FirstLot.codes[s] = Nothing
        BY DEF Ids
      <3> QED BY <3>1, <3>2 DEF RowsIn
    <2>4. UpTo(sent, 0) /\ 0 \in 0..Len(sent)
      BY <1>a DEF UpTo
    <2>5. EdgeHasSpaces
      BY <1>4, <2>2, <2>3, <2>4, EdgeHasSpacesOpens DEF LotInit
    <2> QED BY <2>1, <2>5 DEF SpacesInOrder
  <1> QED BY <1>2, <1>3, <1>5, <1>6 DEF LotIInv

\* Every step of the cloud and the edge keeps the invariant.
LEMMA LotSteps ==
  ASSUME LotIInv, LotNext
  PROVE  LotIInv'
  <1>1. LotTypeOK' /\ ChangesHold' /\ LotsAreSound' /\ MessagesAreOpen' /\ WorkIsPending'
    BY LotTypeStep, ChangesHoldStep, LotsAreSoundStep, MessagesAreOpenStep, WorkIsPendingStep
       DEF LotIInv
  <1>2. SpacesInOrder'
    BY GoneStaysGoneStep, EdgeHasSpacesStep DEF SpacesInOrder
  <1> QED BY <1>1, <1>2, ChannelInOrderStep DEF LotIInv

\* The inductive invariant of LotSnapshot holds always.
THEOREM LotInvariant == LotSpec => []LotIInv
  <1>1. LotInit => LotIInv
    BY LotStarts
  <1>2. LotIInv /\ [LotNext]_lotVars => LotIInv'
    BY LotStutters, LotSteps
  <1> QED BY <1>1, <1>2, PTL DEF LotSpec

\* Every lot, change, message and row is of its kind (LotSnapshot's variables).
THEOREM LotTypeCorrect == LotSpec => []LotTypeOK
  <1>1. LotIInv => LotTypeOK
    BY DEF LotIInv
  <1> QED BY <1>1, LotInvariant, PTL

\* With nothing open and every snapshot acknowledged, all are acknowledged and
\* the lot is the last snapshot's.
LEMMA QuietIsLast ==
  ASSUME LotIInv, Quiet, InOrder
  PROVE  AllAcked /\ lot = LotIn(sent, Len(sent))
  <1>1. AllAcked
    BY DEF Quiet, AllAcked
  <1>2. \A t \in Admins : message[t] = 0
    BY SentLength DEF Quiet, MessagesAreOpen
  <1> QED BY <1>1, <1>2, InOrderOpens, LastIsLotOpens

\* Once every snapshot is acknowledged and none has come out of order, the edge
\* runs on the lot the cloud shows (ApplyLot, ApplySpaces and Ack after Publish
\* and Commit): its row, its codes, its sensor.
THEOREM ConfigurationDoesAgree == LotSpec => []ConfigurationAgrees
  <1>1. LotIInv => ConfigurationAgrees
    <2> SUFFICES ASSUME LotIInv, Quiet, InOrder PROVE RunsOn(lot)
      BY DEF ConfigurationAgrees
    <2>1. On(LotIn(sent, Len(sent)), edgeMode, rows, active, edgeSensor)
      BY QuietIsLast, InOrderOpens, EdgeRunsOnOpens
    <2> QED BY <2>1, QuietIsLast DEF On, RunsOn
  <1> QED BY <1>1, LotInvariant, PTL

\* Where moreover no code of a removed space was given to another, the edge has
\* the cloud's spaces under the cloud's ids, with their codes, and its sensor on
\* the same one.
THEOREM IdsDoAgree == LotSpec => []IdsAgree
  <1>1. LotIInv => IdsAgree
    <2> SUFFICES ASSUME LotIInv, Quiet, slips = {} PROVE SameSpaces(lot)
      BY DEF IdsAgree
    <2>1. InOrder /\ EdgeHasSpaces
      BY DEF InOrder, LotIInv, SpacesInOrder
    <2>2. Same(LotIn(sent, Len(sent)), rows, active, edgeSensor)
      BY <2>1, QuietIsLast, EdgeHasSpacesOpens
    <2> QED BY <2>1, <2>2, QuietIsLast DEF Same, SameSpaces, CodeOf
  <1> QED BY <1>1, LotInvariant, PTL

=============================================================================
