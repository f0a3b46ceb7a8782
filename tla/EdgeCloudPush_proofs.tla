----------------------- MODULE EdgeCloudPush_proofs -----------------------
(***************************************************************************)
(* Proofs about the edge-to-cloud channel: the inductive invariant, the    *)
(* two safety properties that rest on it, that repeats of an effect are    *)
(* paid for by faults, and the refinement of EventDelivery.                *)
(***************************************************************************)
EXTENDS EdgeCloudPush, FiniteSetTheorems, TLAPS

\* What a query with orderBy and take returns is part of what it selects.
LEMMA FirstBySubset ==
  ASSUME NEW key, NEW k, NEW S
  PROVE  FirstBy(key, k, S) \subseteq S
  BY DEF FirstBy

LEMMA EarliestSubset ==
  ASSUME NEW key, NEW S
  PROVE  Earliest(key, S) \subseteq S
  BY DEF Earliest

\* The next row's place in the creation order is a natural number.
LEMMA RowCountType == RowCount \in Nat
  <1> DEFINE R == {e \in Events : createdAt[e] # 0}
  <1>1. IsFiniteSet(R)
    BY EventsAssumption, FS_Subset
  <1>2. Cardinality(R) \in Nat
    BY <1>1, FS_CardinalityType
  <1> QED BY <1>2 DEF RowCount

\* Nothing the invariant speaks of is true of an empty database.
LEMMA InitIInv == Init => IInv
  BY NoneAssumption, RetryCapAssumption
  DEF Init, IInv, TypeOK, ClaimsAreTrue, AckedWasApplied, WorkIsRecorded,
      WorkerHoldsPending, OutboxStatus, InboxStatus, Phases, PcSet, Answers

\* Every step of the edge, the worker, the cloud and the network keeps it.
LEMMA NextIInv == IInv /\ [Next]_vars => IInv'
  <1> SUFFICES ASSUME IInv, [Next]_vars PROVE IInv'
    OBVIOUS
  <1> USE NoneAssumption, RetryCapAssumption
      DEF IInv, TypeOK, ClaimsAreTrue, AckedWasApplied, WorkIsRecorded,
          WorkerHoldsPending, OutboxStatus, InboxStatus, Phases, PcSet, Answers,
          edgeDb, worker, cloud, faultVars, Fault
  <1>1. ASSUME NEW e \in Events, RecordWithRow(e) PROVE IInv'
    BY <1>1, RowCountType DEF RecordWithRow, CreateRow
  <1>2. ASSUME NEW e \in Events, RecordWithoutRow(e) PROVE IInv'
    BY <1>2 DEF RecordWithoutRow
  <1>3. ASSUME NEW e \in Events, RetryDue(e) PROVE IInv'
    BY <1>3 DEF RetryDue
  <1>4. CASE StartRun
    BY <1>4, FirstBySubset DEF StartRun
  <1>5. CASE BootstrapNext
    BY <1>5, RowCountType, EarliestSubset DEF BootstrapNext, CreateRow
  <1>6. CASE LoadPending
    BY <1>6, FirstBySubset DEF LoadPending, DueRows
  <1>7. CASE EndRun
    BY <1>7 DEF EndRun
  <1>8. ASSUME NEW r \in Requests, Post(r) PROVE IInv'
    BY <1>8, EarliestSubset DEF Post
  <1>9. CASE PushAcked
    BY <1>9 DEF PushAcked, EndAwait
  <1>10. CASE PushRejected
    BY <1>10 DEF PushRejected, MarkOutboxFailed, EndAwait
  <1>11. CASE PushTimedOut
    BY <1>11 DEF PushTimedOut, MarkOutboxFailed, EndAwait
  <1>12. CASE AbortRun
    BY <1>12 DEF AbortRun
  <1>13. ASSUME NEW r \in Requests, ReceiveNew(r) PROVE IInv'
    BY <1>13 DEF ReceiveNew
  <1>14. ASSUME NEW r \in Requests, ReceiveProcessed(r) PROVE IInv'
    BY <1>14 DEF ReceiveProcessed, Finish
  <1>15. ASSUME NEW r \in Requests, Apply(r) PROVE IInv'
    BY <1>15 DEF Apply
  <1>16. ASSUME NEW r \in Requests, Throw(r) PROVE IInv'
    BY <1>16 DEF Throw
  <1>17. ASSUME NEW r \in Requests, MarkInboxProcessed(r) PROVE IInv'
    BY <1>17 DEF MarkInboxProcessed, Finish
  <1>18. ASSUME NEW r \in Requests, MarkInboxFailed(r) PROVE IInv'
    BY <1>18 DEF MarkInboxFailed, Finish
  <1>19. CASE CloudCrash
    BY <1>19 DEF CloudCrash
  <1>20. CASE UNCHANGED vars
    BY <1>20 DEF vars
  <1> QED
    BY <1>1, <1>2, <1>3, <1>4, <1>5, <1>6, <1>7, <1>8, <1>9, <1>10, <1>11,
       <1>12, <1>13, <1>14, <1>15, <1>16, <1>17, <1>18, <1>19, <1>20
    DEF Next, Record, Worker, Handler

\* The claims of the outbox, the inbox and the handlers are true at all
\* times, for every number of events, requests and faults.
THEOREM SpecIInv == Spec => []IInv
  BY InitIInv, NextIInv, PTL DEF Spec

\* Every variable keeps its type.
THEOREM SpecTypeOK == Spec => []TypeOK
  <1>1. IInv => TypeOK
    BY DEF IInv
  <1> QED BY <1>1, SpecIInv, PTL

\* pushOneOutbox marks a row ACKED only for an event whose effect the cloud
\* has committed.
THEOREM SpecAckedWasApplied == Spec => []AckedWasApplied
  <1>1. IInv => AckedWasApplied
    BY DEF IInv, ClaimsAreTrue
  <1> QED BY <1>1, SpecIInv, PTL

\* markOutboxFailed never turns an ACKED row PENDING again: the row it writes
\* is the one the worker posted, which it holds as PENDING.
THEOREM SpecAckedIsFinal == Spec => AckedIsFinal
  <1> DEFINE Final == \A e \in Events : outbox[e] = "ACKED" => outbox'[e] = "ACKED"
  <1>1. IInv /\ [Next]_vars => [Final]_vars
    <2> SUFFICES ASSUME IInv, Next, NEW e \in Events, outbox[e] = "ACKED"
                 PROVE  outbox'[e] = "ACKED"
      BY DEF Final
    <2> USE DEF IInv, TypeOK, OutboxStatus
    <2>1. CASE \E f \in Events : RecordWithRow(f)
      BY <2>1 DEF RecordWithRow, CreateRow, WorkIsRecorded
    <2>2. CASE BootstrapNext
      BY <2>2, EarliestSubset DEF BootstrapNext, CreateRow
    <2>3. CASE PushAcked
      BY <2>3 DEF PushAcked
    <2>4. CASE PushRejected \/ PushTimedOut
      BY <2>4, NoneAssumption
      DEF PushRejected, PushTimedOut, MarkOutboxFailed, WorkerHoldsPending
    <2>5. CASE UNCHANGED outbox
      BY <2>5
    <2> QED
      BY <2>1, <2>2, <2>3, <2>4, <2>5
      DEF Next, Record, Worker, Handler, RecordWithoutRow, RetryDue, StartRun,
          LoadPending, EndRun, Post, AbortRun, ReceiveNew, ReceiveProcessed,
          Apply, Throw, MarkInboxProcessed, MarkInboxFailed, CloudCrash, edgeDb
  <1> QED BY <1>1, SpecIInv, PTL DEF Spec, AckedIsFinal

---------------------------------------------------------------------------
(* Repeats are paid for.                                                   *)

\* What one element more or less does to the size of a finite set.
LEMMA SizeFacts ==
  ASSUME NEW S, IsFiniteSet(S), NEW T, NEW x
  PROVE  /\ Cardinality(S) \in Nat
         /\ T \subseteq S => Cardinality(T) \in Nat /\ Cardinality(T) <= Cardinality(S)
         /\ T \subseteq S \cup {x} =>
              Cardinality(T) \in Nat /\ Cardinality(T) <= Cardinality(S) + 1
         /\ x \in S /\ T \subseteq S \ {x} =>
              Cardinality(T) \in Nat /\ Cardinality(T) + 1 <= Cardinality(S)
  <1>1. Cardinality(S) \in Nat
    BY FS_CardinalityType
  <1>2. ASSUME NEW U, IsFiniteSet(U), T \subseteq U
        PROVE  Cardinality(T) \in Nat /\ Cardinality(T) <= Cardinality(U)
    BY <1>2, FS_Subset, FS_CardinalityType
  <1>3. /\ IsFiniteSet(S \cup {x})
        /\ Cardinality(S \cup {x}) \in {Cardinality(S), Cardinality(S) + 1}
    BY FS_AddElement, S \cup {x} = S \/ x \notin S
  <1>4. x \in S => /\ IsFiniteSet(S \ {x})
                   /\ Cardinality(S \ {x}) = Cardinality(S) - 1
    BY FS_RemoveElement
  <1>5. T \subseteq S => Cardinality(T) \in Nat /\ Cardinality(T) <= Cardinality(S)
    BY <1>2
  <1>6. T \subseteq S \cup {x} =>
              Cardinality(T) \in Nat /\ Cardinality(T) <= Cardinality(S) + 1
    BY <1>1, <1>2, <1>3
  <1>7. x \in S /\ T \subseteq S \ {x} =>
              Cardinality(T) \in Nat /\ Cardinality(T) + 1 <= Cardinality(S)
    BY <1>1, <1>2, <1>4
  <1> QED BY <1>1, <1>5, <1>6, <1>7

LEMMA OwingIsFinite ==
  \A e \in Events : IsFiniteSet(Owing(e)) /\ Cardinality(Owing(e)) \in Nat
  <1> SUFFICES ASSUME NEW e \in Events
               PROVE  IsFiniteSet(Owing(e)) /\ Cardinality(Owing(e)) \in Nat
    OBVIOUS
  <1>1. Owing(e) \subseteq Requests
    BY DEF Owing
  <1> QED BY <1>1, RequestsAssumption, FS_Subset, FS_CardinalityType

\* The arithmetic of a step: no more handlers owe than before, up to one, and what the
\* step commits or lets go is paid by a slip, by a spare effect or by a handler that
\* owes no longer.
Paid(e) == applied[e] + Cardinality(Owing(e)) <= slips + Spare(e)

Numbers(e) ==
  applied[e] \in Nat /\ slips \in Nat /\ Cardinality(Owing(e)) \in Nat /\ Spare(e) \in {0, 1}

LEMMA NumbersFacts ==
  ASSUME IInv, NEW e \in Events
  PROVE  Numbers(e)
  BY OwingIsFinite DEF Numbers, IInv, TypeOK, Spare

LEMMA PaidBySame ==
  ASSUME NEW e \in Events, Paid(e), Numbers(e), applied'[e] \in Nat, slips' \in Nat,
         Owing(e)' \subseteq Owing(e),
         applied'[e] + slips + Spare(e) <= applied[e] + slips' + Spare(e)'
  PROVE  Paid(e)'
  <1>1. Cardinality(Owing(e)') \in Nat /\ Cardinality(Owing(e)') <= Cardinality(Owing(e))
    BY OwingIsFinite, SizeFacts
  <1>2. Spare(e)' \in {0, 1}
    BY DEF Spare
  <1> QED BY <1>1, <1>2 DEF Paid, Numbers

LEMMA PaidWithOneMore ==
  ASSUME NEW e \in Events, Paid(e), Numbers(e), applied'[e] \in Nat, slips' \in Nat,
         NEW x, Owing(e)' \subseteq Owing(e) \cup {x},
         applied'[e] + slips + Spare(e) + 1 <= applied[e] + slips' + Spare(e)'
  PROVE  Paid(e)'
  <1>1. Cardinality(Owing(e)') \in Nat /\ Cardinality(Owing(e)') <= Cardinality(Owing(e)) + 1
    BY OwingIsFinite, SizeFacts
  <1>2. Spare(e)' \in {0, 1}
    BY DEF Spare
  <1> QED BY <1>1, <1>2 DEF Paid, Numbers

LEMMA PaidByOneLess ==
  ASSUME NEW e \in Events, Paid(e), Numbers(e), applied'[e] \in Nat, slips' \in Nat,
         NEW x \in Owing(e), Owing(e)' \subseteq Owing(e) \ {x},
         applied'[e] + slips + Spare(e) <= applied[e] + slips' + Spare(e)' + 1
  PROVE  Paid(e)'
  <1>1. Cardinality(Owing(e)') \in Nat /\ Cardinality(Owing(e)') + 1 <= Cardinality(Owing(e))
    BY OwingIsFinite, SizeFacts
  <1>2. Spare(e)' \in {0, 1}
    BY DEF Spare
  <1> QED BY <1>1, <1>2 DEF Paid, Numbers

LEMMA InitPaid == Init => RepeatsArePaid
  <1> SUFFICES ASSUME Init, NEW e \in Events
               PROVE  applied[e] + Cardinality(Owing(e)) <= slips + Spare(e)
    BY DEF RepeatsArePaid
  <1>1. Owing(e) = {}
    BY DEF Init, Owing
  <1> QED BY <1>1, FS_EmptySet DEF Init, Spare

\* A step that moves the request r alone.
LEMMA OthersOweAsBefore ==
  ASSUME NEW r, NEW e, awaited' = awaited, reqEvent' = reqEvent,
         \A q \in Requests \ {r} : reqPc'[q] = reqPc[q]
  PROVE  /\ Owing(e)' \subseteq Owing(e) \cup {r}
         /\ Owing(e) \subseteq Owing(e)' \cup {r}
         /\ r \notin Owing(e)' => Owing(e)' \subseteq Owing(e) \ {r}
         /\ r \in Owing(e) => Owing(e)' \subseteq Owing(e)
  BY DEF Owing

LEMMA NextPaid == IInv /\ RepeatsArePaid /\ [Next]_vars => RepeatsArePaid'
  <1> SUFFICES ASSUME IInv, RepeatsArePaid, [Next]_vars, NEW e \in Events
               PROVE  Paid(e)'
    BY DEF RepeatsArePaid, Paid
  <1> USE NoneAssumption DEF edgeDb, worker, cloud, faultVars
  <1>0. /\ DOMAIN reqPc = Requests /\ DOMAIN inbox = Events /\ applied \in [Events -> Nat]
        /\ slips \in Nat /\ applied[e] \in Nat /\ reqEvent \in [Requests -> Events]
        /\ awaited \in Requests \cup {None}
        /\ phase = "await" <=> awaited # None
        /\ awaited # None => reqPc[awaited] # "free"
    BY DEF IInv, TypeOK, WorkerHoldsPending
  <1>n. Paid(e) /\ Numbers(e)
    BY NumbersFacts DEF RepeatsArePaid, Paid
  <1>s. ASSUME slips' = slips, applied' = applied, Owing(e)' \subseteq Owing(e),
               Spare(e)' = Spare(e)
        PROVE  Paid(e)'
    <2>1. applied'[e] + slips + Spare(e) <= applied[e] + slips' + Spare(e)'
      BY <1>s, <1>n DEF Numbers
    <2> QED BY <1>0, <1>n, <1>s, <2>1, PaidBySame
  <1>1. ASSUME UNCHANGED <<awaited, reqPc, reqEvent, inbox, applied, slips>> PROVE Paid(e)'
    BY <1>1, <1>n DEF Paid, Owing, Spare
  <1>2. CASE Record \/ (\E f \in Events : RetryDue(f)) \/ StartRun \/ BootstrapNext
             \/ LoadPending \/ EndRun \/ UNCHANGED vars
    BY <1>1, <1>2 DEF Record, RecordWithRow, RecordWithoutRow, CreateRow, RetryDue, StartRun,
                      BootstrapNext, LoadPending, EndRun, vars
  <1>3. ASSUME NEW r \in Requests, Post(r) PROVE Paid(e)'
    <2>1. /\ awaited = None /\ awaited' = r /\ reqPc[r] = "free"
          /\ reqPc'[r] \in {"arrived", "reset"}
          /\ \A q \in Requests \ {r} : reqPc'[q] = reqPc[q] /\ reqEvent'[q] = reqEvent[q]
          /\ UNCHANGED <<inbox, applied, slips>>
      BY <1>0, <1>3 DEF Post, Fault
    <2>2. Owing(e)' \subseteq Owing(e)
      BY <2>1 DEF Owing
    <2>3. Spare(e)' = Spare(e)
      BY <2>1 DEF Spare
    <2> QED BY <2>1, <2>2, <2>3, <1>s
  <1>4. CASE PushAcked \/ PushRejected
    <2>1. /\ awaited \in Requests /\ awaited' = None
          /\ reqPc[awaited] \in Answers /\ reqPc'[awaited] = "free"
          /\ \A q \in Requests \ {awaited} : reqPc'[q] = reqPc[q]
          /\ UNCHANGED <<reqEvent, inbox, applied, slips>>
      BY <1>0, <1>4 DEF PushAcked, PushRejected, EndAwait, Answers
    <2>2. Owing(e)' \subseteq Owing(e)
      BY <2>1 DEF Owing
    <2>3. Spare(e)' = Spare(e)
      BY <2>1 DEF Spare, Answers
    <2> QED BY <2>1, <2>2, <2>3, <1>s
  <1>5. ASSUME awaited' = None, UNCHANGED <<reqEvent, inbox, applied>>,
               \A q \in Requests : \/ reqPc'[q] = reqPc[q]
                                   \/ q = awaited /\ reqPc[q] \in Answers /\ reqPc'[q] = "free",
               slips' = IF awaited # None /\ AtWork(awaited) THEN slips + 1 ELSE slips
        PROVE  Paid(e)'
    <2>1. CASE awaited # None /\ AtWork(awaited)
      <3>1. Owing(e)' \subseteq Owing(e) \cup {awaited}
        BY <1>5, <2>1 DEF Owing
      <3>2. slips' = slips + 1
        BY <1>5, <2>1
      <3>3. CASE reqPc[awaited] = "committed"
        <4>1. Owing(e)' \subseteq Owing(e)
          BY <1>0, <1>5, <2>1, <3>3 DEF Owing, Answers
        <4>2. applied'[e] + slips + Spare(e) <= applied[e] + slips' + Spare(e)'
          BY <1>0, <1>5, <3>2 DEF Spare
        <4> QED BY <1>0, <1>n, <1>5, <3>2, <4>1, <4>2, PaidBySame
      <3>4. CASE reqPc[awaited] # "committed"
        <4>1. Spare(e) <= Spare(e)'
          BY <1>0, <1>5, <2>1, <3>4 DEF Spare, AtWork
        <4>2. applied'[e] + slips + Spare(e) + 1 <= applied[e] + slips' + Spare(e)'
          <5>1. Spare(e) \in {0, 1} /\ Spare(e)' \in {0, 1}
            BY DEF Spare
          <5> QED BY <1>0, <1>5, <3>2, <4>1, <5>1
        <4> QED BY <1>0, <1>n, <1>5, <3>1, <3>2, <4>2, PaidWithOneMore
      <3> QED BY <3>3, <3>4
    <2>2. CASE ~(awaited # None /\ AtWork(awaited))
      <3>1. Owing(e)' \subseteq Owing(e)
        BY <1>5, <2>2 DEF Owing, AtWork
      <3>2. Spare(e)' = Spare(e)
        BY <1>0, <1>5, <2>2 DEF Spare, AtWork
      <3> QED BY <1>s, <1>5, <2>2, <3>1, <3>2
    <2> QED BY <2>1, <2>2
  <1>6. CASE PushTimedOut
    BY <1>0, <1>5, <1>6 DEF PushTimedOut, EndAwait, Fault
  <1>7. CASE AbortRun
    BY <1>0, <1>5, <1>7 DEF AbortRun, Fault
  <1>8. CASE CloudCrash
    <2>1. /\ Owing(e)' = {}
          /\ UNCHANGED <<applied, inbox, awaited, reqEvent>>
          /\ \A q \in Requests : reqPc'[q] \in {"reset", "free"}
          /\ slips' = IF \E r \in Requests : AtWork(r) THEN slips + 1 ELSE slips
      BY <1>8 DEF CloudCrash, Fault, Owing
    <2>2. Owing(e)' \subseteq Owing(e)
      BY <2>1
    <2>3. CASE \E r \in Requests : AtWork(r)
      <3>1. applied'[e] + slips + Spare(e) <= applied[e] + slips' + Spare(e)'
        BY <1>0, <2>1, <2>3 DEF Spare
      <3> QED BY <1>0, <1>n, <2>1, <2>2, <2>3, <3>1, PaidBySame
    <2>4. CASE ~ \E r \in Requests : AtWork(r)
      <3>1. Spare(e)' = Spare(e)
        BY <1>0, <2>1, <2>4 DEF Spare, AtWork
      <3> QED BY <1>s, <2>1, <2>2, <2>4, <3>1
    <2> QED BY <2>3, <2>4
  <1>9. ASSUME NEW r \in Requests, Handler(r) PROVE Paid(e)'
    <2>1. /\ awaited' = awaited /\ reqEvent' = reqEvent
          /\ \A q \in Requests \ {r} : reqPc'[q] = reqPc[q]
      BY <1>0, <1>9 DEF Handler, ReceiveNew, ReceiveProcessed, Apply, Throw, MarkInboxProcessed,
                        MarkInboxFailed, Finish
    <2>2. /\ Owing(e)' \subseteq Owing(e) \cup {r}
          /\ r \notin Owing(e)' => Owing(e)' \subseteq Owing(e) \ {r} /\ Owing(e)' \subseteq Owing(e)
          /\ r \in Owing(e) => Owing(e)' \subseteq Owing(e)
      BY <2>1, OthersOweAsBefore
    <2>3. r \in Owing(e) <=> /\ r # awaited /\ reqEvent[r] = e
                             /\ reqPc[r] \in {"arrived", "processing", "failing"}
      BY DEF Owing
    <2>4. r \in Owing(e)' <=> /\ r # awaited /\ reqEvent[r] = e
                              /\ reqPc'[r] \in {"arrived", "processing", "failing"}
      BY <2>1 DEF Owing
    <2>5. ASSUME r # awaited, inbox'[e] = inbox[e] PROVE Spare(e)' = Spare(e)
      BY <1>0, <2>1, <2>5 DEF Spare
    <2>6. ASSUME reqEvent[r] # e, inbox'[e] = inbox[e] PROVE Spare(e)' = Spare(e)
      BY <1>0, <2>1, <2>6 DEF Spare
    <2>7. CASE reqEvent[r] # e
      <3>1. applied'[e] = applied[e] /\ inbox'[e] = inbox[e] /\ slips' \in {slips, slips + 1}
        BY <1>0, <1>9, <2>7 DEF Handler, ReceiveNew, ReceiveProcessed, Apply, Throw,
                                MarkInboxProcessed, MarkInboxFailed, Fault
      <3>2. applied'[e] + slips + Spare(e) <= applied[e] + slips' + Spare(e)'
        BY <1>0, <2>6, <2>7, <3>1 DEF Spare
      <3> QED BY <1>0, <1>n, <2>2, <2>4, <2>7, <3>1, <3>2, PaidBySame
    <2>8. inbox[e] \in InboxStatus /\ inbox \in [Events -> InboxStatus]
      BY DEF IInv, TypeOK
    <2>9. CASE reqEvent[r] = e /\ r = awaited
      <3>0. /\ Owing(e)' \subseteq Owing(e) /\ awaited # None
            /\ Spare(e) = IF reqPc[r] = "committed" THEN 1
                          ELSE IF reqPc[r] \in {"processing", "failing"} THEN 0
                          ELSE IF inbox[e] = "PROCESSED" THEN 1 ELSE 0
            /\ Spare(e)' = IF reqPc'[r] = "committed" THEN 1
                           ELSE IF reqPc'[r] \in {"processing", "failing"} THEN 0
                           ELSE IF inbox'[e] = "PROCESSED" THEN 1 ELSE 0
        BY <2>1, <2>2, <2>4, <2>9 DEF Spare
      <3>1. ASSUME ReceiveNew(r) PROVE Paid(e)'
        <4>1. /\ reqPc[r] = "arrived" /\ reqPc'[r] = "processing" /\ inbox[e] # "PROCESSED"
              /\ slips' = slips /\ applied' = applied
          BY <1>0, <2>9, <3>1 DEF ReceiveNew
        <4>2. Spare(e)' = Spare(e)
          BY <3>0, <4>1
        <4> QED BY <1>s, <3>0, <4>1, <4>2
      <3>2. ASSUME ReceiveProcessed(r) PROVE Paid(e)'
        <4>1. /\ reqPc[r] = "arrived" /\ reqPc'[r] = "ok" /\ inbox' = inbox
              /\ slips' = slips /\ applied' = applied
          BY <1>0, <2>9, <3>2 DEF ReceiveProcessed, Finish
        <4>2. Spare(e)' = Spare(e)
          BY <3>0, <4>1
        <4> QED BY <1>s, <3>0, <4>1, <4>2
      <3>3. ASSUME Apply(r) PROVE Paid(e)'
        <4>1. /\ reqPc[r] = "processing" /\ reqPc'[r] = "committed"
              /\ slips' = slips /\ applied'[e] = applied[e] + 1
          BY <1>0, <2>9, <3>3 DEF Apply
        <4>2. applied'[e] + slips + Spare(e) <= applied[e] + slips' + Spare(e)'
          BY <1>0, <3>0, <4>1
        <4> QED BY <1>0, <1>n, <3>0, <4>1, <4>2, PaidBySame
      <3>4. ASSUME Throw(r) PROVE Paid(e)'
        <4>1. /\ reqPc'[r] = "failing" /\ applied' = applied
              /\ \/ reqPc[r] = "processing" /\ slips' = slips
                 \/ reqPc[r] = "committed" /\ slips' = slips + 1
          BY <1>0, <2>9, <3>4 DEF Throw, Fault
        <4>2. applied'[e] + slips + Spare(e) <= applied[e] + slips' + Spare(e)'
          BY <1>0, <3>0, <4>1
        <4>3. slips' \in Nat /\ applied'[e] \in Nat
          BY <1>0, <4>1
        <4> QED BY <1>n, <3>0, <4>2, <4>3, PaidBySame
      <3>5. ASSUME MarkInboxProcessed(r) PROVE Paid(e)'
        <4>1. /\ reqPc[r] = "committed" /\ reqPc'[r] = "ok" /\ inbox'[e] = "PROCESSED"
              /\ slips' = slips /\ applied' = applied
          BY <1>0, <2>9, <3>5 DEF MarkInboxProcessed, Finish
        <4>2. Spare(e)' = Spare(e)
          BY <3>0, <4>1
        <4> QED BY <1>s, <3>0, <4>1, <4>2
      <3>6. ASSUME MarkInboxFailed(r) PROVE Paid(e)'
        <4>1. /\ reqPc[r] = "failing" /\ reqPc'[r] = "rejected" /\ inbox'[e] = "FAILED"
              /\ slips' = slips /\ applied' = applied
          BY <1>0, <2>9, <3>6 DEF MarkInboxFailed, Finish
        <4>2. Spare(e)' = Spare(e)
          BY <3>0, <4>1
        <4> QED BY <1>s, <3>0, <4>1, <4>2
      <3> QED BY <1>9, <3>1, <3>2, <3>3, <3>4, <3>5, <3>6 DEF Handler
    <2>10. CASE reqEvent[r] = e /\ r # awaited
      <3>1. ASSUME ReceiveNew(r) PROVE Paid(e)'
        <4>1. /\ reqPc[r] = "arrived" /\ inbox[e] # "PROCESSED" /\ inbox'[e] # "PROCESSED"
              /\ slips' = slips /\ applied' = applied
          BY <1>0, <2>10, <3>1 DEF ReceiveNew
        <4>2. Spare(e)' = Spare(e)
          BY <1>0, <2>1, <2>10, <4>1 DEF Spare
        <4> QED BY <1>s, <2>2, <2>3, <2>10, <4>1, <4>2
      <3>2. ASSUME ReceiveProcessed(r) PROVE Paid(e)'
        <4>1. /\ reqPc'[r] = "free" /\ inbox' = inbox /\ slips' = slips /\ applied' = applied
          BY <1>0, <2>10, <3>2 DEF ReceiveProcessed, Finish
        <4> QED BY <1>s, <2>2, <2>4, <2>5, <2>10, <4>1
      <3>3. ASSUME Apply(r) PROVE Paid(e)'
        <4>1. /\ reqPc[r] = "processing" /\ reqPc'[r] = "committed" /\ inbox' = inbox
              /\ slips' = slips /\ applied'[e] = applied[e] + 1
          BY <1>0, <2>10, <3>3 DEF Apply
        <4>2. applied'[e] + slips + Spare(e) <= applied[e] + slips' + Spare(e)' + 1
          BY <1>0, <2>5, <2>10, <4>1 DEF Spare
        <4>3. r \in Owing(e) /\ Owing(e)' \subseteq Owing(e) \ {r}
          BY <2>2, <2>3, <2>4, <2>10, <4>1
        <4> QED BY <1>0, <1>n, <4>1, <4>2, <4>3, PaidByOneLess
      <3>4. ASSUME Throw(r) PROVE Paid(e)'
        <4>1. /\ inbox' = inbox /\ applied' = applied
              /\ \/ reqPc[r] = "processing" /\ slips' = slips
                 \/ reqPc[r] = "committed" /\ slips' = slips + 1
          BY <1>0, <2>10, <3>4 DEF Throw, Fault
        <4>2. Spare(e)' = Spare(e)
          BY <2>5, <2>10, <4>1
        <4>3. CASE reqPc[r] = "processing"
          BY <1>s, <2>2, <2>3, <2>10, <4>1, <4>2, <4>3
        <4>4. CASE reqPc[r] = "committed"
          <5>1. applied'[e] + slips + Spare(e) + 1 <= applied[e] + slips' + Spare(e)'
            BY <1>0, <4>1, <4>2, <4>4 DEF Spare
          <5>2. slips' \in Nat /\ applied'[e] \in Nat
            BY <1>0, <4>1
          <5> QED BY <1>n, <2>2, <5>1, <5>2, PaidWithOneMore
        <4> QED BY <4>1, <4>3, <4>4
      <3>5. ASSUME MarkInboxProcessed(r) PROVE Paid(e)'
        <4>1. /\ reqPc'[r] = "free" /\ inbox'[e] = "PROCESSED" /\ slips' = slips
              /\ applied' = applied
          BY <1>0, <2>10, <3>5 DEF MarkInboxProcessed, Finish
        <4>2. Spare(e) <= Spare(e)'
          BY <1>0, <2>1, <2>10, <4>1 DEF Spare
        <4>3. applied'[e] + slips + Spare(e) <= applied[e] + slips' + Spare(e)'
          BY <1>0, <4>1, <4>2 DEF Spare
        <4> QED BY <1>0, <1>n, <2>2, <2>4, <4>1, <4>3, PaidBySame
      <3>6. ASSUME MarkInboxFailed(r) PROVE Paid(e)'
        <4>1. /\ reqPc[r] = "failing" /\ reqPc'[r] = "free" /\ slips' = slips
              /\ applied' = applied
          BY <1>0, <2>10, <3>6 DEF MarkInboxFailed, Finish
        <4>2. applied'[e] + slips + Spare(e) <= applied[e] + slips' + Spare(e)' + 1
          BY <1>0, <4>1 DEF Spare
        <4>3. r \in Owing(e) /\ Owing(e)' \subseteq Owing(e) \ {r}
          BY <2>2, <2>3, <2>4, <2>10, <4>1
        <4> QED BY <1>0, <1>n, <4>1, <4>2, <4>3, PaidByOneLess
      <3> QED BY <1>9, <3>1, <3>2, <3>3, <3>4, <3>5, <3>6 DEF Handler
    <2> QED BY <2>7, <2>9, <2>10
  <1> QED BY <1>2, <1>3, <1>4, <1>6, <1>7, <1>8, <1>9 DEF Next, Worker

THEOREM SpecRepeatsArePaid == Spec => []RepeatsArePaid
  BY InitPaid, NextPaid, SpecIInv, PTL DEF Spec

\* processEdgeEvent carries an event out once, and once more at most for each fault that
\* hit one of its handlers at work.
THEOREM SpecRepeatsCostSlips == Spec => []RepeatsCostSlips
  <1>1. IInv /\ RepeatsArePaid => RepeatsCostSlips
    <2> SUFFICES ASSUME IInv, RepeatsArePaid, NEW e \in Events PROVE applied[e] <= 1 + slips
      BY DEF RepeatsCostSlips
    <2>1. /\ applied[e] \in Nat /\ slips \in Nat /\ Cardinality(Owing(e)) \in Nat
          /\ Spare(e) \in {0, 1}
          /\ applied[e] + Cardinality(Owing(e)) <= slips + Spare(e)
      BY OwingIsFinite DEF IInv, TypeOK, RepeatsArePaid, Spare
    <2> QED BY <2>1
  <1> QED BY <1>1, SpecIInv, SpecRepeatsArePaid, PTL

---------------------------------------------------------------------------
(* The refinement of EventDelivery.                                        *)

\* A step that leaves the three abstract variables alone is a stutter.
LEMMA Stutter ==
  ASSUME recorded' = recorded, outbox' = outbox, applied' = applied
  PROVE  UNCHANGED Delivery!vars
  BY DEF Delivery!vars

LEMMA InitDelivery == Init => Delivery!Init
  BY DEF Init, Delivery!Init

\* Recording, committing and acknowledging are the abstract steps; every
\* other step of the channel stutters.
LEMMA NextDelivery == IInv /\ [Next]_vars => [Delivery!Next]_(Delivery!vars)
  <1> SUFFICES ASSUME IInv, [Next]_vars PROVE Delivery!Next \/ UNCHANGED Delivery!vars
    OBVIOUS
  <1> USE DEF IInv, TypeOK
  <1>1. ASSUME NEW e \in Events, RecordWithRow(e) \/ RecordWithoutRow(e)
        PROVE  Delivery!Record(e)
    BY <1>1 DEF RecordWithRow, RecordWithoutRow, CreateRow, WorkIsRecorded,
                Delivery!Record, OutboxStatus, cloud
  <1>2. ASSUME NEW r \in Requests, Apply(r)
        PROVE  Delivery!Next
    BY <1>2 DEF Apply, WorkIsRecorded, Delivery!Next, Delivery!Deliver, edgeDb
  <1>3. ASSUME PushAcked
        PROVE  Delivery!Next
    BY <1>3, NoneAssumption
    DEF PushAcked, EndAwait, ClaimsAreTrue, WorkerHoldsPending, Delivery!Next,
        Delivery!Acknowledge
  <1>4. ASSUME PushRejected \/ PushTimedOut
        PROVE  UNCHANGED Delivery!vars
    BY <1>4, NoneAssumption
    DEF PushRejected, PushTimedOut, MarkOutboxFailed, EndAwait, WorkerHoldsPending,
        Delivery!vars
  <1>5. ASSUME BootstrapNext
        PROVE  UNCHANGED Delivery!vars
    BY <1>5, EarliestSubset DEF BootstrapNext, CreateRow, Delivery!vars, cloud
  <1>6. ASSUME NEW e \in Events, RetryDue(e)
        PROVE  UNCHANGED Delivery!vars
    BY <1>6, Stutter DEF RetryDue, cloud
  <1>7. ASSUME StartRun \/ LoadPending \/ EndRun \/ AbortRun \/ CloudCrash
        PROVE  UNCHANGED Delivery!vars
    BY <1>7, Stutter
    DEF StartRun, LoadPending, EndRun, AbortRun, CloudCrash, edgeDb, cloud
  <1>8. ASSUME NEW r \in Requests,
               \/ Post(r) \/ ReceiveNew(r) \/ ReceiveProcessed(r) \/ Throw(r)
               \/ MarkInboxProcessed(r) \/ MarkInboxFailed(r)
        PROVE  UNCHANGED Delivery!vars
    BY <1>8, Stutter
    DEF Post, ReceiveNew, ReceiveProcessed, Throw, MarkInboxProcessed,
        MarkInboxFailed, edgeDb, cloud
  <1>9. CASE UNCHANGED vars
    BY <1>9, Stutter DEF vars
  <1>10. CASE Record
    BY <1>1, <1>10 DEF Delivery!Next, Record
  <1> QED
    BY <1>2, <1>3, <1>4, <1>5, <1>6, <1>7, <1>8, <1>9, <1>10
    DEF Next, Worker, Handler

\* The channel implements the abstract promise.
THEOREM SpecDeliversEvents == Spec => DeliversEvents
  BY InitDelivery, NextDelivery, SpecIInv, PTL DEF Spec, DeliversEvents, Delivery!Spec
=============================================================================
