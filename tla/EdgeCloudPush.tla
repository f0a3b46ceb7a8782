--------------------------- MODULE EdgeCloudPush ---------------------------
(***************************************************************************)
(* The edge-to-cloud channel.  The edge records domain events and outbox   *)
(* rows in its own database; EdgeCloudPushWorkerService walks them in      *)
(* single-flight runs and POSTs them one at a time; on the cloud           *)
(* SyncService.pushFromEdge keeps an inbox row per event id, carries out   *)
(* the event and answers.  A request whose caller gave up (connection      *)
(* reset, client timeout, edge restart) keeps running on the cloud, so     *)
(* several handlers of one event may overlap.                              *)
(*                                                                         *)
(* Events are numbered by the time they occurred.  What an event does on   *)
(* the cloud is abstracted to `applied`, the number of times its effect    *)
(* was committed.                                                          *)
(***************************************************************************)
EXTENDS Naturals, FiniteSets

CONSTANTS
  Events,           \* domain events, a set of naturals: the order of occurredAt
  Rowless,          \* events whose writer creates no outbox row with them
  Poison,           \* events the cloud can never process
  Requests,         \* cloud-side request slots: how many handlers may overlap
  BootstrapLimit,   \* EDGE_CLOUD_PUSH_BOOTSTRAP_LIMIT
  PushLimit,        \* EDGE_CLOUD_PUSH_LIMIT
  MaxFaults,        \* bound on losses, crashes and transient errors
  RetryCap,         \* retryCount is counted up to this bound
  None

ASSUME RequestsAssumption == IsFiniteSet(Requests)
ASSUME EventsAssumption == Events \subseteq Nat /\ IsFiniteSet(Events)
ASSUME RowlessAssumption == Rowless \subseteq Events
ASSUME PoisonAssumption == Poison \subseteq Events
ASSUME LimitAssumption == BootstrapLimit \in Nat /\ PushLimit \in Nat
ASSUME FaultAssumption == MaxFaults \in Nat
ASSUME RetryCapAssumption == RetryCap \in Nat \ {0}
ASSUME NoneAssumption == None \notin Requests

VARIABLES
  recorded,         \* edge: events in the DomainEvent table
  outbox,           \* edge: status of the event's SyncOutbox row
  createdAt,        \* edge: creation order of the row, 0 when there is none
  retryCount,       \* edge: how often a push of the row failed
  waiting,          \* edge: rows whose nextRetryAt has not passed yet
  phase,            \* edge worker: where runOnce stands; "idle" is running = false
  todo,             \* edge worker: what is left of the list it loaded
  awaited,          \* edge worker: the request it awaits an answer of, or None
  reqPc,            \* cloud: where the handler of each request stands
  reqEvent,         \* cloud: the event of each request
  inbox,            \* cloud: status of the event's SyncInbox row
  applied,          \* cloud: how often the event's effect was committed
  faults,           \* how many faults have happened
  slips             \* history: how many of them hit a handler at work

edgeDb == <<recorded, outbox, createdAt, retryCount, waiting>>
worker == <<phase, todo, awaited>>
faultVars == <<faults, slips>>
cloud  == <<reqPc, reqEvent, inbox, applied>>
vars   == <<recorded, outbox, createdAt, retryCount, waiting, phase, todo, awaited,
            reqPc, reqEvent, inbox, applied, faults, slips>>

OutboxStatus == {"NONE", "PENDING", "ACKED"}
InboxStatus  == {"NONE", "RECEIVED", "PROCESSED", "FAILED"}
Phases       == {"idle", "bootstrap", "push", "await"}

\* "ok", "rejected" and "reset" are the ends a caller may see: a 200 with a
\* processed result, one with a failed result, and a broken connection.
Answers == {"ok", "rejected", "reset"}
PcSet   == {"free", "arrived", "processing", "committed", "failing"} \cup Answers

TypeOK ==
  /\ recorded \in SUBSET Events
  /\ outbox \in [Events -> OutboxStatus]
  /\ createdAt \in [Events -> Nat]
  /\ retryCount \in [Events -> 0 .. RetryCap]
  /\ waiting \in SUBSET Events
  /\ phase \in Phases
  /\ todo \in SUBSET Events
  /\ awaited \in Requests \cup {None}
  /\ reqPc \in [Requests -> PcSet]
  /\ reqEvent \in [Requests -> Events]
  /\ inbox \in [Events -> InboxStatus]
  /\ applied \in [Events -> Nat]
  /\ faults \in Nat
  /\ slips \in Nat

Init ==
  /\ recorded = {}
  /\ outbox = [e \in Events |-> "NONE"]
  /\ createdAt = [e \in Events |-> 0]
  /\ retryCount = [e \in Events |-> 0]
  /\ waiting = {}
  /\ phase = "idle"
  /\ todo = {}
  /\ awaited = None
  /\ reqPc = [r \in Requests |-> "free"]
  /\ reqEvent \in [Requests -> Events]
  /\ inbox = [e \in Events |-> "NONE"]
  /\ applied = [e \in Events |-> 0]
  /\ faults = 0
  /\ slips = 0

\* A fault is a slip when it leaves a handler between its first and its last
\* write on its own, or cuts it off there.
Fault(slip) ==
  /\ faults < MaxFaults
  /\ faults' = faults + 1
  /\ slips' = IF slip THEN slips + 1 ELSE slips

AtWork(r) == reqPc[r] \in {"arrived", "processing", "committed", "failing"}

---------------------------------------------------------------------------
(* The edge's database.                                                    *)

\* findMany with orderBy and take: the k members of S that come first by key.
FirstBy(key, k, S) ==
  {e \in S : Cardinality({f \in S : key[f] < key[e]}) < k}

Earliest(key, S) == {e \in S : \A f \in S : key[e] <= key[f]}

OccurredAt == [e \in Events |-> e]

RowCount == Cardinality({e \in Events : createdAt[e] # 0})

\* syncOutbox.create: PENDING, no nextRetryAt.
CreateRow(e) ==
  /\ outbox' = [outbox EXCEPT ![e] = "PENDING"]
  /\ createdAt' = [createdAt EXCEPT ![e] = RowCount + 1]

\* Writers that nest the outbox row in domainEvent.create: the session entry
\* and exit writers, the sensor event writer.  Event and row appear together.
RecordWithRow(e) ==
  /\ e \notin recorded
  /\ e \notin Rowless
  /\ recorded' = recorded \cup {e}
  /\ CreateRow(e)
  /\ UNCHANGED <<retryCount, waiting, worker, cloud, faultVars>>

\* SensorIngestService.createDomainEvent writes the unpaid exit alone and
\* leaves the row to the worker's bootstrap.
RecordWithoutRow(e) ==
  /\ e \notin recorded
  /\ e \in Rowless
  /\ recorded' = recorded \cup {e}
  /\ UNCHANGED <<outbox, createdAt, retryCount, waiting, worker, cloud, faultVars>>

\* The clock passes the row's nextRetryAt.
RetryDue(e) ==
  /\ e \in waiting
  /\ waiting' = waiting \ {e}
  /\ UNCHANGED <<recorded, outbox, createdAt, retryCount, worker, cloud, faultVars>>

---------------------------------------------------------------------------
(* The worker: runOnce.                                                    *)

\* The interval timer or the run-once endpoint; a call that finds `running`
\* set returns at once.  The first query of the run is the bootstrap's: the
\* earliest events of the listed types, whether they have a row or not.
StartRun ==
  /\ phase = "idle"
  /\ phase' = "bootstrap"
  /\ todo' = FirstBy(OccurredAt, BootstrapLimit, recorded)
  /\ UNCHANGED <<edgeDb, awaited, cloud, faultVars>>

\* One turn of the bootstrap loop: create the row unless there is one.
BootstrapNext ==
  /\ phase = "bootstrap"
  /\ \E e \in Earliest(OccurredAt, todo) :
       /\ todo' = todo \ {e}
       /\ IF outbox[e] = "NONE"
          THEN CreateRow(e)
          ELSE UNCHANGED <<outbox, createdAt>>
  /\ UNCHANGED <<recorded, retryCount, waiting, phase, awaited, cloud, faultVars>>

\* Slip, for the mutation runs: a row that failed once is left out.
DueRowsNeverTried == {e \in Events : outbox[e] = "PENDING" /\ retryCount[e] = 0}

DueRows == {e \in Events : outbox[e] = "PENDING" /\ e \notin waiting}

\* findPendingOutboxMessages: the oldest due rows, loaded once for the run.
LoadPending ==
  /\ phase = "bootstrap"
  /\ todo = {}
  /\ phase' = "push"
  /\ todo' = FirstBy(createdAt, PushLimit, DueRows)
  /\ UNCHANGED <<edgeDb, awaited, cloud, faultVars>>

\* pushOneOutbox posts the next row of the list.  The request reaches the
\* cloud or, a fault, is lost on the way.
Post(r) ==
  /\ phase = "push"
  /\ reqPc[r] = "free"
  /\ \E e \in Earliest(createdAt, todo) :
       /\ todo' = todo \ {e}
       /\ reqEvent' = [reqEvent EXCEPT ![r] = e]
  /\ awaited' = r
  /\ phase' = "await"
  /\ \/ /\ reqPc' = [reqPc EXCEPT ![r] = "arrived"]
        /\ UNCHANGED faultVars
     \/ /\ reqPc' = [reqPc EXCEPT ![r] = "reset"]
        /\ Fault(FALSE)
  /\ UNCHANGED <<edgeDb, inbox, applied>>

\* The await ends: back to the loop, the slot of an answered request is free.
EndAwait(pc) ==
  /\ phase' = "push"
  /\ awaited' = None
  /\ reqPc' = [reqPc EXCEPT ![awaited] = pc]
  /\ UNCHANGED <<todo, reqEvent, inbox, applied>>

\* markOutboxAcked
PushAcked ==
  /\ phase = "await"
  /\ reqPc[awaited] = "ok"
  /\ outbox' = [outbox EXCEPT ![reqEvent[awaited]] = "ACKED"]
  /\ EndAwait("free")
  /\ UNCHANGED <<recorded, createdAt, retryCount, waiting, faultVars>>

\* markOutboxFailed: PENDING again, whatever the row said, and due later.
MarkOutboxFailed(e) ==
  /\ outbox' = [outbox EXCEPT ![e] = "PENDING"]
  /\ retryCount' = [retryCount EXCEPT ![e] = IF @ < RetryCap THEN @ + 1 ELSE @]
  /\ waiting' = waiting \cup {e}
  /\ UNCHANGED <<recorded, createdAt>>

\* An answer whose result names a failure, or a broken connection.
PushRejected ==
  /\ phase = "await"
  /\ reqPc[awaited] \in {"rejected", "reset"}
  /\ MarkOutboxFailed(reqEvent[awaited])
  /\ EndAwait("free")
  /\ UNCHANGED faultVars

\* fetch throws although the cloud has the request: a timeout or a lost
\* answer.  A handler that is not done keeps running with nobody waiting.
PushTimedOut ==
  /\ phase = "await"
  /\ reqPc[awaited] # "reset"
  /\ MarkOutboxFailed(reqEvent[awaited])
  /\ EndAwait(IF reqPc[awaited] \in Answers THEN "free" ELSE reqPc[awaited])
  /\ Fault(AtWork(awaited))

\* The list is done: `running` is cleared in the finally block.
EndRun ==
  /\ phase = "push"
  /\ todo = {}
  /\ phase' = "idle"
  /\ UNCHANGED <<edgeDb, todo, awaited, cloud, faultVars>>

\* The edge process restarts, or a local query throws out of the loop: the
\* list and the awaited call are forgotten, the database is as it was left.
AbortRun ==
  /\ phase # "idle"
  /\ phase' = "idle"
  /\ todo' = {}
  /\ awaited' = None
  /\ reqPc' = [r \in Requests |->
                 IF r = awaited /\ reqPc[r] \in Answers THEN "free" ELSE reqPc[r]]
  /\ Fault(awaited # None /\ AtWork(awaited))
  /\ UNCHANGED <<edgeDb, reqEvent, inbox, applied>>

---------------------------------------------------------------------------
(* The cloud: pushFromEdge and processEdgeEvent.                           *)

\* A handler that ends answers its caller, if the caller is still there.
Finish(r, answer) ==
  reqPc' = [reqPc EXCEPT ![r] = IF r = awaited THEN answer ELSE "free"]

\* Slip, for the mutation runs: no look at the status the inbox row already has.
ReceiveAgain(r) ==
  /\ reqPc[r] = "arrived"
  /\ inbox' = [inbox EXCEPT ![reqEvent[r]] = IF @ = "NONE" THEN "RECEIVED" ELSE @]
  /\ reqPc' = [reqPc EXCEPT ![r] = "processing"]
  /\ UNCHANGED <<edgeDb, worker, reqEvent, applied, faultVars>>

\* syncInbox.upsert: a new row is RECEIVED, an old one keeps its status, and
\* a PROCESSED one answers ALREADY_PROCESSED.
ReceiveNew(r) ==
  LET e == reqEvent[r] IN
  /\ reqPc[r] = "arrived"
  /\ inbox[e] # "PROCESSED"
  /\ inbox' = [inbox EXCEPT ![e] = IF @ = "NONE" THEN "RECEIVED" ELSE @]
  /\ reqPc' = [reqPc EXCEPT ![r] = "processing"]
  /\ UNCHANGED <<edgeDb, worker, reqEvent, applied, faultVars>>

ReceiveProcessed(r) ==
  /\ reqPc[r] = "arrived"
  /\ inbox[reqEvent[r]] = "PROCESSED"
  /\ Finish(r, "ok")
  /\ UNCHANGED <<edgeDb, worker, reqEvent, inbox, applied, faultVars>>

\* The switch of processEdgeEvent carries out the event and commits.
Apply(r) ==
  LET e == reqEvent[r] IN
  /\ reqPc[r] = "processing"
  /\ e \notin Poison
  /\ applied' = [applied EXCEPT ![e] = @ + 1]
  /\ reqPc' = [reqPc EXCEPT ![r] = "committed"]
  /\ UNCHANGED <<edgeDb, worker, reqEvent, inbox, faultVars>>

\* The handler throws: always for an event the cloud refuses, now and then
\* for any event, before or after its effect was committed.
Throw(r) ==
  /\ \/ /\ reqPc[r] = "processing"
        /\ reqEvent[r] \in Poison
        /\ UNCHANGED faultVars
     \/ /\ reqPc[r] \in {"processing", "committed"}
        /\ Fault(reqPc[r] = "committed")
  /\ reqPc' = [reqPc EXCEPT ![r] = "failing"]
  /\ UNCHANGED <<edgeDb, worker, reqEvent, inbox, applied>>

MarkInboxProcessed(r) ==
  /\ reqPc[r] = "committed"
  /\ inbox' = [inbox EXCEPT ![reqEvent[r]] = "PROCESSED"]
  /\ Finish(r, "ok")
  /\ UNCHANGED <<edgeDb, worker, reqEvent, applied, faultVars>>

\* Slip, for the mutation runs: the caught error is answered as a success.
MarkInboxFailedQuietly(r) ==
  /\ reqPc[r] = "failing"
  /\ inbox' = [inbox EXCEPT ![reqEvent[r]] = "FAILED"]
  /\ Finish(r, "ok")
  /\ UNCHANGED <<edgeDb, worker, reqEvent, applied, faultVars>>

MarkInboxFailed(r) ==
  /\ reqPc[r] = "failing"
  /\ inbox' = [inbox EXCEPT ![reqEvent[r]] = "FAILED"]
  /\ Finish(r, "rejected")
  /\ UNCHANGED <<edgeDb, worker, reqEvent, applied, faultVars>>

\* The cloud process restarts: every handler is gone, the caller sees a reset.
CloudCrash ==
  /\ reqPc' = [r \in Requests |-> IF r = awaited THEN "reset" ELSE "free"]
  /\ Fault(\E r \in Requests : AtWork(r))
  /\ UNCHANGED <<edgeDb, worker, reqEvent, inbox, applied>>

---------------------------------------------------------------------------
Record == \E e \in Events : RecordWithRow(e) \/ RecordWithoutRow(e)

Handler(r) ==
  \/ ReceiveNew(r) \/ ReceiveProcessed(r) \/ Apply(r) \/ Throw(r)
  \/ MarkInboxProcessed(r) \/ MarkInboxFailed(r)

Worker ==
  \/ StartRun \/ BootstrapNext \/ LoadPending \/ EndRun
  \/ PushAcked \/ PushRejected
  \/ \E r \in Requests : Post(r)

Next ==
  \/ Record
  \/ \E e \in Events : RetryDue(e)
  \/ Worker
  \/ \E r \in Requests : Handler(r)
  \/ PushTimedOut
  \/ AbortRun
  \/ CloudCrash

Spec == Init /\ [][Next]_vars

(***************************************************************************)
(* setInterval keeps starting runs and a run's awaits are answered, so the *)
(* worker never stops for ever; the cloud runs the handlers it started;    *)
(* the clock passes every nextRetryAt.  Nothing obliges a fault to happen. *)
(***************************************************************************)
Fairness ==
  /\ WF_vars(Worker)
  /\ \A r \in Requests : WF_vars(Handler(r))
  /\ \A e \in Events : WF_vars(RetryDue(e))

FairSpec == Spec /\ Fairness

---------------------------------------------------------------------------
(* Safety.                                                                 *)

\* The edge takes an event off its list only when the cloud has carried it
\* out: no loss, crash, retry or overlapping handler makes markOutboxAcked
\* run for an event whose effect was never committed.
AckedWasApplied == \A e \in Events : outbox[e] = "ACKED" => applied[e] > 0

\* markOutboxFailed writes PENDING without looking at the row; because runs
\* are single-flight and the list holds each row once, no late failure ever
\* reopens an acknowledged event.
AckedIsFinal ==
  [][\A e \in Events : outbox[e] = "ACKED" => outbox'[e] = "ACKED"]_vars

\* The inbox makes retries harmless: an effect is committed once, plus at
\* most once for each fault that hit a handler at work.  A request lost on
\* its way and an answer lost on its way back never repeat anything.
RepeatsCostSlips == \A e \in Events : applied[e] <= 1 + slips

\* The abstract promise: recorded, then delivered, then acknowledged.
Delivery == INSTANCE EventDelivery WITH
  delivered <- {e \in Events : applied[e] > 0},
  acked     <- {e \in Events : outbox[e] = "ACKED"}

DeliversEvents == Delivery!Spec

---------------------------------------------------------------------------
(* The inductive invariant behind the safety properties.                   *)

\* Whoever says that an event is done - the outbox, the inbox, a handler
\* past its commit, an answer - says so of an event that was applied.
ClaimsAreTrue ==
  /\ AckedWasApplied
  /\ \A e \in Events : inbox[e] = "PROCESSED" => applied[e] > 0
  /\ \A r \in Requests : reqPc[r] \in {"committed", "ok"} => applied[reqEvent[r]] > 0

\* Whoever works on an event works on one the edge has recorded.
WorkIsRecorded ==
  /\ \A e \in Events : outbox[e] # "NONE" => e \in recorded
  /\ todo \subseteq recorded
  /\ \A r \in Requests : reqPc[r] # "free" => reqEvent[r] \in recorded

\* The worker holds every row of its list, and the row of the request it
\* awaits, as PENDING; no row is held twice.
WorkerHoldsPending ==
  /\ phase = "await" <=> awaited # None
  /\ phase \in {"push", "await"} => \A e \in todo : outbox[e] = "PENDING"
  /\ awaited # None =>
       /\ reqPc[awaited] # "free"
       /\ outbox[reqEvent[awaited]] = "PENDING"
       /\ reqEvent[awaited] \notin todo

\* What the proofs carry from step to step.
IInv == TypeOK /\ ClaimsAreTrue /\ WorkIsRecorded /\ WorkerHoldsPending

\* Handlers nobody waits for that may still commit the event's effect, or make the inbox
\* row FAILED and so let a later push commit it.  Each was left alone by a slip.
Owing(e) ==
  {r \in Requests \ {awaited} :
     reqEvent[r] = e /\ reqPc[r] \in {"arrived", "processing", "failing"}}

\* The one effect that costs nothing: it was committed by a handler that was waited for,
\* and the inbox says so or is about to.
Spare(e) ==
  IF awaited # None /\ reqEvent[awaited] = e
       /\ reqPc[awaited] \in {"processing", "committed", "failing"}
  THEN IF reqPc[awaited] = "committed" THEN 1 ELSE 0
  ELSE IF inbox[e] = "PROCESSED" THEN 1 ELSE 0

\* Effects that were committed, and those to come of handlers left alone, are paid for.
RepeatsArePaid == \A e \in Events : applied[e] + Cardinality(Owing(e)) <= slips + Spare(e)

---------------------------------------------------------------------------
(* Liveness.                                                               *)

\* An event the cloud can process is acknowledged in the end, although an
\* event it always refuses is retried for ever in front of it; the `running` flag
\* of a run that has lost its connection does not block the later ones.
EventuallyAcked ==
  \A e \in Events \ Poison : (e \in recorded) ~> (outbox[e] = "ACKED")

\* What the unpaid exit's writer states in its event (syncRequired: true): an
\* event recorded without a row reaches the cloud as well, by the bootstrap.
SyncRequiredReachesCloud ==
  \A e \in Rowless \ Poison : (e \in recorded) ~> (outbox[e] = "ACKED")
=============================================================================
