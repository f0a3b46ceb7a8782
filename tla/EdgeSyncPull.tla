---------------------------- MODULE EdgeSyncPull ----------------------------
(***************************************************************************)
(* The cloud-to-edge channel.  The cloud writes, for one edge node, a      *)
(* domain event and then an outbox row per message; EdgeSyncWorkerService  *)
(* pulls the oldest pending rows in single-flight runs, applies each to    *)
(* the edge's parking session and acknowledges it.                         *)
(*                                                                         *)
(* A message reports the amounts of a session's cloud invoice as they were *)
(* when its writer read them.  Messages are numbered in the order of these *)
(* reads, so of two messages about a session the larger one is newer; the  *)
(* order of the rows (createdAt) may differ when writers overlap.          *)
(***************************************************************************)
EXTENDS Naturals, FiniteSets

CONSTANTS
  Messages,         \* cloud-to-edge messages, a set of positive naturals
  Sessions,
  About,            \* the session a message is about
  Orphans,          \* messages about a session the edge does not have
  PullLimit,        \* limit of GET /sync/edge/pull
  MaxFaults,        \* bound on losses, crashes and errors
  None

ASSUME MessagesAssumption ==
  Messages \subseteq Nat \ {0} /\ IsFiniteSet(Messages)
ASSUME AboutAssumption == About \in [Messages -> Sessions]
ASSUME OrphansAssumption == Orphans \subseteq Messages
ASSUME LimitAssumption == PullLimit \in Nat /\ MaxFaults \in Nat
ASSUME NoneAssumption == None \notin Messages

VARIABLES
  row,              \* cloud: how far the message is written, then its status
  createdAt,        \* cloud: creation order of the row, 0 when there is none
  acking,           \* cloud: messages with an ack request under way
  phase,            \* edge worker: where runOnce stands; "idle" is running = false
  todo,             \* edge worker: what is left of the pulled list
  current,          \* edge worker: the message between apply and the ack's end
  reply,            \* edge worker: what the awaited ack request came to
  applied,          \* edge: messages whose effect was committed
  holds,            \* edge: the message whose amounts the session shows, or 0
  faults,           \* how many faults have happened
  overlapped,       \* history: sessions two of whose writers ran at once
  handed,           \* history: messages handed to applyCloudMessageOnEdge
  again             \* history: messages handed to it more than once

cloud   == <<row, createdAt, acking>>
worker  == <<phase, todo, current, reply>>
edgeDb  == <<applied, holds>>
history == <<overlapped, handed, again>>
vars    == <<row, createdAt, acking, phase, todo, current, reply, applied, holds,
             faults, overlapped, handed, again>>

\* A message is read off the invoice, written as a domain event, given its
\* outbox row; "lost" is a writer that died before the row.
RowStatus == {"none", "read", "event", "lost", "PENDING", "ACKED"}

TypeOK ==
  /\ row \in [Messages -> RowStatus]
  /\ createdAt \in [Messages -> Nat]
  /\ acking \in SUBSET Messages
  /\ phase \in {"idle", "apply", "post", "ack"}
  /\ todo \in SUBSET Messages
  /\ current \in Messages \cup {None}
  /\ reply \in {"none", "ok", "reset"}
  /\ applied \in SUBSET Messages
  /\ holds \in [Sessions -> Messages \cup {0}]
  /\ faults \in Nat
  /\ overlapped \in SUBSET Sessions
  /\ handed \in SUBSET Messages
  /\ again \in SUBSET Messages

Init ==
  /\ row = [m \in Messages |-> "none"]
  /\ createdAt = [m \in Messages |-> 0]
  /\ acking = {}
  /\ phase = "idle"
  /\ todo = {}
  /\ current = None
  /\ reply = "none"
  /\ applied = {}
  /\ holds = [s \in Sessions |-> 0]
  /\ faults = 0
  /\ overlapped = {}
  /\ handed = {}
  /\ again = {}

Fault == faults < MaxFaults /\ faults' = faults + 1

---------------------------------------------------------------------------
(* The cloud's writers: a payment or an unpaid exit reads the invoice,     *)
(* then createCloudToEdgeOutboxMessage writes the event and then the row.  *)

Siblings(m) == {n \in Messages : About[n] = About[m] /\ n # m}

ReadInvoice(m) ==
  /\ row[m] = "none"
  /\ \A n \in Siblings(m) : n < m => row[n] # "none"
  /\ row' = [row EXCEPT ![m] = "read"]
  /\ overlapped' = IF \E n \in Siblings(m) : row[n] \in {"read", "event"}
                   THEN overlapped \cup {About[m]}
                   ELSE overlapped
  /\ UNCHANGED <<createdAt, acking, worker, edgeDb, faults, handed, again>>

WriteEvent(m) ==
  /\ row[m] = "read"
  /\ row' = [row EXCEPT ![m] = "event"]
  /\ UNCHANGED <<createdAt, acking, worker, edgeDb, faults, history>>

WriteRow(m) ==
  /\ row[m] = "event"
  /\ row' = [row EXCEPT ![m] = "PENDING"]
  /\ createdAt' = [createdAt EXCEPT
       ![m] = Cardinality({n \in Messages : createdAt[n] # 0}) + 1]
  /\ UNCHANGED <<acking, worker, edgeDb, faults, history>>

---------------------------------------------------------------------------
(* The edge worker: runOnce.                                               *)

\* Slip, for the mutation runs: the take is of the newest.
LastBy(key, k, S) ==
  {m \in S : Cardinality({n \in S : key[n] > key[m]}) < k}

\* findMany with orderBy createdAt and take.
FirstBy(key, k, S) ==
  {m \in S : Cardinality({n \in S : key[n] < key[m]}) < k}

\* Slip, for the mutation runs: newest first.
EarliestNewestFirst(S) == {m \in S : \A n \in S : createdAt[n] <= createdAt[m]}

Earliest(S) == {m \in S : \A n \in S : createdAt[m] <= createdAt[n]}

\* pullForEdge: the oldest pending rows of this edge.  No code sets the
\* nextRetryAt of such a row, so all of them are due.  A pull that fails ends
\* the run and leaves everything as it was.
StartRun ==
  /\ phase = "idle"
  /\ phase' = "apply"
  /\ todo' = FirstBy(createdAt, PullLimit, {m \in Messages : row[m] = "PENDING"})
  /\ UNCHANGED <<cloud, current, reply, edgeDb, faults, history>>

\* applyCloudMessageOnEdge is called with m.
Hand(m) ==
  /\ todo' = todo \ {m}
  /\ handed' = handed \cup {m}
  /\ again' = IF m \in handed THEN again \cup {m} ELSE again
  /\ UNCHANGED <<cloud, reply, overlapped>>

\* applyInvoiceCreatedFromCloud and applyInvoicePaymentFromCloud write the
\* message's amounts over the session's, whatever it showed before.
Apply ==
  /\ phase = "apply"
  /\ \E m \in Earliest(todo) :
       /\ m \notin Orphans
       /\ Hand(m)
       /\ applied' = applied \cup {m}
       /\ holds' = [holds EXCEPT ![About[m]] = m]
       /\ current' = m
  /\ phase' = "post"
  /\ UNCHANGED faults

\* LOCAL_SESSION_NOT_FOUND: neither applied nor acknowledged.
SkipOrphan ==
  /\ phase = "apply"
  /\ \E m \in Earliest(todo) : m \in Orphans /\ Hand(m)
  /\ UNCHANGED <<phase, current, edgeDb, faults>>

\* Slip, for the mutation runs: the error of an apply does not keep it from the ack.
ApplyThrowsAcked ==
  /\ phase = "apply"
  /\ \E m \in Earliest(todo) : Hand(m) /\ current' = m
  /\ phase' = "post"
  /\ Fault
  /\ UNCHANGED edgeDb

\* A query of the apply throws: the message is given up for this run.
ApplyThrows ==
  /\ phase = "apply"
  /\ \E m \in Earliest(todo) : Hand(m)
  /\ Fault
  /\ UNCHANGED <<phase, current, edgeDb>>

\* ackToCloud: the request reaches the cloud or, a fault, does not.
PostAck ==
  /\ phase = "post"
  /\ phase' = "ack"
  /\ \/ /\ acking' = acking \cup {current}
        /\ reply' = "none"
        /\ UNCHANGED faults
     \/ /\ reply' = "reset"
        /\ UNCHANGED acking
        /\ Fault
  /\ UNCHANGED <<row, createdAt, todo, current, edgeDb, history>>

\* Slip, for the mutation runs: a broken ack is not caught.
AckEndsOnAnswer ==
  /\ phase = "ack"
  /\ reply = "ok"
  /\ phase' = "apply"
  /\ current' = None
  /\ reply' = "none"
  /\ UNCHANGED <<cloud, todo, edgeDb, faults, history>>

\* Back to the loop, with an answer or with an error that is only logged.
AckEnds ==
  /\ phase = "ack"
  /\ \/ reply # "none" /\ UNCHANGED faults
     \/ Fault
  /\ phase' = "apply"
  /\ current' = None
  /\ reply' = "none"
  /\ UNCHANGED <<cloud, todo, edgeDb, history>>

EndRun ==
  /\ phase = "apply"
  /\ todo = {}
  /\ phase' = "idle"
  /\ UNCHANGED <<cloud, todo, current, reply, edgeDb, faults, history>>

\* The edge process restarts: the run is forgotten.
EdgeRestart ==
  /\ phase # "idle"
  /\ phase' = "idle"
  /\ todo' = {}
  /\ current' = None
  /\ reply' = "none"
  /\ Fault
  /\ UNCHANGED <<cloud, edgeDb, history>>

---------------------------------------------------------------------------
(* The cloud: ackFromEdge, and a restart of its process.                   *)

AckFromEdge(m) ==
  /\ m \in acking
  /\ acking' = acking \ {m}
  /\ row' = [row EXCEPT ![m] = "ACKED"]
  /\ reply' = IF phase = "ack" /\ current = m THEN "ok" ELSE reply
  /\ UNCHANGED <<createdAt, phase, todo, current, edgeDb, faults, history>>

CloudRestart ==
  /\ row' = [m \in Messages |-> IF row[m] \in {"read", "event"} THEN "lost" ELSE row[m]]
  /\ acking' = {}
  /\ reply' = IF phase = "ack" /\ reply = "none" THEN "reset" ELSE reply
  /\ Fault
  /\ UNCHANGED <<createdAt, phase, todo, current, edgeDb, history>>

---------------------------------------------------------------------------
Writer(m) == ReadInvoice(m) \/ WriteEvent(m) \/ WriteRow(m)

Worker == StartRun \/ Apply \/ SkipOrphan \/ PostAck \/ AckEnds \/ EndRun

Next ==
  \/ \E m \in Messages : Writer(m) \/ AckFromEdge(m)
  \/ Worker
  \/ ApplyThrows
  \/ EdgeRestart
  \/ CloudRestart

Spec == Init /\ [][Next]_vars

\* setInterval keeps starting runs, a run's awaits end, and the cloud carries
\* out the ack requests it received.
FairSpec ==
  /\ Spec
  /\ WF_vars(Worker)
  /\ \A m \in Messages : WF_vars(AckFromEdge(m))

---------------------------------------------------------------------------
(* Safety.                                                                 *)

\* The cloud drops a row only when the edge has committed its message: a late
\* ack, a restart or a repeated pull never acknowledges what was not applied.
AckedWasApplied == \A m \in Messages : row[m] = "ACKED" => m \in applied

\* A session shows the newest amounts it was ever given, as long as none of
\* its messages had to be handed over twice and its writers did not overlap.
\* Losses, restarts and errors that hit other messages do not matter.
NewestAmountsShown ==
  \A s \in Sessions \ overlapped :
     (\A m \in again : About[m] # s)
     => \A m \in applied : About[m] = s => m <= holds[s]

\* Messages are handed over in the order of their rows: whatever run a message
\* is part of, every older row has been handed over before it, if only to fail.
NoneSkipped ==
  \A m, n \in Messages :
     /\ createdAt[m] # 0
     /\ createdAt[m] < createdAt[n]
     /\ n \in handed
     => m \in handed

\* Recorded is here written with its row; the rest is the same promise.
Delivery == INSTANCE EventDelivery WITH
  Events    <- Messages,
  recorded  <- {m \in Messages : row[m] \in {"PENDING", "ACKED"}},
  delivered <- applied,
  acked     <- {m \in Messages : row[m] = "ACKED"}

DeliversMessages == Delivery!Spec

---------------------------------------------------------------------------
(* The inductive invariant behind the safety properties.                   *)

\* Whoever is about to acknowledge a message acknowledges an applied one.
AckersAreRight ==
  /\ AckedWasApplied
  /\ acking \subseteq applied
  /\ phase \in {"post", "ack"} => current \in applied

\* What the worker works on has a row.
WorkHasRow ==
  \A m \in todo \cup applied : row[m] \in {"PENDING", "ACKED"}

IInv == TypeOK /\ AckersAreRight /\ WorkHasRow

\* How many rows there are.
Rows == Cardinality({n \in Messages : createdAt[n] # 0})

\* Rows are numbered as they are written, each with a number of its own.
RowsAreNumbered ==
  \A m \in Messages :
     /\ createdAt[m] # 0 <=> row[m] \in {"PENDING", "ACKED"}
     /\ createdAt[m] <= Rows
     /\ \A n \in Messages : createdAt[m] = createdAt[n] /\ createdAt[m] # 0 => m = n

\* A row older than one the worker has yet to work on waits with it, or had its turn.
PulledInOrder ==
  \A n \in todo, m \in Messages :
     createdAt[m] # 0 /\ createdAt[m] < createdAt[n] => m \in todo \cup handed

\* Of writers that did not overlap, the later one starts when the earlier one has
\* written its row or is gone, and so their rows are in the order of their reads.
WritersInOrder ==
  \A m, n \in Messages :
     About[m] = About[n] /\ m < n /\ row[n] # "none" =>
        /\ row[m] # "none"
        /\ About[m] \notin overlapped =>
             /\ row[m] \in {"lost", "PENDING", "ACKED"}
             /\ createdAt[n] # 0 => createdAt[m] < createdAt[n]

OrderInv ==
  /\ RowsAreNumbered /\ PulledInOrder /\ WritersInOrder
  /\ applied \subseteq handed
  /\ \A m \in handed : createdAt[m] # 0
  /\ NoneSkipped /\ NewestAmountsShown

---------------------------------------------------------------------------
(* Liveness.                                                               *)

\* Every written message the edge can apply is acknowledged in the end, as
\* long as fewer messages than PullLimit are ones it can never apply: these
\* stay at the head of every pull.
EventuallyAcked ==
  \A m \in Messages \ Orphans : (row[m] = "PENDING") ~> (row[m] = "ACKED")
=============================================================================
