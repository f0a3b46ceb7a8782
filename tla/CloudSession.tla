---------------------------- MODULE CloudSession ----------------------------
(***************************************************************************)
(* What the cloud does to a parking session, and to the space it stands    *)
(* on, when the events of an edge node arrive: processEdgeEvent and the    *)
(* handlers of entry, exit, unpaid exit and space status.  Each handler    *)
(* reads the session, decides, and writes in later statements.  Besides    *)
(* them somebody pays on the cloud, which writes the same session.         *)
(*                                                                         *)
(* EdgeCloudPush shows how events come: one at a time, oldest first, but a *)
(* failed one is passed by younger ones, and a handler the worker has      *)
(* given up goes on beside the next.                                       *)
(***************************************************************************)
EXTENDS Naturals, Sequences

CONSTANTS
  Sessions,         \* visits of one parking space
  Feed,             \* the events of the edge in the order of their rows
  PaidExits,        \* those whose edge invoice is PAID
  Registered,       \* visits of cars with an account, which can pay while parked
  Handlers,         \* requests that may overlap on the cloud
  MaxFaults,        \* bound on errors, restarts and timeouts
  None

Events == DOMAIN Feed

ASSUME FeedAssumption ==
  Feed \in Seq([kind   : {"ENTERED", "EXITED", "UNPAID", "SPACE"},
                visit  : Sessions,
                at     : Nat \ {0},                      \* occurredAt
                status : {"ACTIVE", "CLOSED", "PAID", "EMPTY", "OCCUPIED"}])
\* What the edge reports with each kind, and that a visit ends after it began.
ASSUME PayloadAssumption ==
  \A d, e \in Events :
     /\ Feed[e].status \in CASE Feed[e].kind = "ENTERED" -> {"ACTIVE"}
                             [] Feed[e].kind = "EXITED"  -> {"CLOSED", "PAID"}
                             [] Feed[e].kind = "UNPAID"  -> {"CLOSED"}
                             [] Feed[e].kind = "SPACE"   -> {"EMPTY", "OCCUPIED"}
     /\ Feed[d].visit = Feed[e].visit /\ Feed[d].kind = "ENTERED" /\ Feed[e].kind = "EXITED"
        => Feed[d].at < Feed[e].at
ASSUME BoundsAssumption == MaxFaults \in Nat /\ None \notin Handlers \cup Sessions

VARIABLES
  session,          \* cloud: status, exit time and edgeLastSessionEventAt
  space,            \* cloud: status of the parking space
  invoiced,         \* cloud: sessions with an unpaid invoice
  processed,        \* cloud: events whose inbox row says PROCESSED
  task,             \* cloud: what each handler is at
  payer,            \* cloud: the session a payment is at, what it read, what it gives
  waiting,          \* edge worker: the handler whose answer it awaits
  acked,            \* edge worker: events that are done
  tried,            \* edge worker: events a push of which failed
  faults,
  reached,          \* history: the last event ever delivered
  written,          \* history: events that have written the space
  exited,           \* history: sessions an EXITED event has been applied to
  overlapped,       \* history: sessions two of whose writers ran at once
  inverted          \* history: an event came after a younger one, or beside another

cloud   == <<session, space, invoiced, processed>>
worker  == <<waiting, acked, tried>>
history == <<reached, written, exited, overlapped, inverted>>
vars    == <<session, space, invoiced, processed, task, payer, waiting, acked, tried,
             faults, reached, written, exited, overlapped, inverted>>

\* exit and clock are 0 when there is none.
SessionRows == [status : {"none", "ACTIVE", "CLOSED", "PAID"}, exit : Nat, clock : Nat]
Missing == [status |-> "none", exit |-> 0, clock |-> 0]

Idle == [pc |-> "idle", event |-> 0, seen |-> Missing]
NoPayer == [visit |-> None, seen |-> Missing, gives |-> "PAID"]

TypeOK ==
  /\ session \in [Sessions -> SessionRows]
  /\ space \in {"EMPTY", "OCCUPIED"}
  /\ invoiced \in SUBSET Sessions
  /\ processed \in SUBSET Events
  /\ task \in [Handlers -> [pc    : {"idle", "read", "apply", "reread", "invoice", "mark"},
                            event : Events \cup {0},
                            seen  : SessionRows]]
  /\ payer \in [visit : Sessions \cup {None}, seen : SessionRows,
                gives : {"ACTIVE", "PAID"}]
  /\ waiting \in Handlers \cup {None}
  /\ acked \in SUBSET Events
  /\ tried \in SUBSET Events
  /\ faults \in Nat
  /\ reached \in Events \cup {0}
  /\ written \in SUBSET Events
  /\ exited \in SUBSET Sessions
  /\ overlapped \in SUBSET Sessions
  /\ inverted \in BOOLEAN

Init ==
  /\ session = [v \in Sessions |-> Missing]
  /\ space = "EMPTY"
  /\ invoiced = {}
  /\ processed = {}
  /\ task = [h \in Handlers |-> Idle]
  /\ payer = NoPayer
  /\ waiting = None
  /\ acked = {}
  /\ tried = {}
  /\ faults = 0
  /\ reached = 0
  /\ written = {}
  /\ exited = {}
  /\ overlapped = {}
  /\ inverted = FALSE

---------------------------------------------------------------------------
(* Delivery.                                                               *)

Busy(h) == task[h].pc # "idle"
About(h) == Feed[task[h].event].visit
WorksOn(h, v) == Busy(h) /\ Feed[task[h].event].kind # "SPACE" /\ About(h) = v

\* An event the inbox knows is answered at once.
Deliver(h, e) ==
  /\ waiting = None
  /\ ~Busy(h)
  /\ e \notin acked
  /\ \A d \in Events : d < e => d \in acked \cup tried
  /\ reached' = IF e > reached THEN e ELSE reached
  /\ IF e \in processed
     THEN /\ acked' = acked \cup {e}
          /\ UNCHANGED <<task, waiting, overlapped, inverted>>
     ELSE /\ task' = [task EXCEPT ![h] = [pc |-> "read", event |-> e, seen |-> Missing]]
          /\ waiting' = h
          /\ overlapped' =
               IF /\ Feed[e].kind # "SPACE"
                  /\ \/ payer.visit = Feed[e].visit
                     \/ \E g \in Handlers : WorksOn(g, Feed[e].visit)
               THEN overlapped \cup {Feed[e].visit}
               ELSE overlapped
          /\ inverted' = (inverted \/ e < reached \/ \E g \in Handlers : Busy(g))
          /\ UNCHANGED acked
  /\ UNCHANGED <<cloud, payer, tried, faults, written, exited>>

At(h, pc, kinds) == task[h].pc = pc /\ Feed[task[h].event].kind \in kinds

\* The handler goes on at pc with what it has read.
Go(h, pc, row) == task' = [task EXCEPT ![h].pc = pc, ![h].seen = row]

\* The catch of processEdgeEvent: markInboxFailed, whatever the row says.
Fail(h) ==
  /\ processed' = processed \ {task[h].event}
  /\ tried' = IF waiting = h THEN tried \cup {task[h].event} ELSE tried
  /\ waiting' = IF waiting = h THEN None ELSE waiting
  /\ task' = [task EXCEPT ![h] = Idle]

---------------------------------------------------------------------------
(* applyEdgeParkingSessionEvent.                                           *)

\* Slip, for the mutation runs: no event is stale.
StaleNever(row, e) == FALSE

Stale(row, e) == row.clock > Feed[e].at

\* An event older than the last applied one is only marked as processed; the
\* unpaid exit (updateCloudParkingSessionFromEdge) does not ask.
ReadSession(h) ==
  LET e == task[h].event  row == session[About(h)] IN
  /\ At(h, "read", {"ENTERED", "EXITED", "UNPAID"})
  /\ Go(h, IF Feed[e].kind # "UNPAID" /\ Stale(row, e) THEN "mark" ELSE "apply", row)
  /\ UNCHANGED <<cloud, payer, worker, faults, history>>

\* An entry keeps the exit time it has read.
Applied(row, e) ==
  [status |-> Feed[e].status,
   exit   |-> IF Feed[e].kind = "ENTERED" THEN row.exit ELSE Feed[e].at,
   clock  |-> Feed[e].at]

\* A row that was not there when it was read and is now: the create throws.
CreateClashes(h) ==
  task[h].seen.status = "none" /\ session[About(h)].status # "none"

WriteSpace(status, e) ==
  /\ space' = status
  /\ written' = written \cup {e}

\* Slip, for the mutation runs: the exit does not free the space.
ApplySessionOnly(h) ==
  LET e == task[h].event  v == About(h) IN
  /\ At(h, "apply", {"ENTERED", "EXITED"})
  /\ ~CreateClashes(h)
  /\ session' = [session EXCEPT ![v] = Applied(task[h].seen, e)]
  /\ IF Feed[e].kind = "ENTERED" THEN WriteSpace("OCCUPIED", e)
     ELSE UNCHANGED space /\ written' = written \cup {e}
  /\ exited' = IF Feed[e].kind = "EXITED" THEN exited \cup {v} ELSE exited
  /\ Go(h, IF e \in PaidExits THEN "reread" ELSE "mark", Missing)
  /\ UNCHANGED <<invoiced, processed, payer, worker, faults, reached, overlapped, inverted>>

\* Session and space in one transaction.
ApplySession(h) ==
  LET e == task[h].event  v == About(h) IN
  /\ At(h, "apply", {"ENTERED", "EXITED"})
  /\ ~CreateClashes(h)
  /\ session' = [session EXCEPT ![v] = Applied(task[h].seen, e)]
  /\ WriteSpace(IF Feed[e].kind = "ENTERED" THEN "OCCUPIED" ELSE "EMPTY", e)
  /\ exited' = IF Feed[e].kind = "EXITED" THEN exited \cup {v} ELSE exited
  /\ Go(h, IF e \in PaidExits THEN "reread" ELSE "mark", Missing)
  /\ UNCHANGED <<invoiced, processed, payer, worker, faults, reached, overlapped, inverted>>

---------------------------------------------------------------------------
(* createCloudInvoiceForEdgePaidExit and                                   *)
(* createCloudInvoiceForEdgeUnpaidExit.                                    *)

\* The paid exit reads the session again before it makes the invoice.
Reread(h) ==
  /\ At(h, "reread", {"EXITED"})
  /\ Go(h, "invoice", session[About(h)])
  /\ UNCHANGED <<cloud, payer, worker, faults, history>>

\* Slip, for the mutation runs: the session's metadata is not carried over.
UnpaidRowFresh(row, e) ==
  [status |-> "CLOSED", exit |-> Feed[e].at, clock |-> 0]

\* The session is closed at once; its metadata, and with it the clock, stays.
UnpaidRow(row, e) ==
  [status |-> "CLOSED", exit |-> Feed[e].at, clock |-> row.clock]

\* ensureCloudParkingSessionFromEdge.  The space is left alone.
ApplyUnpaid(h) ==
  LET row == UnpaidRow(task[h].seen, task[h].event)  v == About(h) IN
  /\ At(h, "apply", {"UNPAID"})
  /\ ~CreateClashes(h)
  /\ session' = [session EXCEPT ![v] = row]
  /\ Go(h, "invoice", row)
  /\ UNCHANGED <<space, invoiced, processed, payer, worker, faults, history>>

\* The invoice is written and the session's metadata is written back as read.
AddInvoice(h) ==
  LET v == About(h) IN
  /\ At(h, "invoice", {"EXITED", "UNPAID"})
  /\ session' = [session EXCEPT ![v].clock = task[h].seen.clock]
  /\ invoiced' = IF Feed[task[h].event].kind = "UNPAID" THEN invoiced \cup {v}
                                                        ELSE invoiced
  /\ Go(h, "mark", Missing)
  /\ UNCHANGED <<space, processed, payer, worker, faults, history>>

---------------------------------------------------------------------------
(* The other handlers' steps.                                              *)

\* applyEdgeSensorEvent: no look at the time of the report.
ApplySpace(h) ==
  LET e == task[h].event IN
  /\ At(h, "read", {"SPACE"})
  /\ WriteSpace(Feed[e].status, e)
  /\ Go(h, "mark", Missing)
  /\ UNCHANGED <<session, invoiced, processed, payer, worker, faults, reached, exited,
                 overlapped, inverted>>

Clash(h) ==
  /\ At(h, "apply", {"ENTERED", "EXITED", "UNPAID"})
  /\ CreateClashes(h)
  /\ Fail(h)
  /\ UNCHANGED <<session, space, invoiced, payer, acked, faults, history>>

\* A query throws.
Throw(h) ==
  /\ Busy(h)
  /\ faults < MaxFaults
  /\ faults' = faults + 1
  /\ Fail(h)
  /\ UNCHANGED <<session, space, invoiced, payer, acked, history>>

\* The cloud process restarts: handlers and payments stop where they are.
Restart ==
  /\ task' = [h \in Handlers |-> Idle]
  /\ payer' = NoPayer
  /\ tried' = IF waiting = None THEN tried ELSE tried \cup {task[waiting].event}
  /\ waiting' = None
  /\ faults < MaxFaults
  /\ faults' = faults + 1
  /\ UNCHANGED <<cloud, acked, history>>

\* markInboxProcessed and the answer.
Mark(h) ==
  /\ task[h].pc = "mark"
  /\ processed' = processed \cup {task[h].event}
  /\ acked' = IF waiting = h THEN acked \cup {task[h].event} ELSE acked
  /\ waiting' = IF waiting = h THEN None ELSE waiting
  /\ task' = [task EXCEPT ![h] = Idle]
  /\ UNCHANGED <<session, space, invoiced, payer, tried, faults, history>>

\* The worker gives the handler up; the handler goes on.
TimeOut(h) ==
  /\ waiting = h
  /\ waiting' = None
  /\ tried' = tried \cup {task[h].event}
  /\ faults < MaxFaults
  /\ faults' = faults + 1
  /\ UNCHANGED <<cloud, task, payer, acked, history>>

---------------------------------------------------------------------------
(* Payments on the cloud: the session is read, and after the invoice has   *)
(* been paid it is written with the metadata as read.                      *)

PayRead(v, gives) ==
  /\ payer = NoPayer
  /\ payer' = [visit |-> v, seen |-> session[v], gives |-> gives]
  /\ overlapped' = IF \E h \in Handlers : WorksOn(h, v) THEN overlapped \cup {v}
                                                        ELSE overlapped
  /\ UNCHANGED <<session, space, processed, task, worker, faults, reached, written,
                 exited, inverted>>

\* mockPayInvoice: the unpaid invoice in full.
PayInvoice(v) ==
  /\ v \in invoiced
  /\ invoiced' = invoiced \ {v}
  /\ PayRead(v, "PAID")

\* mockCompleteSessionPayment of a parked car: the status stays as read.
PayBeforeExit(v) ==
  /\ v \in Registered
  /\ session[v].status = "ACTIVE"
  /\ PayRead(v, "ACTIVE")
  /\ UNCHANGED invoiced

PayWrite(v) ==
  /\ payer.visit = v
  /\ session' = [session EXCEPT ![v].status = payer.gives,
                                ![v].clock = payer.seen.clock]
  /\ payer' = NoPayer
  /\ UNCHANGED <<space, invoiced, processed, task, worker, faults, history>>

---------------------------------------------------------------------------
Handler(h) ==
  \/ ReadSession(h) \/ ApplySession(h) \/ Reread(h) \/ ApplyUnpaid(h) \/ AddInvoice(h)
  \/ ApplySpace(h) \/ Clash(h) \/ Mark(h)

Next ==
  \/ \E h \in Handlers : (\E e \in Events : Deliver(h, e)) \/ Handler(h)
  \/ \E h \in Handlers : Throw(h) \/ TimeOut(h)
  \/ Restart
  \/ \E v \in Sessions : PayInvoice(v) \/ PayBeforeExit(v) \/ PayWrite(v)

Spec == Init /\ [][Next]_vars

\* Handlers and payments run on, and the worker pushes every event again until
\* it is done (EventuallyAcked of EdgeCloudPush).
FairSpec ==
  /\ Spec
  /\ \A h \in Handlers : WF_vars(Handler(h))
  /\ \A v \in Sessions : WF_vars(PayWrite(v))
  /\ \A e \in Events : SF_vars(\E h \in Handlers : Deliver(h, e))

---------------------------------------------------------------------------
(* Safety.                                                                 *)

\* Once its exit has been applied a session is not ACTIVE any more and keeps an
\* exit time, in whatever order and however often its entry, exit and unpaid
\* exit come; only two writers of one session at once can reopen it.
ExitedStaysClosed ==
  \A v \in exited \ overlapped :
     session[v].status \in {"CLOSED", "PAID"} /\ session[v].exit # 0

\* The edge drops an exit only when the cloud has applied it: no failure,
\* restart or answer from the inbox loses an exit.
AckedExitWasApplied ==
  \A e \in acked : Feed[e].kind = "EXITED" => Feed[e].visit \in exited

\* What the space shows once event e has written it.
Shows(e) ==
  CASE Feed[e].kind = "ENTERED" -> "OCCUPIED"
    [] Feed[e].kind = "EXITED"  -> "EMPTY"
    [] OTHER                    -> Feed[e].status

\* Errors, restarts and lost answers do not leave the space with an older
\* status, as long as no event has come after a younger one or beside another.
SpaceShowsNewest ==
  ~inverted /\ written # {} =>
    space = Shows(CHOOSE d \in written : \A f \in written : f <= d)

---------------------------------------------------------------------------
(* The inductive invariant behind ExitedStaysClosed.                       *)

\* A session whose writers never ran at once has one writer at most, and what
\* that has read is what stands there.
OneWriter ==
  \A v \in Sessions \ overlapped :
     /\ \A g, h \in Handlers : WorksOn(g, v) /\ WorksOn(h, v) => g = h
     /\ \A h \in Handlers : WorksOn(h, v) => payer.visit # v
     /\ \A h \in Handlers :
          WorksOn(h, v) /\ task[h].pc \in {"apply", "invoice"} => task[h].seen = session[v]
     /\ payer.visit = v => payer.seen = session[v]

\* The clock of an exited session is past every entry of it, and no handler
\* that read it is about to apply an entry.
ClockPastEntry ==
  \A v \in exited \ overlapped :
     /\ \A e \in Events :
          Feed[e].kind = "ENTERED" /\ Feed[e].visit = v => Feed[e].at < session[v].clock
     /\ \A h \in Handlers : WorksOn(h, v) => ~At(h, "apply", {"ENTERED"})

\* Handlers have events of the kind their step is for, and a payment that keeps
\* a session ACTIVE has read it so.
StepsFit ==
  /\ \A h \in Handlers :
       /\ Busy(h) => task[h].event \in Events
       /\ ~At(h, "apply", {"SPACE"})
       /\ waiting = h => Busy(h)
  /\ payer.visit = None => payer = NoPayer
  /\ payer.gives = "ACTIVE" => payer.seen.status = "ACTIVE"

\* The clock of a session is past an exit of it only when an exit was applied,
\* and so is every clock somebody has read.
ClockKnown ==
  \A v \in Sessions \ exited : \A e \in Events :
     Feed[e].kind = "EXITED" /\ Feed[e].visit = v =>
        /\ session[v].clock < Feed[e].at
        /\ \A h \in Handlers : WorksOn(h, v) => task[h].seen.clock < Feed[e].at
        /\ payer.visit = v => payer.seen.clock < Feed[e].at

\* Exits are behind whatever says an exit is done.
DoneWasApplied ==
  /\ AckedExitWasApplied
  /\ \A e \in processed : Feed[e].kind = "EXITED" => Feed[e].visit \in exited
  /\ \A h \in Handlers :
       task[h].pc \in {"reread", "invoice", "mark"} /\ Feed[task[h].event].kind = "EXITED"
       => About(h) \in exited

IInv ==
  /\ TypeOK /\ StepsFit /\ OneWriter /\ ClockPastEntry /\ ClockKnown /\ DoneWasApplied
  /\ ExitedStaysClosed

---------------------------------------------------------------------------
(* The inductive invariant behind SpaceShowsNewest.                        *)

\* What is at work or done has been delivered, and as long as no event came
\* after a younger one or beside another, the one at work is the youngest.
NewestAtWork ==
  /\ \A e \in processed \cup written : e <= reached
  /\ \A h \in Handlers : Busy(h) =>
       /\ task[h].event <= reached
       /\ ~inverted => task[h].event = reached

\* SpaceShowsNewest, naming the event it chooses.
NewestShown ==
  ~inverted /\ written # {} =>
    \E e \in written : (\A f \in written : f <= e) /\ space = Shows(e)

SpaceInv == NewestAtWork /\ NewestShown

---------------------------------------------------------------------------
(* Liveness.                                                               *)

\* In the end every visit the edge saw the end of is closed on the cloud for
\* good, unless two of its writers ran at once.
EventuallyClosed ==
  \A e \in Events : Feed[e].kind = "EXITED" =>
     <>[](\/ Feed[e].visit \in overlapped
          \/ session[Feed[e].visit].status \in {"CLOSED", "PAID"})
=============================================================================
