---------------------------- MODULE SpaceSession ----------------------------
(***************************************************************************)
(* One parking space of the edge.  The sensor daemon posts a request per   *)
(* change of the sensor, without waiting for the last one to be answered;  *)
(* operators enter and exit sessions through the session engine and, where *)
(* the lot is in MANUAL mode, by hand; payments taken by the cloud mark    *)
(* sessions PAID.  Each request reads the sessions of the space, bills,    *)
(* and writes, in separate statements, so the handlers of several requests *)
(* interleave.                                                             *)
(*                                                                         *)
(* Sessions are numbered in the order of their creation (createdAt and     *)
(* entryTime agree with it).  An exit time is named after the slot whose   *)
(* request took it from the clock: once a session has one, no request      *)
(* takes another that has not read the session before.                     *)
(***************************************************************************)
EXTENDS Naturals, FiniteSets

CONSTANTS
  Handlers,         \* request slots: how many requests may overlap
  MaxSessions,      \* bound on the sessions of the space
  MaxFaults,        \* bound on errors and crashes
  None              \* no exit time

ASSUME HandlersAssumption == IsFiniteSet(Handlers) /\ None \notin Handlers
ASSUME BoundAssumption == MaxSessions \in Nat /\ MaxFaults \in Nat

VARIABLES
  space,            \* ParkingSpace.status
  status,           \* ParkingSession.status, "none" before the session exists
  exitTime,         \* ParkingSession.exitTime
  manual,           \* sessions whose entrySource is MANUAL
  entryReported,    \* sessions with an EDGE-SESSION-ENTRY event and outbox row
  exitReports,      \* the exit times a session has an EDGE-SESSION-EXIT event of
  pc,               \* where each handler stands
  found,            \* the session it works on, 0 for none
  readPaid,         \* the session was PAID when the handler read it
  readExit,         \* the exit time of the session when the handler read it
  paying,           \* the session whose partial payment is being applied, or 0
  readStatus,       \* the status the apply of the partial payment read
  faults,           \* how many faults have happened
  peak,             \* history: most handlers that stood before a create at once
  overlapped,       \* history: two requests, or one and the apply of a partial
                    \* payment, were at work at once
  staleExit         \* history: an operator exited a session not the newest

task     == <<pc, found, readPaid, readExit>>
read     == <<readPaid, readExit>>
partial  == <<paying, readStatus>>
sessions == <<status, exitTime, manual, entryReported, exitReports>>
history  == <<peak, overlapped, staleExit>>
vars     == <<space, status, exitTime, manual, entryReported, exitReports, pc, found,
              readPaid, readExit, paying, readStatus, faults, peak, overlapped,
              staleExit>>

Sessions == 1 .. MaxSessions
Labels   == {"idle", "enter", "leave", "occupy", "clear", "create", "register", "report",
             "bill", "close", "dismiss", "finalize", "collect", "refresh", "tell"}

TypeOK ==
  /\ space \in {"EMPTY", "OCCUPIED"}
  /\ status \in [Sessions -> {"none", "ACTIVE", "PAID", "CLOSED"}]
  /\ exitTime \in [Sessions -> Handlers \cup {None}]
  /\ manual \in SUBSET Sessions
  /\ entryReported \in SUBSET Sessions
  /\ exitReports \in [Sessions -> SUBSET Handlers]
  /\ pc \in [Handlers -> Labels]
  /\ found \in [Handlers -> 0 .. MaxSessions]
  /\ readPaid \in SUBSET Handlers
  /\ readExit \in [Handlers -> Handlers \cup {None}]
  /\ paying \in 0 .. MaxSessions
  /\ readStatus \in {"none", "ACTIVE", "PAID", "CLOSED"}
  /\ faults \in Nat
  /\ peak \in Nat
  /\ overlapped \in BOOLEAN
  /\ staleExit \in BOOLEAN

Init ==
  /\ space = "EMPTY"
  /\ status = [s \in Sessions |-> "none"]
  /\ exitTime = [s \in Sessions |-> None]
  /\ manual = {}
  /\ entryReported = {}
  /\ exitReports = [s \in Sessions |-> {}]
  /\ pc = [h \in Handlers |-> "idle"]
  /\ found = [h \in Handlers |-> 0]
  /\ readPaid = {}
  /\ readExit = [h \in Handlers |-> None]
  /\ paying = 0
  /\ readStatus = "none"
  /\ faults = 0
  /\ peak = 0
  /\ overlapped = FALSE
  /\ staleExit = FALSE

Fault == faults < MaxFaults /\ faults' = faults + 1

exited   == {s \in Sessions : exitTime[s] # None}
Existing == {s \in Sessions : status[s] # "none"}
Active   == {s \in Sessions : status[s] = "ACTIVE" /\ s \notin exited}
Open     == Existing \ exited
AtWork   == {h \in Handlers : pc[h] # "idle"}
Creators == {h \in Handlers : pc[h] \in {"create", "register"}}
Entering == {h \in Handlers : pc[h] \in {"enter", "create", "register"}}

\* What is left of a manual exit after its transaction.
AfterDismiss == {"finalize", "collect", "refresh", "tell"}

IsNewest(s, S) == s \in S /\ \A t \in S : t <= s

\* The bound on sessions, applied where a request that may create one arrives.
RoomForEntry == Cardinality(Existing) + Cardinality(Entering) < MaxSessions

\* A request arrives in a free slot.
Arrive(h) ==
  /\ pc[h] = "idle"
  /\ overlapped' = (overlapped \/ paying # 0 \/ AtWork # {})

\* The handler goes to label l.
Go(h, l) == pc' = [pc EXCEPT ![h] = l]

\* The handler returns or throws: what it had read is forgotten.
Return(h) ==
  /\ Go(h, "idle")
  /\ found' = [found EXCEPT ![h] = 0]
  /\ readPaid' = readPaid \ {h}
  /\ readExit' = [readExit EXCEPT ![h] = None]

\* The handler found no active session and is going to create one.
GoCreate(h, l) ==
  LET n == Cardinality(Creators \cup {h}) IN
  /\ Go(h, l)
  /\ peak' = IF n > peak THEN n ELSE peak

---------------------------------------------------------------------------
(* The sensor: OccupancyEventService and OccupancyLinkService.             *)

\* handleParkingSensorStatus writes the space first.  A code that is neither
\* entry value counts as empty.
SensorReport(h, occupied) ==
  /\ occupied => RoomForEntry
  /\ Arrive(h)
  /\ space' = IF occupied THEN "OCCUPIED" ELSE "EMPTY"
  /\ Go(h, IF occupied THEN "enter" ELSE "leave")
  /\ UNCHANGED <<sessions, found, read, partial, faults, peak, staleExit>>

\* handleOccupancyChanged looks for the newest ACTIVE session without exit.
FindActive(h) ==
  /\ \/ /\ pc[h] = "enter" /\ Active # {}
        /\ Go(h, "occupy")
        /\ UNCHANGED <<found, peak>>
     \/ /\ pc[h] = "enter" /\ Active = {}
        /\ GoCreate(h, "create")
        /\ UNCHANGED found
     \/ /\ pc[h] = "leave" /\ Active = {}
        /\ Go(h, "clear")
        /\ UNCHANGED <<found, peak>>
     \/ /\ pc[h] = "leave"
        /\ \E s \in Active : IsNewest(s, Active) /\ found' = [found EXCEPT ![h] = s]
        /\ Go(h, "bill")
        /\ UNCHANGED peak
  /\ UNCHANGED <<space, sessions, read, partial, faults, overlapped, staleExit>>

\* already_active and no_active_session: only the space is written.
WriteSpace(h) ==
  /\ pc[h] \in {"occupy", "clear"}
  /\ space' = IF pc[h] = "occupy" THEN "OCCUPIED" ELSE "EMPTY"
  /\ Return(h)
  /\ UNCHANGED <<sessions, partial, faults, history>>

---------------------------------------------------------------------------
(* The operator: SessionEngineService.                                     *)

\* Slip, for the mutation runs: entry does not look for an ACTIVE session.
EngineEntryUnchecked(h) ==
  /\ RoomForEntry
  /\ Arrive(h)
  /\ GoCreate(h, "create")
  /\ UNCHANGED <<space, sessions, found, read, partial, faults, staleExit>>

\* entry refuses when a session is ACTIVE.
EngineEntry(h) ==
  /\ RoomForEntry
  /\ Arrive(h)
  /\ \A s \in Sessions : status[s] # "ACTIVE"
  /\ GoCreate(h, "create")
  /\ UNCHANGED <<space, sessions, found, read, partial, faults, staleExit>>

\* exit of a session that is ACTIVE or PAID; exitBySpace picks an open one.
EngineExit(h, s) ==
  /\ Arrive(h)
  /\ status[s] \in {"ACTIVE", "PAID"}
  /\ found' = [found EXCEPT ![h] = s]
  /\ readPaid' = IF status[s] = "PAID" THEN readPaid \cup {h} ELSE readPaid \ {h}
  /\ readExit' = [readExit EXCEPT ![h] = exitTime[s]]
  /\ Go(h, "bill")
  /\ staleExit' = (staleExit \/ ~IsNewest(s, Existing))
  /\ UNCHANGED <<space, sessions, partial, faults, peak>>

---------------------------------------------------------------------------
(* The operator by hand: ParkingSessionsService.                           *)

\* manualEntry refuses when a session is parked, ACTIVE or PAID.
ManualEntry(h) ==
  /\ RoomForEntry
  /\ Arrive(h)
  /\ \A s \in Open : status[s] \notin {"ACTIVE", "PAID"}
  /\ GoCreate(h, "register")
  /\ UNCHANGED <<space, sessions, found, read, partial, faults, staleExit>>

\* manualExit of a session entered by hand that is parked.
ManualExit(h, s) ==
  /\ Arrive(h)
  /\ s \in manual \cap Open
  /\ status[s] \in {"ACTIVE", "PAID"}
  /\ found' = [found EXCEPT ![h] = s]
  /\ Go(h, "dismiss")
  /\ staleExit' = (staleExit \/ ~IsNewest(s, Existing))
  /\ UNCHANGED <<space, sessions, read, partial, faults, peak>>

\* Its transaction closes the session, a PAID one too, and empties the space.
Dismiss(h) ==
  /\ pc[h] = "dismiss"
  /\ status' = [status EXCEPT ![found[h]] = "CLOSED"]
  /\ exitTime' = [exitTime EXCEPT ![found[h]] = h]
  /\ space' = "EMPTY"
  /\ Go(h, "finalize")
  /\ UNCHANGED <<manual, entryReported, exitReports, found, read, partial, faults, history>>

\* finalizeInvoiceForSessionId writes the exit time again; an invoice that was
\* paid in full is kept and nothing is written.
Finalize(h) ==
  /\ pc[h] = "finalize"
  /\ \/ exitTime' = [exitTime EXCEPT ![found[h]] = h]
     \/ UNCHANGED exitTime
  /\ Go(h, "collect")
  /\ UNCHANGED <<space, status, manual, entryReported, exitReports, found, read, partial,
                 faults, history>>

\* recordManualPayment, when an amount was collected: the session stays CLOSED.
Collect(h) ==
  /\ pc[h] = "collect"
  /\ \/ status' = [status EXCEPT ![found[h]] = "CLOSED"]
     \/ UNCHANGED status
  /\ Go(h, "refresh")
  /\ UNCHANGED <<space, exitTime, manual, entryReported, exitReports, found, read, partial,
                 faults, history>>

\* The session is read again for the report.
Refresh(h) ==
  /\ pc[h] = "refresh"
  /\ readExit' = [readExit EXCEPT ![h] = exitTime[found[h]]]
  /\ Go(h, "tell")
  /\ UNCHANGED <<space, sessions, found, readPaid, partial, faults, history>>

\* enqueueEdgeParkingSessionSync of the exit, outside of the transaction.
Tell(h) ==
  /\ pc[h] = "tell"
  /\ exitReports' = [exitReports EXCEPT ![found[h]] = @ \cup {readExit[h]}]
  /\ Return(h)
  /\ UNCHANGED <<space, status, exitTime, manual, entryReported, partial, faults, history>>

---------------------------------------------------------------------------
(* What they have in common.                                               *)

\* The transaction that creates the session and occupies the space.
Create(h) ==
  LET s == Cardinality(Existing) + 1 IN
  /\ h \in Creators
  /\ status' = [status EXCEPT ![s] = "ACTIVE"]
  /\ manual' = IF pc[h] = "register" THEN manual \cup {s} ELSE manual
  /\ space' = "OCCUPIED"
  /\ found' = [found EXCEPT ![h] = s]
  /\ Go(h, "report")
  /\ UNCHANGED <<exitTime, entryReported, exitReports, read, partial, faults, history>>

\* Slip, for the mutation runs: the entry is not enqueued.
ReportNothing(h) ==
  /\ pc[h] = "report"
  /\ Return(h)
  /\ UNCHANGED <<space, sessions, partial, faults, history>>

\* enqueueEdgeParkingSessionSync after the transaction: event and row at once.
ReportEntry(h) ==
  /\ pc[h] = "report"
  /\ entryReported' = entryReported \cup {found[h]}
  /\ Return(h)
  /\ UNCHANGED <<space, status, exitTime, manual, exitReports, partial, faults, history>>

\* ensureAdditionalFeeForGraceExpiredSession comes before anything is closed.
Bill(h) ==
  /\ pc[h] = "bill"
  /\ Go(h, "close")
  /\ UNCHANGED <<space, sessions, found, read, partial, faults, history>>

\* An exit time that was there when the session was read stays.
TimeOfExit(h) == IF readExit[h] = None THEN h ELSE readExit[h]

\* Slip, for the mutation runs: each exit request makes an event of its own.
CloseWithNewEvent(h) ==
  /\ pc[h] = "close"
  /\ status' = [status EXCEPT ![found[h]] = IF h \in readPaid THEN "PAID" ELSE "CLOSED"]
  /\ exitTime' = [exitTime EXCEPT ![found[h]] = h]
  /\ space' = "EMPTY"
  /\ exitReports' = [exitReports EXCEPT ![found[h]] = @ \cup {h}]
  /\ Return(h)
  /\ UNCHANGED <<manual, entryReported, partial, faults, history>>

\* Slip, for the mutation runs: the space is left to the sensor.
CloseNotSpace(h) ==
  /\ pc[h] = "close"
  /\ status' = [status EXCEPT ![found[h]] = IF h \in readPaid THEN "PAID" ELSE "CLOSED"]
  /\ exitTime' = [exitTime EXCEPT ![found[h]] = TimeOfExit(h)]
  /\ exitReports' = [exitReports EXCEPT ![found[h]] = @ \cup {TimeOfExit(h)}]
  /\ Return(h)
  /\ UNCHANGED <<space, manual, entryReported, partial, faults, history>>

\* Slip, for the mutation runs: the exit time is set, the status is not.
CloseKeepsStatus(h) ==
  /\ pc[h] = "close"
  /\ exitTime' = [exitTime EXCEPT ![found[h]] = TimeOfExit(h)]
  /\ space' = "EMPTY"
  /\ exitReports' = [exitReports EXCEPT ![found[h]] = @ \cup {TimeOfExit(h)}]
  /\ Return(h)
  /\ UNCHANGED <<status, manual, entryReported, partial, faults, history>>

\* The transaction that closes the session, empties the space and enqueues the
\* exit.  Its event is named after the exit time.
Close(h) ==
  LET s == found[h] IN
  /\ pc[h] = "close"
  /\ status' = [status EXCEPT ![s] = IF h \in readPaid THEN "PAID" ELSE "CLOSED"]
  /\ exitTime' = [exitTime EXCEPT ![s] = TimeOfExit(h)]
  /\ space' = "EMPTY"
  /\ exitReports' = [exitReports EXCEPT ![s] = @ \cup {TimeOfExit(h)}]
  /\ Return(h)
  /\ UNCHANGED <<manual, entryReported, partial, faults, history>>

---------------------------------------------------------------------------
(* The rest of the edge.                                                   *)

\* applyInvoicePaymentFromCloud of a paid invoice sets the status, whether the
\* session has exited or not.  The pull worker applies one message at a time.
PayFromCloud(s) ==
  /\ paying = 0
  /\ status[s] \in {"ACTIVE", "CLOSED"}
  /\ status' = [status EXCEPT ![s] = "PAID"]
  /\ UNCHANGED <<space, exitTime, manual, entryReported, exitReports, task, partial, faults,
                 history>>

\* Of a partly paid one it writes back the status it had read, or throws.
ReadForPartialPayment(s) ==
  /\ paying = 0
  /\ s \in Existing
  /\ paying' = s
  /\ readStatus' = status[s]
  /\ overlapped' = (overlapped \/ AtWork # {})
  /\ UNCHANGED <<space, sessions, task, faults, peak, staleExit>>

ApplyPartialPayment ==
  /\ paying # 0
  /\ \/ status' = [status EXCEPT ![paying] = readStatus] /\ UNCHANGED faults
     \/ UNCHANGED status /\ Fault
  /\ paying' = 0
  /\ readStatus' = "none"
  /\ UNCHANGED <<space, exitTime, manual, entryReported, exitReports, task, history>>

\* The fee calculation or a query throws: the request ends where it stands.
HandlerFails(h) ==
  /\ pc[h] # "idle"
  /\ Return(h)
  /\ Fault
  /\ UNCHANGED <<space, sessions, partial, history>>

\* The edge process restarts: every request is gone.
Restart ==
  /\ pc' = [h \in Handlers |-> "idle"]
  /\ found' = [h \in Handlers |-> 0]
  /\ readPaid' = {}
  /\ readExit' = [h \in Handlers |-> None]
  /\ paying' = 0
  /\ readStatus' = "none"
  /\ Fault
  /\ UNCHANGED <<space, sessions, history>>

Handler(h) ==
  \/ \E occupied \in BOOLEAN : SensorReport(h, occupied)
  \/ FindActive(h) \/ WriteSpace(h)
  \/ EngineEntry(h)
  \/ \E s \in Sessions : EngineExit(h, s)
  \/ ManualEntry(h)
  \/ \E s \in Sessions : ManualExit(h, s)
  \/ Dismiss(h) \/ Finalize(h) \/ Collect(h) \/ Refresh(h) \/ Tell(h)
  \/ Create(h) \/ ReportEntry(h) \/ Bill(h) \/ Close(h)
  \/ HandlerFails(h)

Next ==
  \/ \E h \in Handlers : Handler(h)
  \/ \E s \in Sessions : PayFromCloud(s) \/ ReadForPartialPayment(s)
  \/ ApplyPartialPayment
  \/ Restart

Spec == Init /\ [][Next]_vars

---------------------------------------------------------------------------
(* Safety.                                                                 *)

\* The space never has more ACTIVE sessions than there were handlers that had
\* seen it free and not yet created theirs at one time: without an overlap of
\* two entries there is never a second ACTIVE session, and every extra one
\* stands for one such overlap.
ActiveWithinPeak == Cardinality(Active) <= peak

\* The exit is reported, or will be by the request that exits the session by hand.
ExitAccounted(s) ==
  \/ exitReports[s] # {}
  \/ /\ s \in manual
     /\ faults > 0 \/ \E h \in Handlers : found[h] = s /\ pc[h] \in AfterDismiss

\* A session that has exited has its exit event, and a second one only if
\* requests overlapped.  An exit by hand is reported after its transaction: one
\* that fails or is cut off in between stays unreported, since the session has
\* exited and no request by hand will exit it again.
ExitReportedOnce ==
  \A s \in Sessions :
     /\ s \in exited => ExitAccounted(s)
     /\ Cardinality(exitReports[s]) > 1 => overlapped

\* A session with an exit is never ACTIVE again, unless a request and the apply
\* of a partial payment, or two requests, were at work at once: as long as one
\* is, entry refuses every car of this space.
ExitedIsNotActive == \A s \in exited : status[s] = "ACTIVE" => overlapped

\* No entry is lost: a session the edge has not reported yet, exited or not,
\* has the request that created it still on its way to the report, unless a
\* request failed or the process restarted.
EntryReportOwed ==
  \A s \in Existing :
     \/ s \in entryReported
     \/ \E h \in Handlers : pc[h] = "report" /\ found[h] = s
     \/ faults > 0

Orderly == ~overlapped /\ ~staleExit /\ faults = 0

\* Between requests the space agrees with its sessions, as long as requests
\* came one at a time, none failed and no operator exited an older session.
SpaceShowsSessions ==
  AtWork = {} /\ Orderly
  => /\ Active # {} => space = "OCCUPIED"
     /\ space = "OCCUPIED" => Open # {}

\* What the comment of OccupancyLinkService states.
OneActiveSession == Cardinality(Active) <= 1

---------------------------------------------------------------------------
(* The inductive invariant.                                                *)

\* Sessions are numbered without gaps, and every request that may create one
\* has a number left.
NumberedInOrder ==
  /\ Existing = 1 .. Cardinality(Existing)
  /\ Cardinality(Existing) + Cardinality(Entering) <= MaxSessions

\* An exit, a handler and the apply of a payment are of a session that exists;
\* what the apply has read is stale only if the session has exited since.
WorkIsOnSessions ==
  /\ exited \subseteq Existing
  /\ manual \subseteq Existing
  /\ \A h \in Handlers :
       /\ pc[h] \in {"report", "bill", "close"} => found[h] \in Existing
       /\ pc[h] = "dismiss" => found[h] \in manual
       /\ pc[h] \in AfterDismiss => found[h] \in manual \cap exited
       /\ pc[h] \notin {"bill", "close", "tell"} => readExit[h] = None
       /\ pc[h] = "tell" => readExit[h] # None
  /\ paying # 0 => /\ paying \in Existing
                   /\ readStatus # "none"
                   /\ status[paying] = readStatus \/ paying \in exited

\* Creators that saw the space free still count against the peak while the
\* session of another one is ACTIVE.
PeakCovers == Cardinality(Active) + Cardinality(Creators) <= peak

\* What overlapped has not noticed did not happen.
OneAtATime ==
  ~overlapped => /\ \A g, h \in AtWork : g = h
                 /\ paying # 0 => AtWork = {}

\* One at a time, requests give a session one exit time and report no other.
SerialExits ==
  ~overlapped =>
    /\ \A s \in Sessions : exitReports[s] \subseteq {exitTime[s]}
    /\ \A s \in exited : status[s] # "ACTIVE"
    /\ \A h \in Handlers :
         /\ pc[h] \in {"bill", "close"} => readExit[h] = exitTime[found[h]]
         /\ pc[h] = "dismiss" => found[h] \notin exited
         /\ pc[h] \in AfterDismiss => exitTime[found[h]] = h
         /\ pc[h] = "tell" => readExit[h] = h
    /\ paying # 0 => status[paying] = readStatus

ExitsAccounted == \A s \in exited : ExitAccounted(s)

\* One at a time and undisturbed, each request leaves space and sessions in step.
SpaceInStep ==
  Orderly =>
    /\ \A s \in Active : IsNewest(s, Existing)
    /\ \A h \in Handlers :
         /\ pc[h] \in {"bill", "close", "dismiss"} => IsNewest(found[h], Existing)
         /\ pc[h] \in {"create", "register", "clear"} \cup AfterDismiss => Active = {}
         /\ pc[h] = "occupy" => Open # {}
         /\ pc[h] = "report" => space = "OCCUPIED" /\ Open # {}
         /\ pc[h] \in AfterDismiss => space = "EMPTY"
    /\ AtWork = {} => /\ Active # {} => space = "OCCUPIED"
                      /\ space = "OCCUPIED" => Open # {}

IInv == /\ TypeOK /\ NumberedInOrder /\ WorkIsOnSessions /\ PeakCovers
        /\ OneAtATime /\ SerialExits /\ ExitsAccounted /\ EntryReportOwed /\ SpaceInStep
=============================================================================
