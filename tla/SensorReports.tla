---------------------------- MODULE SensorReports ----------------------------
(***************************************************************************)
(* A parking sensor, the Rust daemon that takes its uplinks from MQTT and  *)
(* the edge API the daemon notifies.  The daemon starts a task for each    *)
(* uplink; a task compares the reading with the newest one in the history, *)
(* keeps the current state of the sensor, and posts changes to the API,    *)
(* once.  The API's ingest starts and ends the parking sessions of the     *)
(* space and tells the cloud.  Tasks and requests run side by side.        *)
(*                                                                         *)
(* The sensor is linked to a space and its battery, gateway and firmware   *)
(* do not change.  The session engine's other callers are in SpaceSession. *)
(***************************************************************************)
EXTENDS Naturals, FiniteSets, FiniteSetsExt

CONSTANTS
  Codes,            \* parking status codes the sensor sends
  MaxUplinks,       \* bound on uplinks
  MaxBusy,          \* how many uplinks are worked on at a time
  MaxFaults         \* bound on lost messages, errors and restarts

ASSUME CodesAssumption ==
  Codes \subseteq {"ExitNormal", "EntryNormal", "ExitObstacleError", "EntryObstacleError",
                "Unknown"}
ASSUME BoundAssumption == MaxUplinks \in Nat /\ MaxBusy \in Nat /\ MaxFaults \in Nat

\* An uplink is named by its place in the order, which is its time.
Uplinks  == 1 .. MaxUplinks
\* A session is named by the uplink that began it.
Sessions == Uplinks

VARIABLES
  code,             \* what each uplink says
  sent,             \* how many uplinks the sensor has sent
  history,          \* uplinks with a row in parking_sensor_data
  state,            \* the parking_state row: code, state_since, last_message_time
  work,             \* where the task or the request of an uplink stands, what it has read
  lastSeen,         \* the uplink in SensorDevice's lastSeenAt and telemetry
  space,            \* ParkingSpace.status
  session,          \* ParkingSession.status
  exited,           \* sessions with an exit time
  told,             \* the space as the newest event for the cloud shows it
  faults,
  overlapped,       \* history: uplinks that were worked on beside another
  lost,             \* history: uplinks whose task ended half-way
  failed,           \* history: uplinks whose request to the API ended half-way
  paidEarly         \* history: sessions paid while the car was parked

daemon  == <<history, state>>
api     == <<lastSeen, space, session, exited, told>>
sensor  == <<code, sent>>
notes   == <<overlapped, lost, failed, paidEarly>>
vars    == <<code, sent, history, state, work, lastSeen, space, session, exited, told,
             faults, overlapped, lost, failed, paidEarly>>

DaemonSteps == {"readHistory", "readState", "writeState", "writeHistory", "notify"}
ApiSteps    == {"find", "occupy", "enter", "create", "entered", "clear", "exit", "close",
                "report"}

SpaceStatus == {"EMPTY", "OCCUPIED"}
NoWork == [pc |-> "new", record |-> FALSE, since |-> 0, was |-> "EMPTY", found |-> 0,
           paid |-> FALSE]
Done   == [NoWork EXCEPT !.pc = "done"]

TypeOK ==
  /\ code \in [Uplinks -> Codes \cup {"none"}]
  /\ sent \in 0 .. MaxUplinks
  /\ history \in SUBSET Uplinks
  /\ state \in [code : Codes \cup {"none"}, since : 0 .. MaxUplinks, last : 0 .. MaxUplinks]
  /\ work \in [Uplinks -> [pc     : {"new", "done"} \cup DaemonSteps \cup ApiSteps,
                           record : BOOLEAN,
                           since  : 0 .. MaxUplinks,
                           was    : SpaceStatus,
                           found  : 0 .. MaxUplinks,
                           paid   : BOOLEAN]]
  /\ lastSeen \in 0 .. MaxUplinks
  /\ space \in SpaceStatus
  /\ session \in [Sessions -> {"none", "ACTIVE", "PAID", "CLOSED"}]
  /\ exited \in SUBSET Sessions
  /\ told \in SpaceStatus
  /\ faults \in Nat
  /\ overlapped \in SUBSET Uplinks
  /\ lost \in SUBSET Uplinks
  /\ failed \in SUBSET Uplinks
  /\ paidEarly \in SUBSET Sessions

Init ==
  /\ code = [u \in Uplinks |-> "none"]
  /\ sent = 0
  /\ history = {}
  /\ state = [code |-> "none", since |-> 0, last |-> 0]
  /\ work = [u \in Uplinks |-> NoWork]
  /\ lastSeen = 0
  /\ space = "EMPTY"
  /\ session = [s \in Sessions |-> "none"]
  /\ exited = {}
  /\ told = "EMPTY"
  /\ faults = 0
  /\ overlapped = {}
  /\ lost = {}
  /\ failed = {}
  /\ paidEarly = {}

---------------------------------------------------------------------------
Busy     == {u \in Uplinks : work[u].pc \notin {"new", "done"}}
At(u, pc) == work[u].pc = pc
Go(u, pc) == work' = [work EXCEPT ![u].pc = pc]
End(u)    == work' = [work EXCEPT ![u] = Done]
Fault    == faults < MaxFaults /\ faults' = faults + 1

\* resolveTargetSpaceStatus; any other code is only logged.
Occupied(c) == c \in {"EntryNormal", "EntryObstacleError"}
Empty(c)    == c \in {"ExitNormal", "ExitObstacleError"}
Target(c)   == IF Occupied(c) THEN "OCCUPIED" ELSE "EMPTY"

Active == {s \in Sessions : session[s] = "ACTIVE"}

\* The sensor sends a reading at QoS 0; the daemon's task starts, or it is lost.
Send(c) ==
  LET u == sent + 1 IN
  /\ u \in Uplinks
  /\ Cardinality(Busy) < MaxBusy
  /\ sent' = u
  /\ code' = [code EXCEPT ![u] = c]
  /\ \/ /\ Go(u, "readHistory")
        /\ overlapped' = IF Busy = {} THEN overlapped ELSE overlapped \cup Busy \cup {u}
        /\ UNCHANGED faults
     \/ /\ End(u)
        /\ Fault
        /\ UNCHANGED overlapped
  /\ UNCHANGED <<daemon, api, lost, failed, paidEarly>>

---------------------------------------------------------------------------
(* The daemon: insert_parking_sensor.                                      *)

\* should_record_history: the reading differs from that of the newest row by time.
Changed(u) == history = {} \/ code[Max(history)] # code[u]

ReadHistory(u) ==
  /\ At(u, "readHistory")
  /\ work' = [work EXCEPT ![u].pc = "readState", ![u].record = Changed(u)]
  /\ UNCHANGED <<sensor, daemon, api, faults, notes>>

\* new_state_since: the state goes on while the code stays.
Since(u) == IF state.code = code[u] THEN state.since ELSE u

ReadState(u) ==
  /\ At(u, "readState")
  /\ work' = [work EXCEPT ![u].pc = "writeState", ![u].since = Since(u)]
  /\ UNCHANGED <<sensor, daemon, api, faults, notes>>

\* The upsert takes what the task has, whatever is there.
WriteState(u) ==
  /\ At(u, "writeState")
  /\ state' = [code |-> code[u], since |-> work[u].since, last |-> u]
  /\ IF work[u].record THEN Go(u, "writeHistory") ELSE End(u)
  /\ UNCHANGED <<sensor, history, api, faults, notes>>

WriteHistory(u) ==
  /\ At(u, "writeHistory")
  /\ history' = history \cup {u}
  /\ Go(u, "notify")
  /\ UNCHANGED <<sensor, state, api, faults, notes>>

\* notify_parking_session_api; an error is printed and that is all.  ingest
\* reads the device with its space and keeps the event and the telemetry.
Notify(u) ==
  /\ At(u, "notify")
  /\ lastSeen' = u
  /\ IF Occupied(code[u]) \/ Empty(code[u])
     THEN work' = [work EXCEPT ![u].pc = "find", ![u].was = space]
     ELSE End(u)
  /\ UNCHANGED <<sensor, daemon, space, session, exited, told, faults, notes>>

---------------------------------------------------------------------------
(* The edge API: SensorEventsService.ingest and SessionEngineService.      *)

\* The newest ACTIVE session of the space.
Find(u) ==
  /\ At(u, "find")
  /\ work' = [work EXCEPT
       ![u].pc = IF Occupied(code[u]) THEN (IF Active = {} THEN "enter" ELSE "occupy")
                                      ELSE (IF Active = {} THEN "clear" ELSE "exit"),
       ![u].found = IF Active = {} THEN 0 ELSE Max(Active)]
  /\ UNCHANGED <<sensor, daemon, api, faults, notes>>

\* Slip, for the mutation runs: a session that goes on leaves the space alone.
WriteSpaceIfClear(u) ==
  /\ At(u, "occupy") \/ At(u, "clear")
  /\ space' = IF At(u, "clear") THEN "EMPTY" ELSE space
  /\ Go(u, "report")
  /\ UNCHANGED <<sensor, daemon, lastSeen, session, exited, told, faults, notes>>

\* Only the space is written.
WriteSpace(u) ==
  /\ At(u, "occupy") \/ At(u, "clear")
  /\ space' = Target(code[u])
  /\ Go(u, "report")
  /\ UNCHANGED <<sensor, daemon, lastSeen, session, exited, told, faults, notes>>

\* The request ends without an answer to the daemon's liking: nothing comes of that.
Throw(u) ==
  /\ failed' = failed \cup {u}
  /\ End(u)

\* entry refuses when a session is ACTIVE.
Enter(u) ==
  /\ At(u, "enter")
  /\ \/ Active = {} /\ Go(u, "create") /\ UNCHANGED failed
     \/ Active # {} /\ Throw(u)
  /\ UNCHANGED <<sensor, daemon, api, faults, overlapped, lost, paidEarly>>

Create(u) ==
  /\ At(u, "create")
  /\ session' = [session EXCEPT ![u] = "ACTIVE"]
  /\ space' = "OCCUPIED"
  /\ Go(u, "entered")
  /\ UNCHANGED <<sensor, daemon, lastSeen, exited, told, faults, notes>>

\* enqueueEdgeParkingSessionSync: the cloud sets the space with the session.
Entered(u) ==
  /\ At(u, "entered")
  /\ told' = "OCCUPIED"
  /\ Go(u, "report")
  /\ UNCHANGED <<sensor, daemon, lastSeen, space, session, exited, faults, notes>>

\* exit reads the session again and works out the invoice.
Exit(u) ==
  LET s == session[work[u].found] IN
  /\ At(u, "exit")
  /\ \/ /\ s \in {"ACTIVE", "PAID"}
        /\ work' = [work EXCEPT ![u].pc = "close", ![u].paid = (s = "PAID")]
        /\ UNCHANGED failed
     \/ s = "CLOSED" /\ Throw(u)
  /\ UNCHANGED <<sensor, daemon, api, faults, overlapped, lost, paidEarly>>

\* Slip, for the mutation runs: the exit's transaction leaves the status out.
CloseTimeOnly(u) ==
  /\ At(u, "close")
  /\ exited' = exited \cup {work[u].found}
  /\ space' = "EMPTY"
  /\ told' = "EMPTY"
  /\ Go(u, "report")
  /\ UNCHANGED <<sensor, daemon, lastSeen, session, faults, notes>>

Close(u) ==
  /\ At(u, "close")
  /\ session' = [session EXCEPT ![work[u].found] = IF work[u].paid THEN "PAID" ELSE "CLOSED"]
  /\ exited' = exited \cup {work[u].found}
  /\ space' = "EMPTY"
  /\ told' = "EMPTY"
  /\ Go(u, "report")
  /\ UNCHANGED <<sensor, daemon, lastSeen, faults, notes>>

\* Slip, for the mutation runs: the new status is compared with what the space shows by now.
ToReportLate(u) == space # Target(code[u])

\* enqueueEdgeSensorEvents: the space has changed since the request began.
ToReport(u) == work[u].was # Target(code[u])

Report(u) ==
  /\ At(u, "report")
  /\ told' = IF ToReport(u) THEN Target(code[u]) ELSE told
  /\ End(u)
  /\ UNCHANGED <<sensor, daemon, lastSeen, space, session, exited, faults, notes>>

---------------------------------------------------------------------------
(* Payments and faults.                                                    *)

\* A payment the cloud has taken marks the session PAID.
Pay(s) ==
  /\ session[s] \in {"ACTIVE", "CLOSED"}
  /\ session' = [session EXCEPT ![s] = "PAID"]
  /\ paidEarly' = IF s \in exited THEN paidEarly ELSE paidEarly \cup {s}
  /\ UNCHANGED <<sensor, daemon, work, lastSeen, space, exited, told, faults, overlapped,
                 lost, failed>>

\* Uplinks that end where they are: in the daemon, or in the API.
Stop(us) ==
  /\ us # {}
  /\ Fault
  /\ work' = [u \in Uplinks |-> IF u \in us THEN Done ELSE work[u]]
  /\ UNCHANGED <<sensor, daemon, api, overlapped, paidEarly>>

\* A query of the task fails or the post to the API does; or the daemon restarts.
DaemonStops ==
  LET tasks == {u \in Uplinks : work[u].pc \in DaemonSteps} IN
  \E us \in {{u} : u \in tasks} \cup {tasks} :
     Stop(us) /\ lost' = lost \cup us /\ UNCHANGED failed

\* A query of the request fails or the fee cannot be worked out; or the API restarts.
ApiStops ==
  LET requests == {u \in Uplinks : work[u].pc \in ApiSteps} IN
  \E us \in {{u} : u \in requests} \cup {requests} :
     Stop(us) /\ failed' = failed \cup us /\ UNCHANGED lost

---------------------------------------------------------------------------
Task(u)    == ReadHistory(u) \/ ReadState(u) \/ WriteState(u) \/ WriteHistory(u) \/ Notify(u)
Request(u) == Find(u) \/ WriteSpace(u) \/ Enter(u) \/ Create(u) \/ Entered(u)
              \/ Exit(u) \/ Close(u) \/ Report(u)

Next ==
  \/ \E c \in Codes : Send(c)
  \/ \E u \in Uplinks : Task(u) \/ Request(u)
  \/ \E s \in Sessions : Pay(s)
  \/ DaemonStops \/ ApiStops

Spec == Init /\ [][Next]_vars

---------------------------------------------------------------------------
(* Safety.                                                                 *)

Newest == Max(history)

\* The newest recorded reading was worked on alone and to its end.
NewestHandled ==
  /\ Busy = {} /\ history # {}
  /\ Newest \notin overlapped \cup lost \cup failed

\* The space shows the newest reading, whatever was lost, failed or overlapped
\* before it: one change that gets through repairs the space.
SpaceFollowsSensor ==
  NewestHandled /\ code[Newest] # "Unknown" => space = Target(code[Newest])

\* The state and the history of a sensor agree: the state began with the newest
\* row.  Not so for uplinks at once or when a task ended half-way.
StateAgreesWithHistory ==
  (Busy = {} /\ history # {} /\ overlapped \cup lost = {})
  => state.code = code[Newest] /\ state.since = Newest

\* After a reading that says empty no session is ACTIVE, whatever was lost or
\* failed before; after one that says occupied just one is, or none because it
\* was paid while the car was parked.  Readings must come one at a time.
SessionsFollowSensor ==
  (NewestHandled /\ overlapped = {} /\ code[Newest] # "Unknown")
  => IF Occupied(code[Newest])
     THEN Cardinality(Active) <= 1 /\ (Active = {} => paidEarly # {})
     ELSE Active = {}

\* The cloud has been told what the space shows, as long as readings come one
\* at a time and no request of the API failed.
CloudIsTold ==
  Busy = {} /\ overlapped \cup failed = {} => told = space

---------------------------------------------------------------------------
(* The inductive invariant of the proofs.                                  *)

\* Readings at work side by side are overlapped.
OneAtATime == overlapped = {} => \A u, v \in Busy : u = v

\* Rows of the history are readings that were sent.
HistoryWasSent ==
  /\ history \cup Busy \subseteq 1 .. sent
  /\ \A u \in 1 .. sent : code[u] \in Codes

\* The state began with the newest row.
StateOfNewest ==
  IF history = {} THEN state.code = "none"
  ELSE Newest \in history /\ state.code = code[Newest] /\ state.since = Newest

\* What the daemon's task has read still holds when it writes.
TaskKnows ==
  overlapped \cup lost = {} =>
  /\ \A u \in Uplinks : At(u, "writeHistory") =>
       state.code = code[u] /\ state.since = u
  /\ (\A u \in Uplinks : ~At(u, "writeHistory")) => StateOfNewest
  /\ \A u \in Uplinks : work[u].pc \in DaemonSteps \ {"notify"} => \A h \in history : h < u
  /\ \A u \in Uplinks : work[u].pc \in {"readState", "writeState"} =>
       (work[u].record <=> state.code # code[u])
  /\ \A u \in Uplinks : At(u, "writeState") => work[u].since = Since(u)

\* A request is on the way its reading's code leads to.
RequestFollowsCode(u) ==
  /\ work[u].pc \in {"enter", "create", "occupy", "entered"} => Occupied(code[u])
  /\ work[u].pc \in {"clear", "exit", "close"} => ~Occupied(code[u])

\* What the request has read of the space, and what it has yet to tell.
RequestKnows ==
  overlapped \cup failed = {} =>
  /\ (\A u \in Uplinks : work[u].pc \notin {"entered", "report"}) => told = space
  /\ \A u \in Uplinks :
       /\ RequestFollowsCode(u)
       /\ work[u].pc \in ApiSteps \ {"entered", "report"} => work[u].was = space
       /\ At(u, "entered") => space = "OCCUPIED"
       /\ At(u, "report") => space = Target(code[u]) /\ told \in {space, work[u].was}

\* A request that ends a session has found one.
ExitHasSession ==
  \A u \in Uplinks : work[u].pc \in {"exit", "close"} => work[u].found \in Sessions

IInv == TypeOK /\ ExitHasSession /\ OneAtATime /\ HistoryWasSent /\ TaskKnows /\ RequestKnows
---------------------------------------------------------------------------
(* The inductive invariant behind SpaceFollowsSensor and                   *)
(* SessionsFollowSensor.                                                   *)

\* Where readings stand: who is at the API has a row in the history, who has a
\* row is past the daemon's writes, and who works beside an older one is overlapped.
PlacesFit ==
  /\ \A u \in history : work[u].pc \in {"notify", "done"} \cup ApiSteps
  /\ \A u \in Uplinks : work[u].pc \in {"notify"} \cup ApiSteps => u \in history
  /\ \A u \in Uplinks : RequestFollowsCode(u) /\ (u > sent => At(u, "new"))
  /\ \A u \in Busy : \A v \in Busy \cup history : v > u => v \in overlapped

\* The newest row, of a reading worked on alone whose target is known.
Decisive(n) ==
  /\ n \in history \ (overlapped \cup lost \cup failed)
  /\ \A h \in history : h <= n
  /\ code[n] # "Unknown"

\* Once its request has written the space, the space shows the newest reading.
SpaceKnown ==
  \A n \in Uplinks :
     Decisive(n) /\ work[n].pc \in {"entered", "report", "done"} => space = Target(code[n])

\* Sessions begin once and end for good.
SessionsRemember ==
  /\ \A s \in exited : session[s] \in {"PAID", "CLOSED"}
  /\ \A u \in Uplinks :
       /\ work[u].pc \in {"new", "find", "enter", "create"} \cup DaemonSteps
          => session[u] = "none"
       /\ work[u].pc \in {"exit", "close"} => session[work[u].found] # "none"

\* What a request has found of the sessions still holds when it writes.
SessionsKnown ==
  overlapped = {} =>
  /\ \A s, t \in Active : s = t
  /\ \A u \in Uplinks :
       /\ At(u, "create") => Active = {}
       /\ work[u].pc \in {"exit", "close"} => Active \subseteq {work[u].found}

\* Once the newest reading's request has written, the sessions follow it.
SessionsFollow ==
  overlapped = {} =>
  \A n \in Uplinks : Decisive(n) =>
     /\ Occupied(code[n]) /\ work[n].pc \in {"occupy", "entered", "report", "done"}
        => Active # {} \/ paidEarly # {}
     /\ ~Occupied(code[n]) /\ work[n].pc \in {"clear", "report", "done"} => Active = {}

FollowInv ==
  PlacesFit /\ SpaceKnown /\ SessionsRemember /\ SessionsKnown /\ SessionsFollow
=============================================================================
