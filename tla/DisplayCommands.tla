--------------------------- MODULE DisplayCommands ---------------------------
(***************************************************************************)
(* A display board, from the operator's request on the cloud to the panel  *)
(* and back.  The cloud keeps the board's settings and the commands, sends *)
(* both to the edge, the edge's display daemon polls for PENDING commands, *)
(* sends them to the panel and reports, and the edge tells the cloud.      *)
(*                                                                         *)
(* A command sets the panel's power, or its text; brightness goes the way  *)
(* of power, and a text is named by the board's mode it was rendered for.  *)
(* Commands are numbered by requestedAt.  EdgeSyncPull and EdgeCloudPush   *)
(* have the channels in detail.                                            *)
(***************************************************************************)
EXTENDS Naturals, FiniteSets, FiniteSetsExt, Sequences

CONSTANTS
  MaxRequests,      \* bound on requests of operators
  MaxFaults,        \* bound on stops, lost calls and errors
  Asks,             \* what operators may ask for
  JobLimit,         \* take of getDaemonJobs
  Posts             \* slots for reports the edge API is handling

Powers == {"ON", "OFF"}
Modes  == {"AUTO", "MANUAL"}

ASSUME BoundAssumption == MaxRequests \in Nat /\ MaxFaults \in Nat /\ JobLimit \in Nat \ {0}
ASSUME PostsAssumption == Posts # {}
ASSUME AsksAssumption == Asks \subseteq Powers \cup Modes \cup {"PUBLISH"}

Requests == 1 .. MaxRequests
Commands == 1 .. MaxRequests

VARIABLES
  \* cloud
  request,          \* where each operator's request stands, and what it has read
  command,          \* what each DisplayCommand sets, "none" when there is none
  status,           \* DisplayCommand.status on the cloud
  board,            \* DisplayBoard's powerOn and mode on the cloud
  note,             \* DisplayBoard's lastStatus and lastSentPayload on the cloud
  \* cloud to edge
  messages,         \* outbox rows for the edge: a command, or the board as it was read
  waiting,          \* rows that are PENDING
  todo,             \* rows the pull run has yet to apply
  \* edge
  edgeStatus, edgeBoard, edgeNote,
  post,             \* reports reportJobResult is at work on
  daemon,           \* the display daemon's loop
  panel,            \* what the panel shows
  \* edge to cloud
  results,          \* outbox rows for the cloud
  unsent,           \* rows that are not ACKED
  backoff,          \* rows among them that failed and are tried again later
  faults,
  newest,           \* history: the newest message that was applied
  slips             \* history: what has gone wrong, by name

cloud  == <<request, command, status, board, note>>
down   == <<messages, waiting, todo, newest>>
edge   == <<edgeStatus, edgeBoard, edgeNote>>
up     == <<results, unsent, backoff>>
vars   == <<request, command, status, board, note, messages, waiting, todo, edgeStatus,
            edgeBoard, edgeNote, post, daemon, panel, results, unsent, backoff, faults,
            newest, slips>>

Boards == [power : Powers, mode : Modes]
Notes  == [last : {"OK", "ERROR"}, sent : {0} \cup Commands]
Slips  == {"overlapped", "stopped", "swapped", "late", "failed", "deaf", "unreported", "left",
           "halfway", "overtaken", "unacked"}

TypeOK ==
  /\ request \in [Requests -> [pc   : {"new", "readLines", "sendLines", "board", "readBoard",
                                       "sendBoard", "preview", "create", "send", "done"},
                               ask  : Asks \cup {"none"},
                               seen : Boards,
                               text : Modes,
                               cmd  : {0} \cup Commands]]
  /\ command \in [Commands -> Powers \cup Modes \cup {"none"}]
  /\ status \in [Commands -> {"none", "PENDING", "ACKED", "FAILED"}]
  /\ edgeStatus \in [Commands -> {"none", "PENDING", "ACKED", "FAILED"}]
  /\ board \in Boards /\ edgeBoard \in Boards
  /\ note \in Notes /\ edgeNote \in Notes
  /\ messages \in Seq([cmd : {0} \cup Commands, board : Boards])
  /\ waiting \in SUBSET Nat /\ todo \in SUBSET Nat /\ newest \in Nat
  /\ post \in [Posts -> [pc     : {"free", "status", "note", "result"},
                         cmd    : {0} \cup Commands,
                         status : {"ACKED", "FAILED"}]]
  /\ daemon \in [pc    : {"poll", "send", "post", "wait"},
                 jobs  : SUBSET Commands,
                 cmd   : {0} \cup Commands,
                 took  : {"ACKED", "FAILED"},
                 slot  : Posts]
  /\ panel \in [power : Powers, text : Modes \cup {"torn"}]
  /\ results \in Seq([cmd : Commands, status : {"ACKED", "FAILED"}])
  /\ unsent \in SUBSET Nat /\ backoff \in SUBSET Nat
  /\ faults \in Nat
  /\ slips \in SUBSET Slips

AtFirst == [power |-> "ON", mode |-> "AUTO"]
NoPost  == [pc |-> "free", cmd |-> 0, status |-> "ACKED"]
Polling == [pc |-> "poll", jobs |-> {}, cmd |-> 0, took |-> "ACKED", slot |-> CHOOSE i \in Posts : TRUE]

Init ==
  /\ request = [r \in Requests |->
                  [pc |-> "new", ask |-> "none", seen |-> AtFirst, text |-> "AUTO", cmd |-> 0]]
  /\ command = [c \in Commands |-> "none"]
  /\ status = [c \in Commands |-> "none"]
  /\ edgeStatus = status
  /\ board = AtFirst /\ edgeBoard = AtFirst
  /\ note = [last |-> "OK", sent |-> 0] /\ edgeNote = note
  /\ messages = <<>> /\ waiting = {} /\ todo = {} /\ newest = 0
  /\ post = [i \in Posts |-> NoPost]
  /\ daemon = Polling
  /\ panel = [power |-> "ON", text |-> "AUTO"]
  /\ results = <<>> /\ unsent = {} /\ backoff = {}
  /\ faults = 0
  /\ slips = {}

---------------------------------------------------------------------------
Fault == faults < MaxFaults /\ faults' = faults + 1

Slip(name, happened) == slips' = IF happened THEN slips \cup {name} ELSE slips

\* What carries the setting v, a power or a text's mode, once it is set.
SetOn(b, v)   == IF v \in Powers THEN [b EXCEPT !.power = v] ELSE [b EXCEPT !.mode = v]
ShownOn(p, v) == IF v \in Powers THEN [p EXCEPT !.power = v] ELSE [p EXCEPT !.text = v]

\* Slip, for the mutation runs: a failure is not noted.
NotedWhenAcked(n, c, s) == IF s = "ACKED" THEN [last |-> "OK", sent |-> c] ELSE n

\* lastStatus and lastSentPayload after a result.
Noted(n, c, s) == IF s = "ACKED" THEN [last |-> "OK", sent |-> c] ELSE [n EXCEPT !.last = "ERROR"]

---------------------------------------------------------------------------
(* The cloud: DisplayService.                                              *)

AtWork == {r \in Requests : request[r].pc \notin {"new", "done"}}
Made   == Cardinality({c \in Commands : command[c] # "none"})

FirstStep(ask) == CASE ask \in Powers \cup {"AUTO"} -> "board"
                    [] ask = "MANUAL"               -> "readLines"
                    [] ask = "PUBLISH"              -> "preview"

Ask(r, ask) ==
  /\ request[r].pc = "new"
  /\ \A q \in 1 .. r - 1 : request[q].pc # "new"
  /\ request' = [request EXCEPT ![r].pc = FirstStep(ask), ![r].ask = ask]
  /\ Slip("overlapped", AtWork # {})
  /\ UNCHANGED <<command, status, board, note, down, edge, post, daemon, panel, up, faults>>

\* enqueueDisplayConfigurationForEdge reads the board and then writes it to the
\* outbox; updateLines of the manual mode and both modes come by here.
ReadBoard(r) ==
  /\ request[r].pc \in {"readLines", "readBoard"}
  /\ request' = [request EXCEPT
       ![r].pc = IF @ = "readLines" THEN "sendLines" ELSE "sendBoard",
       ![r].seen = board]
  /\ UNCHANGED <<command, status, board, note, down, edge, post, daemon, panel, up, faults, slips>>

Send(m) ==
  /\ messages' = Append(messages, m)
  /\ waiting' = waiting \cup {Len(messages) + 1}
  /\ UNCHANGED <<todo, newest>>

SendBoard(r) ==
  /\ request[r].pc \in {"sendLines", "sendBoard"}
  /\ Send([cmd |-> 0, board |-> request[r].seen])
  /\ request' = [request EXCEPT ![r].pc = IF @ = "sendLines" THEN "board" ELSE "preview"]
  /\ UNCHANGED <<command, status, board, note, edge, post, daemon, panel, up, faults, slips>>

WriteBoard(r) ==
  /\ request[r].pc = "board"
  /\ board' = SetOn(board, request[r].ask)
  /\ request' = [request EXCEPT ![r].pc = IF request[r].ask \in Powers THEN "create" ELSE "readBoard"]
  /\ UNCHANGED <<command, status, note, down, edge, post, daemon, panel, up, faults, slips>>

Preview(r) ==
  /\ request[r].pc = "preview"
  /\ request' = [request EXCEPT ![r].pc = "create", ![r].text = board.mode]
  /\ UNCHANGED <<command, status, board, note, down, edge, post, daemon, panel, up, faults, slips>>

Create(r) ==
  LET c == Made + 1 IN
  /\ request[r].pc = "create" /\ c \in Commands
  /\ command' = [command EXCEPT
       ![c] = IF request[r].ask \in Powers THEN request[r].ask ELSE request[r].text]
  /\ status' = [status EXCEPT ![c] = "PENDING"]
  /\ request' = [request EXCEPT ![r].pc = "send", ![r].cmd = c]
  /\ UNCHANGED <<board, note, down, edge, post, daemon, panel, up, faults, slips>>

Sent == {messages[n].cmd : n \in DOMAIN messages} \ {0}

\* enqueueDisplayCommandForEdge
SendCommand(r) ==
  LET c == request[r].cmd IN
  /\ request[r].pc = "send"
  /\ Send([cmd |-> c, board |-> AtFirst])
  /\ request' = [request EXCEPT ![r].pc = "done"]
  /\ Slip("swapped", \E d \in Sent : d > c)
  /\ UNCHANGED <<command, status, board, note, edge, post, daemon, panel, up, faults>>

\* A query throws or the cloud's process ends.
RequestStops(r) ==
  /\ r \in AtWork
  /\ Fault
  /\ request' = [request EXCEPT ![r].pc = "done"]
  /\ Slip("stopped", TRUE)
  /\ UNCHANGED <<command, status, board, note, down, edge, post, daemon, panel, up>>

---------------------------------------------------------------------------
(* The edge: EdgeSyncWorkerService and the two handlers of SyncService.    *)

\* Slip, for the mutation runs: the pull asks for what follows the newest applied row.
StartRunFromNewest ==
  /\ todo = {} /\ waiting # {}
  /\ todo' = {n \in waiting : n > newest}
  /\ UNCHANGED <<cloud, messages, waiting, newest, edge, post, daemon, panel, up, faults, slips>>

StartRun ==
  /\ todo = {} /\ waiting # {}
  /\ todo' = waiting
  /\ UNCHANGED <<cloud, messages, waiting, newest, edge, post, daemon, panel, up, faults, slips>>

\* A command the edge has is not applied, and what is not applied is not
\* acknowledged: the row stays PENDING and comes with every pull.
Refused(m) == m.cmd # 0 /\ edgeStatus[m.cmd] # "none"

\* Slip, for the mutation runs: a command leaves the edge's board alone.
BoardOfConfiguration(m) == IF m.cmd = 0 THEN m.board ELSE edgeBoard

\* A configuration replaces the edge's board; a command for the power sets it.
BoardAfter(m) ==
  IF m.cmd = 0 THEN m.board
  ELSE IF command[m.cmd] \in Powers THEN SetOn(edgeBoard, command[m.cmd]) ELSE edgeBoard

\* Applied, and acknowledged unless that fails; or refused; or the apply throws.  The
\* run goes on with the next row in any case, and a row that is still PENDING comes again.
Apply ==
  LET n == Min(todo)
      m == messages[n]
  IN
  /\ todo # {}
  /\ todo' = todo \ {n}
  /\ \/ /\ ~Refused(m)
        /\ edgeBoard' = BoardAfter(m)
        /\ edgeStatus' = [c \in Commands |-> IF c = m.cmd THEN "PENDING" ELSE edgeStatus[c]]
        /\ newest' = Max({newest, n})
        /\ \/ waiting' = waiting \ {n} /\ Slip("late", n < newest) /\ UNCHANGED faults
           \/ /\ Fault
              /\ slips' = slips \cup (IF n < newest THEN {"late"} ELSE {})
                                \cup (IF m.cmd # 0 THEN {"unacked"} ELSE {})
              /\ UNCHANGED waiting
     \/ /\ (Refused(m) /\ UNCHANGED faults) \/ Fault
        /\ UNCHANGED <<edgeBoard, edgeStatus, newest, slips, waiting>>
  /\ UNCHANGED <<cloud, messages, edgeNote, post, daemon, panel, up>>

---------------------------------------------------------------------------
(* The display daemon: run_worker and handle_job.                          *)

Pending == {c \in Commands : edgeStatus[c] = "PENDING"}

\* getDaemonJobs: the oldest PENDING commands; nothing marks them as taken.
Fetch ==
  /\ daemon.pc = "poll" /\ Pending # {}
  /\ daemon' = [daemon EXCEPT !.pc = "send",
       !.jobs = {c \in Pending : Cardinality({d \in Pending : d < c}) < JobLimit}]
  /\ UNCHANGED <<cloud, down, edge, post, panel, up, faults, slips>>

\* Slip, for the mutation runs: newest first.
LastJob(jobs) == Max(jobs)

NextJob(jobs) == Min(jobs)

\* What may be on the panel when a job breaks off: a text goes line by line.
Broken(c) == {panel} \cup (IF command[c] \in Modes THEN {[panel EXCEPT !.text = "torn"]} ELSE {})

\* execute_job: the panel takes the packets and says so.  Or it does not, takes
\* some of a text's lines, or its answer gets lost, which fails the job; or it
\* takes nothing and nothing is noticed: a serial port that times out and any
\* answer to a power packet pass for success.
Execute ==
  LET c == NextJob(daemon.jobs)
      shown == ShownOn(panel, command[c])
      Took(s) == daemon' = [daemon EXCEPT !.pc = "post", !.jobs = @ \ {c}, !.cmd = c, !.took = s]
  IN
  /\ daemon.pc = "send"
  /\ \/ /\ panel' = shown
        /\ Took("ACKED")
        /\ UNCHANGED <<faults, slips>>
     \/ /\ panel' \in {shown} \cup Broken(c)
        /\ Took("FAILED")
        /\ Fault
        /\ Slip("failed", TRUE)
     \/ /\ panel' \in Broken(c)
        /\ Took("ACKED")
        /\ Fault
        /\ Slip("deaf", TRUE)
  /\ UNCHANGED <<cloud, down, edge, post, up>>

AfterJob == IF daemon.jobs = {} THEN "poll" ELSE "send"

\* report_result; when it fails that is logged, and the loop goes on.
Report ==
  /\ daemon.pc = "post"
  /\ \/ \E i \in Posts :
          /\ post[i].pc = "free"
          /\ post' = [post EXCEPT
               ![i] = [pc |-> "status", cmd |-> daemon.cmd, status |-> daemon.took]]
          /\ daemon' = [daemon EXCEPT !.pc = "wait", !.slot = i]
          /\ UNCHANGED <<faults, slips>>
     \/ /\ daemon' = [daemon EXCEPT !.pc = AfterJob]
        /\ Fault
        /\ Slip("unreported", TRUE)
        /\ UNCHANGED post
  /\ UNCHANGED <<cloud, down, edge, panel, up>>

\* The answer comes, or the connection breaks while the API works on.
Answered ==
  /\ daemon.pc = "wait"
  /\ daemon' = [daemon EXCEPT !.pc = AfterJob]
  /\ \/ post[daemon.slot].pc = "free" /\ UNCHANGED <<faults, slips>>
     \/ post[daemon.slot].pc # "free" /\ Fault /\ Slip("left", TRUE)
  /\ UNCHANGED <<cloud, down, edge, post, panel, up>>

DaemonRestarts ==
  /\ daemon.pc # "poll"
  /\ panel' \in IF daemon.pc = "send" THEN Broken(NextJob(daemon.jobs)) ELSE {panel}
  /\ daemon' = Polling
  /\ Fault
  /\ slips' = slips \cup (IF daemon.pc = "post" THEN {"unreported"} ELSE {})
                    \cup (IF daemon.pc = "wait" THEN {"left"} ELSE {})
  /\ UNCHANGED <<cloud, down, edge, post, up>>

---------------------------------------------------------------------------
(* The edge API: reportJobResult.                                          *)

WriteStatus(i) ==
  /\ post[i].pc = "status"
  /\ edgeStatus' = [edgeStatus EXCEPT ![post[i].cmd] = post[i].status]
  /\ post' = [post EXCEPT ![i].pc = "note"]
  /\ UNCHANGED <<cloud, down, edgeBoard, edgeNote, daemon, panel, up, faults, slips>>

WriteNote(i) ==
  /\ post[i].pc = "note"
  /\ edgeNote' = Noted(edgeNote, post[i].cmd, post[i].status)
  /\ post' = [post EXCEPT ![i].pc = "result"]
  /\ UNCHANGED <<cloud, down, edgeStatus, edgeBoard, daemon, panel, up, faults, slips>>

\* Slip, for the mutation runs: only a success is told.
WriteResultIfAcked(i) ==
  /\ post[i].pc = "result"
  /\ IF post[i].status = "ACKED"
     THEN /\ results' = Append(results, [cmd |-> post[i].cmd, status |-> post[i].status])
          /\ unsent' = unsent \cup {Len(results) + 1}
     ELSE UNCHANGED <<results, unsent>>
  /\ post' = [post EXCEPT ![i] = NoPost]
  /\ UNCHANGED <<cloud, down, edge, daemon, panel, backoff, faults, slips>>

\* enqueueDisplayCommandResultForCloud
WriteResult(i) ==
  /\ post[i].pc = "result"
  /\ results' = Append(results, [cmd |-> post[i].cmd, status |-> post[i].status])
  /\ unsent' = unsent \cup {Len(results) + 1}
  /\ post' = [post EXCEPT ![i] = NoPost]
  /\ UNCHANGED <<cloud, down, edge, daemon, panel, backoff, faults, slips>>

\* A query throws or the API's process ends.
ReportStops(i) ==
  /\ post[i].pc # "free"
  /\ Fault
  /\ Slip(IF post[i].pc = "status" THEN "unreported" ELSE "halfway", TRUE)
  /\ post' = [post EXCEPT ![i] = NoPost]
  /\ UNCHANGED <<cloud, down, edge, daemon, panel, up>>

---------------------------------------------------------------------------
(* The cloud again: applyEdgeDisplayCommandResult.                         *)

\* Slip, for the mutation runs: the board is left out.
TakeResultStatusOnly(k) ==
  /\ k \in backoff \/ \A j \in unsent \ backoff : k <= j
  /\ status' = [status EXCEPT ![results[k].cmd] = results[k].status]
  /\ unsent' = unsent \ {k} /\ backoff' = backoff \ {k}
  /\ Slip("overtaken", \E j \in unsent : j < k)
  /\ UNCHANGED <<request, command, board, note, down, edge, post, daemon, panel, results, faults>>

\* The command and then the board are written; an error, before, between or after
\* the two, makes the edge send the row again later, and later ones pass it.
TakeResult(k) ==
  LET c == results[k].cmd
      s == results[k].status
      Again == backoff' = backoff \cup {k} /\ UNCHANGED unsent /\ Fault
      Effect == status' = [status EXCEPT ![c] = s] /\ Slip("overtaken", \E j \in unsent : j < k)
  IN
  /\ k \in backoff \/ \A j \in unsent \ backoff : k <= j
  /\ \/ /\ Effect
        /\ note' = Noted(note, c, s)
        /\ \/ unsent' = unsent \ {k} /\ backoff' = backoff \ {k} /\ UNCHANGED faults
           \/ Again
     \/ Effect /\ UNCHANGED note /\ Again
     \/ UNCHANGED <<status, note, slips>> /\ Again
  /\ UNCHANGED <<request, command, board, down, edge, post, daemon, panel, results>>

---------------------------------------------------------------------------
Operator(r) == (\E ask \in Asks : Ask(r, ask)) \/ ReadBoard(r) \/ SendBoard(r) \/ WriteBoard(r)
               \/ Preview(r) \/ Create(r) \/ SendCommand(r)
Puller      == StartRun \/ Apply
Daemon      == Fetch \/ Execute \/ Report \/ Answered
Reporting   == \E i \in Posts : WriteStatus(i) \/ WriteNote(i) \/ WriteResult(i)
Telling     == \E k \in unsent : TakeResult(k)

Next ==
  \/ \E r \in Requests : Operator(r) \/ RequestStops(r)
  \/ Puller
  \/ Daemon \/ DaemonRestarts
  \/ Reporting \/ \E i \in Posts : ReportStops(i)
  \/ Telling

Spec == Init /\ [][Next]_vars

\* Both workers run from timers and the daemon polls in a loop; a handler's
\* queries end.  No operator has to ask for anything or to see it through.
FairSpec == Spec /\ WF_vars(Puller) /\ WF_vars(Daemon) /\ WF_vars(Reporting) /\ WF_vars(Telling)

---------------------------------------------------------------------------
(* Safety.                                                                 *)

NoSlip(names) == slips \cap names = {}

EdgeQuiet  == daemon.pc = "poll" /\ Pending = {} /\ \A i \in Posts : post[i].pc = "free"
CloudQuiet == AtWork = {} /\ unsent = {} /\ \A n \in waiting : Refused(messages[n])

\* The commands the edge knows that set one of the settings of kind.
Known(kind) == {c \in Commands : edgeStatus[c] # "none" /\ command[c] \in kind}

\* The panel shows what was asked for last, in the order of the requests and not of
\* the packets.  What puts an older text back: commands sent in another order than
\* they were made, or that come late; a report that is lost, because the command is
\* then carried out again, after newer ones.
PanelShowsNewest ==
  EdgeQuiet /\ NoSlip({"swapped", "late", "failed", "deaf", "unreported", "left"})
  => /\ Known(Powers) # {} => panel.power = command[Max(Known(Powers))]
     /\ Known(Modes) # {} => panel.text = command[Max(Known(Modes))]

\* lastStatus OK is to be trusted: the panel shows what lastSentPayload says, whatever
\* was lost, late, repeated or failed before; a report that was left alone or
\* ended half-way, or a panel that took nothing, excepted.
LastSentIsShown ==
  EdgeQuiet /\ edgeNote.last = "OK" /\ edgeNote.sent # 0 /\ NoSlip({"deaf", "left", "halfway"})
  => panel = ShownOn(panel, command[edgeNote.sent])

\* Cloud and edge have the same settings of the board.  Settings are read and sent
\* in two steps and are applied again when they come again, so requests one at a
\* time and messages in their order are needed.
BoardsAgree ==
  CloudQuiet /\ NoSlip({"overlapped", "stopped", "late"}) => edgeBoard = board

\* The cloud knows what became of each command the edge has, and what of the last.
CloudAgrees ==
  CloudQuiet /\ EdgeQuiet /\ NoSlip({"left", "halfway", "overtaken"})
  => /\ note = edgeNote
     /\ \A c \in Commands : edgeStatus[c] # "none" => status[c] = edgeStatus[c]

---------------------------------------------------------------------------
(* Liveness.                                                               *)

\* A command that was sent to the edge is ACKED or FAILED on the cloud in the end,
\* whatever fails, unless a report ended between its three writes.
CommandsAnswered ==
  \A c \in Commands :
    c \in Sent ~> status[c] \in {"ACKED", "FAILED"} \/ "halfway" \in slips

\* Once the operators have had enough, the edge's outbox rows come to nothing, however
\* often they fail, but for one kind: a command that was applied and whose acknowledgement
\* got lost stays for good.
MessagesLeave ==
  <>[](\A n \in waiting : "unacked" \in slips /\ Refused(messages[n]))

---------------------------------------------------------------------------
(* The inductive invariant of the proofs.                                  *)

IsMade(c)  == c \in Commands /\ command[c] # "none"
IsKnown(c) == c \in Commands /\ edgeStatus[c] # "none"

\* Whatever names a command names one that was made; the edge's name known ones.
NamesAreGood ==
  /\ \A c \in Commands : IsMade(c) => \A d \in 1 .. c : IsMade(d)
  /\ \A r \in Requests : request[r].pc = "send" => IsMade(request[r].cmd)
  /\ \A n \in DOMAIN messages : messages[n].cmd = 0 \/ IsMade(messages[n].cmd)
  /\ \A c \in Commands : IsKnown(c) => IsMade(c)
  /\ \A c \in daemon.jobs : IsKnown(c)
  /\ daemon.pc \in {"post", "wait"} => IsKnown(daemon.cmd)
  /\ \A i \in Posts : post[i].pc # "free" => IsKnown(post[i].cmd)
  /\ edgeNote.sent # 0 => IsKnown(edgeNote.sent)

RowsAreThere ==
  /\ waiting \subseteq DOMAIN messages /\ todo \subseteq waiting
  /\ unsent \subseteq DOMAIN results /\ backoff \subseteq unsent

\* While no report is left alone there is one at a time, the daemon's, and nothing
\* but it takes a command off the PENDING ones.
OneReport ==
  /\ daemon.pc = "send" => daemon.jobs # {}
  /\ NoSlip({"left"}) =>
       /\ daemon.jobs \subseteq Pending
       /\ daemon.pc \in {"post", "wait"} => daemon.cmd \notin daemon.jobs
       /\ daemon.pc = "post" => daemon.cmd \in Pending
       /\ \A i \in Posts : post[i].pc # "free" =>
            /\ daemon.pc = "wait" /\ daemon.slot = i
            /\ post[i].cmd = daemon.cmd /\ post[i].status = daemon.took
            /\ post[i].pc = "status" => daemon.cmd \in Pending

\* A success that is yet to be noted is on the panel.
SuccessIsShown ==
  daemon.pc \in {"post", "wait"} /\ daemon.took = "ACKED" /\ NoSlip({"deaf"})
  => panel = ShownOn(panel, command[daemon.cmd])

\* The panel has left what the board says only for a command that will be noted.
NoteIsShownOrDue ==
  edgeNote.last = "OK" /\ edgeNote.sent # 0 /\ NoSlip({"deaf", "left", "halfway"})
  => \/ panel = ShownOn(panel, command[edgeNote.sent])
     \/ Pending # {}
     \/ \E i \in Posts : post[i].pc = "note"

\* Only a request to set something comes to the board.
AsksToSet ==
  \A r \in Requests :
    request[r].pc \in {"readLines", "sendLines", "board"} => request[r].ask \in Powers \cup Modes

IInv == /\ TypeOK /\ AsksToSet /\ NamesAreGood /\ RowsAreThere /\ OneReport
        /\ SuccessIsShown /\ NoteIsShownOrDue

---------------------------------------------------------------------------
(* What the proofs of the other three properties add, each on top of IInv. *)

\* A command goes out once, and what is sent later is of a newer command.
SentInOrder ==
  /\ \A n, k \in DOMAIN messages : messages[n].cmd = messages[k].cmd => n = k \/ messages[n].cmd = 0
  /\ \A r \in Requests : request[r].pc = "send" =>
       /\ request[r].cmd \notin Sent
       /\ \A q \in Requests \ {r} : request[q].pc = "send" => request[q].cmd # request[r].cmd
  /\ NoSlip({"swapped"}) =>
       \A n, k \in DOMAIN messages : n < k /\ messages[k].cmd # 0 => messages[n].cmd <= messages[k].cmd

\* The edge has a command from a row that was applied; what is after the newest
\* applied row is still to come.
AppliedUpToNewest ==
  /\ newest \in 0 .. Len(messages)
  /\ \A c \in Commands : IsKnown(c) => \E n \in 1 .. newest : messages[n].cmd = c
  /\ \A n \in DOMAIN messages : n > newest => n \in waiting /\ ~Refused(messages[n])

\* Commands that were on the panel, and those that are still owed to it.
Settled(c) == IsKnown(c) /\ (edgeStatus[c] = "PENDING" => daemon.pc \in {"post", "wait"} /\ daemon.cmd = c)
Owed(c)    == IsKnown(c) /\ ~Settled(c)

\* Nothing is skipped or carried out twice, so the panel goes by the commands' order.
InOrder == NoSlip({"swapped", "late", "failed", "deaf", "unreported", "left"})

SettledBeforeOwed ==
  InOrder =>
    /\ \A c, d \in Commands : Settled(c) /\ Owed(d) => c < d
    /\ \A c \in daemon.jobs, d \in Commands : Owed(d) => d \in daemon.jobs \/ c < d
    /\ daemon.pc = "poll" => daemon.jobs = {}
    /\ daemon.pc = "wait" /\ daemon.cmd \in Pending => post[daemon.slot].pc = "status"

NewestSettled(c, kind) ==
  /\ Settled(c) /\ command[c] \in kind
  /\ \A d \in Commands : Settled(d) /\ command[d] \in kind => d <= c

\* A text that broke off is owed, and replaces what is left of it.
PanelInStep ==
  InOrder => \A c \in Commands :
    /\ NewestSettled(c, Powers) => panel.power = command[c]
    /\ NewestSettled(c, Modes)  => \/ panel.text = command[c]
                                   \/ \E d \in Commands : Owed(d) /\ command[d] \in Modes

PanelInv == SentInOrder /\ AppliedUpToNewest /\ SettledBeforeOwed /\ PanelInStep

\* The rows of the outbox that set a setting of the board, and what they leave it at.
Sets(n, s)  == messages[n].cmd = 0 \/ (s = "power" /\ command[messages[n].cmd] \in Powers)
Value(n, s) == IF messages[n].cmd = 0 THEN messages[n].board[s] ELSE command[messages[n].cmd]

Leave(m, s, v) ==
  \/ v = AtFirst[s] /\ \A n \in 1 .. m : ~Sets(n, s)
  \/ \E n \in 1 .. m : Sets(n, s) /\ Value(n, s) = v /\ \A k \in n + 1 .. m : ~Sets(k, s)

\* A row that was passed by is late when it is applied, and until then it is waiting.
PassedBy == \E n \in waiting : n < newest /\ ~Refused(messages[n])

EdgeInStep ==
  NoSlip({"late"}) /\ ~PassedBy => \A s \in {"power", "mode"} : Leave(newest, s, edgeBoard[s])

\* Requests one at a time: what a request has written and not sent yet is in its row,
\* and all else of the board is what the rows that were sent leave it at.
CloudInStep ==
  /\ \A r \in Requests :
       request[r].pc \in {"readLines", "sendLines", "readBoard", "sendBoard", "preview"}
       => request[r].ask \notin Powers
  /\ NoSlip({"overlapped", "stopped"}) =>
       /\ \A q, r \in AtWork : q = r
       /\ \A r \in Requests :
            /\ request[r].pc \in {"sendLines", "sendBoard"} => request[r].seen = board
            /\ request[r].pc \in {"create", "send"} /\ request[r].ask \in Powers =>
                 board.power = request[r].ask
            /\ request[r].pc = "send" =>
                 command[request[r].cmd] = IF request[r].ask \in Powers THEN request[r].ask
                                                                          ELSE request[r].text
       /\ (\A r \in Requests : request[r].pc \notin {"readBoard", "sendBoard"})
          => Leave(Len(messages), "mode", board.mode)
       /\ (\A r \in Requests : request[r].pc \in {"create", "send"} => request[r].ask \notin Powers)
          => Leave(Len(messages), "power", board.power)

BoardInv == SentInOrder /\ AppliedUpToNewest /\ EdgeInStep /\ CloudInStep

\* The last of the edge's rows about a command, and of all that tell a success.
LastAbout(k, c) == results[k].cmd = c /\ \A j \in DOMAIN results : j > k => results[j].cmd # c
LastAcked(k)    == results[k].status = "ACKED" /\ \A j \in DOMAIN results : j > k => results[j].status = "FAILED"

LastOf(s) == IF s = "ACKED" THEN "OK" ELSE "ERROR"

\* n names the command of the last success, and its lastStatus is the last row's, as far
\* as these are among the rows.
SentFollows(n, rows) ==
  /\ (\A k \in DOMAIN results : results[k].status = "FAILED") => n.sent = 0
  /\ \A k \in rows : LastAcked(k) => n.sent = results[k].cmd
LastFollows(n, rows) ==
  /\ results = <<>> => n.last = "OK"
  /\ Len(results) \in rows => n.last = LastOf(results[Len(results)].status)

\* A report that is under way and alone has written what its place says.
EdgeTells ==
  /\ \A k \in DOMAIN results : IsKnown(results[k].cmd)
  /\ NoSlip({"left", "halfway"}) =>
       /\ \A i \in Posts : post[i].pc \in {"note", "result"} => edgeStatus[post[i].cmd] = post[i].status
       /\ \A i \in Posts : post[i].pc = "result" =>
            /\ edgeNote.last = LastOf(post[i].status)
            /\ post[i].status = "ACKED" => edgeNote.sent = post[i].cmd
       /\ \A c \in Commands : edgeStatus[c] \in {"ACKED", "FAILED"} =>
            \/ \E i \in Posts : post[i].pc \in {"note", "result"} /\ post[i].cmd = c
            \/ \E k \in DOMAIN results : LastAbout(k, c) /\ results[k].status = edgeStatus[c]
       /\ (\A i \in Posts : post[i].pc # "result") => LastFollows(edgeNote, DOMAIN results)
       /\ (\A i \in Posts : post[i].pc = "result" => post[i].status = "FAILED")
          => SentFollows(edgeNote, DOMAIN results)

\* Without a row that passes another the cloud has taken the first ones.
CloudFollows ==
  NoSlip({"overtaken"}) =>
    /\ \A k \in unsent, j \in DOMAIN results : k < j => j \in unsent
    /\ \A k \in DOMAIN results \ unsent :
         LastAbout(k, results[k].cmd) => status[results[k].cmd] = results[k].status
    /\ SentFollows(note, DOMAIN results \ unsent) /\ LastFollows(note, DOMAIN results \ unsent)

TellInv == EdgeTells /\ CloudFollows
=============================================================================
