----------------------- MODULE DisplayCommands_proofs -----------------------
(***************************************************************************)
(* Proofs about a display board's commands, for any number of requests,    *)
(* reports at a time and faults: types, that the edge board's last payload *)
(* is what the panel shows, that the panel shows the newest setting, and   *)
(* that cloud and edge agree on the board and on the commands.             *)
(***************************************************************************)
EXTENDS DisplayCommands, FiniteSetTheorems, TLAPS

RequestRows == [pc   : {"new", "readLines", "sendLines", "board", "readBoard", "sendBoard",
                        "preview", "create", "send", "done"},
                ask  : Asks \cup {"none"},
                seen : Boards,
                text : Modes,
                cmd  : {0} \cup Commands]
PostRows    == [pc     : {"free", "status", "note", "result"},
                cmd    : {0} \cup Commands,
                status : {"ACKED", "FAILED"}]
DaemonRows  == [pc    : {"poll", "send", "post", "wait"},
                jobs  : SUBSET Commands,
                cmd   : {0} \cup Commands,
                took  : {"ACKED", "FAILED"},
                slot  : Posts]
MessageRows == [cmd : {0} \cup Commands, board : Boards]
ResultRows  == [cmd : Commands, status : {"ACKED", "FAILED"}]

---------------------------------------------------------------------------
(* The least of some numbers.                                              *)

LEMMA MinIsMember ==
  ASSUME NEW S \in SUBSET Nat, S # {}
  PROVE  Min(S) \in S /\ \A y \in S : Min(S) =< y
  <1>1. PICK x \in S : \A y \in S : ~ (<<y, x>> \in OpToRel(<, Nat))
    BY NatLessThanWellFounded, WFMin
  <1>2. \A y \in S : ~ (y < x)
    BY <1>1 DEF OpToRel
  <1>3. \A y \in S : x =< y
    BY <1>2
  <1> QED BY <1>3 DEF Min

\* The oldest commands of a list that is not empty are some.
LEMMA JobsAreThere ==
  ASSUME TypeOK, Pending # {}
  PROVE  {c \in Pending : Cardinality({d \in Pending : d < c}) < JobLimit} # {}
  <1>1. Pending \in SUBSET Nat
    BY DEF Pending, Commands
  <1>2. Min(Pending) \in Pending /\ \A y \in Pending : Min(Pending) =< y
    BY <1>1, MinIsMember
  <1>3. {d \in Pending : d < Min(Pending)} = {}
    <2>1. \A d \in Pending : Min(Pending) \in Nat /\ d \in Nat /\ Min(Pending) =< d
      BY <1>1, <1>2
    <2>2. \A d \in Pending : ~ (d < Min(Pending))
      BY <2>1
    <2> QED BY <2>2
  <1>4. Cardinality({d \in Pending : d < Min(Pending)}) = 0
    BY <1>3, FS_EmptySet
  <1> QED BY <1>2, <1>4, BoundAssumption

\* The number of a new command is not taken.
LEMMA NewNumber ==
  ASSUME TypeOK, NamesAreGood
  PROVE  Made \in Nat /\ ~IsMade(Made + 1) /\ \A d \in 1 .. Made : IsMade(d)
  <1> DEFINE S == {c \in Commands : command[c] # "none"}
  <1>1. IsFiniteSet(1 .. MaxRequests) /\ S \subseteq 1 .. MaxRequests
    BY FS_Interval, BoundAssumption DEF Commands
  <1>2. IsFiniteSet(S) /\ Cardinality(S) \in Nat
    BY <1>1, FS_Subset, FS_CardinalityType
  <1>3. ASSUME IsMade(Made + 1) PROVE FALSE
    <2>1. 1 .. (Made + 1) \subseteq S
      BY <1>2, <1>3 DEF NamesAreGood, IsMade, Made
    <2>2. Cardinality(1 .. (Made + 1)) = Made + 1
      BY <1>2, FS_Interval DEF Made
    <2>3. Made + 1 =< Cardinality(S)
      BY <1>2, <2>1, <2>2, FS_Subset
    <2> QED BY <1>2, <2>3 DEF Made
  <1>4. ASSUME NEW d \in 1 .. Made, ~IsMade(d) PROVE FALSE
    <2>1. d \in Nat /\ d - 1 \in Nat /\ d =< Made
      BY <1>2 DEF Made
    <2>2. ASSUME NEW c \in S PROVE c \in 1 .. (d - 1)
      <3>1. c \in Commands /\ IsMade(c) /\ c \in Nat \ {0}
        BY <1>1 DEF IsMade, Commands
      <3>2. d \notin 1 .. c
        BY <1>4, <3>1 DEF NamesAreGood
      <3> QED BY <2>1, <3>1, <3>2, <1>4
    <2>3. IsFiniteSet(1 .. (d - 1)) /\ Cardinality(1 .. (d - 1)) = d - 1
      BY <2>1, FS_Interval
    <2>4. Cardinality(S) =< d - 1
      BY <2>2, <2>3, FS_Subset
    <2> QED BY <1>2, <2>1, <2>4 DEF Made
  <1> QED BY <1>2, <1>3, <1>4 DEF Made

---------------------------------------------------------------------------
(* Types.                                                                  *)

LEMMA InitTypeOK == Init => TypeOK
  <1> SUFFICES ASSUME Init PROVE TypeOK
    OBVIOUS
  <1>1. AtFirst \in Boards
    BY DEF AtFirst, Boards, Powers, Modes
  <1>2. request \in [Requests -> RequestRows]
    BY <1>1 DEF Init, RequestRows, Modes
  <1>3. Polling.slot \in Posts /\ daemon \in DaemonRows
    BY PostsAssumption DEF Init, Polling, DaemonRows
  <1>4. note \in Notes /\ edgeNote \in Notes
    BY DEF Init, Notes
  <1>5. post \in [Posts -> PostRows]
    BY DEF Init, NoPost, PostRows
  <1>6. panel \in [power : Powers, text : Modes \cup {"torn"}]
    BY DEF Init, Powers, Modes
  <1> QED
    BY <1>1, <1>2, <1>3, <1>4, <1>5, <1>6
    DEF Init, TypeOK, RequestRows, DaemonRows, PostRows, Slips

\* The settings of a board and what a panel shows.
LEMMA SettingTypes ==
  /\ \A b \in Boards, v \in Powers \cup Modes : SetOn(b, v) \in Boards
  /\ \A p \in [power : Powers, text : Modes \cup {"torn"}], v \in Powers \cup Modes :
       ShownOn(p, v) \in [power : Powers, text : Modes \cup {"torn"}]
  /\ \A n \in Notes, c \in Commands, r \in {"ACKED", "FAILED"} : Noted(n, c, r) \in Notes
  /\ AtFirst \in Boards /\ NoPost \in PostRows
  <1>1. \A b \in Boards, v \in Powers \cup Modes : SetOn(b, v) \in Boards
    BY DEF SetOn, Boards
  <1>2. \A p \in [power : Powers, text : Modes \cup {"torn"}], v \in Powers \cup Modes :
          ShownOn(p, v) \in [power : Powers, text : Modes \cup {"torn"}]
    BY DEF ShownOn
  <1>3. \A n \in Notes, c \in Commands, r \in {"ACKED", "FAILED"} : Noted(n, c, r) \in Notes
    BY DEF Noted, Notes
  <1>4. AtFirst \in Boards /\ NoPost \in PostRows
    BY DEF AtFirst, Boards, Powers, Modes, NoPost, PostRows
  <1> QED BY <1>1, <1>2, <1>3, <1>4

LEMMA OperatorTypes ==
  ASSUME TypeOK, AsksToSet, NEW r \in Requests, Operator(r) \/ RequestStops(r)
  PROVE  TypeOK'
  <1>0. request \in [Requests -> RequestRows] /\ request[r] \in RequestRows
    BY DEF TypeOK, RequestRows
  <1>1. slips' \in SUBSET Slips
    <2>1. slips \in SUBSET Slips
      BY DEF TypeOK
    <2> QED
      BY <2>1 DEF Operator, RequestStops, Ask, ReadBoard, SendBoard, WriteBoard, Preview, Create,
         SendCommand, Slip, Slips
  <1>2. ASSUME NEW ask \in Asks, Ask(r, ask) PROVE TypeOK'
    <2>1. FirstStep(ask) \in {"board", "readLines", "preview"}
      <3>1. CASE ask \in Powers \cup {"AUTO"}
        BY <3>1 DEF FirstStep, Powers
      <3>2. CASE ask = "MANUAL"
        BY <3>2 DEF FirstStep, Powers
      <3>3. CASE ask = "PUBLISH"
        BY <3>3 DEF FirstStep, Powers
      <3> QED BY <3>1, <3>2, <3>3, AsksAssumption DEF Modes
    <2>2. request' \in [Requests -> RequestRows]
      BY <1>0, <1>2, <2>1 DEF Ask, RequestRows
    <2> QED BY <1>1, <1>2, <2>2 DEF Ask, TypeOK, RequestRows, down, edge, up
  <1>3. CASE ReadBoard(r) \/ Preview(r)
    <2>1. board \in Boards /\ board.mode \in Modes
      BY DEF TypeOK, Boards
    <2>2. ASSUME ReadBoard(r) PROVE request' \in [Requests -> RequestRows]
      <3> DEFINE p == IF request[r].pc = "readLines" THEN "sendLines" ELSE "sendBoard"
      <3>1. [request[r] EXCEPT !.pc = p, !.seen = board] \in RequestRows
        BY <1>0, <2>1 DEF RequestRows
      <3>2. request' = [request EXCEPT ![r] = [request[r] EXCEPT !.pc = p, !.seen = board]]
        BY <1>0, <2>2 DEF ReadBoard, RequestRows
      <3> QED BY <1>0, <3>1, <3>2
    <2>3. ASSUME Preview(r) PROVE request' \in [Requests -> RequestRows]
      <3> DEFINE p == "create"
      <3>1. [request[r] EXCEPT !.pc = p, !.text = board.mode] \in RequestRows
        BY <1>0, <2>1 DEF RequestRows
      <3>2. request' = [request EXCEPT ![r] = [request[r] EXCEPT !.pc = p, !.text = board.mode]]
        BY <1>0, <2>3 DEF Preview, RequestRows
      <3> QED BY <1>0, <3>1, <3>2
    <2>4. request' \in [Requests -> RequestRows]
      BY <1>3, <2>2, <2>3
    <2>5. UNCHANGED <<command, status, board, note, down, edge, post, daemon, panel, up, faults, slips>>
      BY <1>3 DEF ReadBoard, Preview
    <2> HIDE DEF RequestRows
    <2> QED BY <2>4, <2>5 DEF TypeOK, RequestRows, down, edge, up
  <1>4. ASSUME NEW m \in MessageRows, Send(m)
        PROVE  messages' \in Seq(MessageRows) /\ waiting' \in SUBSET Nat
               /\ todo' \in SUBSET Nat /\ newest' \in Nat
    <2>1. messages \in Seq(MessageRows) /\ waiting \in SUBSET Nat /\ todo \in SUBSET Nat
          /\ newest \in Nat
      BY DEF TypeOK, MessageRows
    <2>2. Len(messages) + 1 \in Nat /\ Append(messages, m) \in Seq(MessageRows)
      BY <2>1
    <2> QED BY <1>4, <2>1, <2>2 DEF Send
  <1>5. CASE SendBoard(r)
    <2>1. [cmd |-> 0, board |-> request[r].seen] \in MessageRows
      BY <1>0 DEF MessageRows, RequestRows
    <2>2. request' \in [Requests -> RequestRows]
      BY <1>0, <1>5 DEF SendBoard, RequestRows
    <2> QED BY <1>1, <1>4, <1>5, <2>1, <2>2 DEF SendBoard, TypeOK, RequestRows, MessageRows, edge, up
  <1>6. CASE SendCommand(r)
    <2>1. [cmd |-> request[r].cmd, board |-> AtFirst] \in MessageRows
      BY <1>0, SettingTypes DEF MessageRows, RequestRows
    <2>2. request' \in [Requests -> RequestRows]
      BY <1>0, <1>6 DEF SendCommand, RequestRows
    <2> QED BY <1>1, <1>4, <1>6, <2>1, <2>2 DEF SendCommand, TypeOK, RequestRows, MessageRows, edge, up
  <1>7. CASE WriteBoard(r)
    <2>1. request' \in [Requests -> RequestRows]
      BY <1>0, <1>7 DEF WriteBoard, RequestRows
    <2>2. request[r].ask \in Powers \cup Modes
      BY <1>7 DEF WriteBoard, AsksToSet
    <2>3. board' \in Boards
      BY <1>7, <2>2, SettingTypes DEF WriteBoard, TypeOK
    <2> QED BY <1>1, <1>7, <2>1, <2>3 DEF WriteBoard, TypeOK, RequestRows, down, edge, up
  <1>8. CASE Create(r)
    <2>1. request' \in [Requests -> RequestRows]
      BY <1>0, <1>8 DEF Create, RequestRows
    <2>2. command' \in [Commands -> Powers \cup Modes \cup {"none"}]
      BY <1>0, <1>8 DEF Create, RequestRows, TypeOK
    <2>3. status' \in [Commands -> {"none", "PENDING", "ACKED", "FAILED"}]
      BY <1>8 DEF Create, TypeOK
    <2> QED BY <1>1, <1>8, <2>1, <2>2, <2>3 DEF Create, TypeOK, RequestRows, down, edge, up
  <1>9. CASE RequestStops(r)
    <2>1. request' \in [Requests -> RequestRows]
      BY <1>0, <1>9 DEF RequestStops, RequestRows
    <2> QED BY <1>1, <1>9, <2>1 DEF RequestStops, Fault, TypeOK, RequestRows, down, edge, up
  <1> QED BY <1>2, <1>3, <1>5, <1>6, <1>7, <1>8, <1>9 DEF Operator

\* A list of jobs that is not empty has its next one.
LEMMA NextJobType ==
  ASSUME NEW S \in SUBSET Commands, S # {}
  PROVE  NextJob(S) \in S
  <1>1. S \in SUBSET Nat
    BY DEF Commands
  <1> QED BY <1>1, MinIsMember DEF NextJob

LEMMA ElementOfSeq ==
  ASSUME NEW S, NEW q \in Seq(S), NEW k \in DOMAIN q
  PROVE  q[k] \in S /\ k \in Nat
  <1>1. k \in 1 .. Len(q)
    OBVIOUS
  <1> QED BY <1>1

LEMMA MaxOfTwo ==
  ASSUME NEW a \in Nat, NEW b \in Nat
  PROVE  Max({a, b}) \in Nat
  <1>1. \E x \in {a, b} : \A y \in {a, b} : x >= y
    BY a >= b \/ b >= a
  <1> QED BY <1>1 DEF Max

LEMMA PullerTypes ==
  ASSUME TypeOK, NamesAreGood, RowsAreThere, Puller
  PROVE  TypeOK'
  <1>1. CASE StartRun
    BY <1>1 DEF StartRun, TypeOK, cloud, edge, up
  <1>2. CASE Apply
    <2> DEFINE n == Min(todo)
               m == messages[n]
    <2>1. n \in todo /\ n \in Nat /\ n \in DOMAIN messages
      BY <1>2, MinIsMember DEF Apply, TypeOK, RowsAreThere
    <2>2. m \in [cmd : {0} \cup Commands, board : Boards]
      <3>1. messages \in Seq([cmd : {0} \cup Commands, board : Boards])
        BY DEF TypeOK
      <3> QED BY <2>1, <3>1, ElementOfSeq
    <2>3. BoardAfter(m) \in Boards
      <3>1. m.cmd # 0 /\ command[m.cmd] \in Powers => SetOn(edgeBoard, command[m.cmd]) \in Boards
        BY SettingTypes DEF TypeOK
      <3> QED BY <2>2, <3>1 DEF BoardAfter, TypeOK
    <2>4. edgeBoard' \in Boards
      BY <1>2, <2>3 DEF Apply, TypeOK
    <2>5. edgeStatus' \in [Commands -> {"none", "PENDING", "ACKED", "FAILED"}]
      BY <1>2 DEF Apply, TypeOK
    <2>6. newest' \in Nat
      <3>1. Max({newest, n}) \in Nat
        BY <2>1, MaxOfTwo DEF TypeOK
      <3> QED BY <1>2, <3>1 DEF Apply, TypeOK
    <2>7. slips' \in SUBSET Slips
      <3>1. slips \in SUBSET Slips
        BY DEF TypeOK
      <3>2. slips' \subseteq slips \cup Slips
        BY <1>2 DEF Apply, Slip, Slips
      <3> QED BY <3>1, <3>2
    <2>8. waiting' \in SUBSET Nat /\ todo' \in SUBSET Nat
      <3>1. waiting \in SUBSET Nat /\ todo \in SUBSET Nat
        BY DEF TypeOK
      <3>2. waiting' \in {waiting, waiting \ {n}} /\ todo' = todo \ {n}
        BY <1>2 DEF Apply
      <3> QED BY <3>1, <3>2
    <2>9. faults' \in Nat
      BY <1>2 DEF Apply, Fault, TypeOK
    <2> QED BY <1>2, <2>4, <2>5, <2>6, <2>7, <2>8, <2>9 DEF Apply, TypeOK, cloud, up
  <1> QED BY <1>1, <1>2 DEF Puller

LEMMA DaemonTypes ==
  ASSUME TypeOK, OneReport, NamesAreGood, Daemon \/ DaemonRestarts
  PROVE  TypeOK'
  <1>0. daemon \in DaemonRows /\ Pending \subseteq Commands
    BY DEF TypeOK, DaemonRows, Pending
  <1>1. slips' \in SUBSET Slips /\ faults' \in Nat
    <2>0. slips \in SUBSET Slips /\ faults \in Nat
      BY DEF TypeOK
    <2>1. CASE Fetch
      BY <2>0, <2>1 DEF Fetch
    <2>2. CASE Execute
      <3>1. slips' \in {slips, slips \cup {"failed"}, slips \cup {"deaf"}}
        BY <2>2 DEF Execute, Slip
      <3>2. faults' = faults \/ faults' = faults + 1
        BY <2>2 DEF Execute, Fault
      <3> QED BY <2>0, <3>1, <3>2 DEF Slips
    <2>3. CASE Report
      <3>1. slips' \in {slips, slips \cup {"unreported"}}
        BY <2>3 DEF Report, Slip
      <3>2. faults' = faults \/ faults' = faults + 1
        BY <2>3 DEF Report, Fault
      <3> QED BY <2>0, <3>1, <3>2 DEF Slips
    <2>4. CASE Answered
      BY <2>0, <2>4 DEF Answered, Slip, Slips, Fault
    <2>5. CASE DaemonRestarts
      BY <2>0, <2>5 DEF DaemonRestarts, Slips, Fault
    <2> QED BY <2>1, <2>2, <2>3, <2>4, <2>5 DEF Daemon
  <1>2. AfterJob \in {"poll", "send"}
    BY DEF AfterJob
  <1>3. CASE Fetch
    <2>1. daemon' \in DaemonRows
      BY <1>0, <1>3 DEF Fetch, DaemonRows
    <2> QED BY <1>1, <1>3, <2>1 DEF Fetch, TypeOK, DaemonRows, cloud, down, edge, up
  <1>4. CASE Execute
    <2> DEFINE c == NextJob(daemon.jobs)
    <2>1. c \in daemon.jobs /\ c \in Commands
      BY <1>0, <1>4, NextJobType DEF Execute, OneReport, DaemonRows
    <2>2. command[c] \in Powers \cup Modes
      BY <2>1 DEF NamesAreGood, IsKnown, IsMade, TypeOK
    <2>3. daemon' \in DaemonRows
      <3>1. ASSUME NEW s \in {"ACKED", "FAILED"}
            PROVE  [daemon EXCEPT !.pc = "post", !.jobs = @ \ {c}, !.cmd = c, !.took = s]
                     \in DaemonRows
        <4>1. daemon.jobs \ {c} \in SUBSET Commands
          BY <1>0 DEF DaemonRows
        <4> HIDE DEF c
        <4> QED BY <1>0, <2>1, <4>1 DEF DaemonRows
      <3>2. \E s \in {"ACKED", "FAILED"} :
              daemon' = [daemon EXCEPT !.pc = "post", !.jobs = @ \ {c}, !.cmd = c, !.took = s]
        BY <1>4 DEF Execute
      <3> HIDE DEF c
      <3> QED BY <3>1, <3>2
    <2>4. ShownOn(panel, command[c]) \in [power : Powers, text : Modes \cup {"torn"}]
      BY <2>2, SettingTypes DEF TypeOK
    <2>5. [panel EXCEPT !.text = "torn"] \in [power : Powers, text : Modes \cup {"torn"}]
      BY DEF TypeOK
    <2>6. panel' \in {panel, ShownOn(panel, command[c]), [panel EXCEPT !.text = "torn"]}
      BY <1>4 DEF Execute, Broken
    <2> QED
      BY <1>1, <1>4, <2>3, <2>4, <2>5, <2>6
      DEF Execute, TypeOK, DaemonRows, cloud, down, edge, up
  <1>5. CASE Report
    <2>1. daemon' \in DaemonRows
      BY <1>0, <1>2, <1>5 DEF Report, DaemonRows
    <2>2. [pc |-> "status", cmd |-> daemon.cmd, status |-> daemon.took] \in PostRows
      BY <1>0 DEF PostRows, DaemonRows
    <2>3. post' \in [Posts -> PostRows]
      <3> DEFINE row == [pc |-> "status", cmd |-> daemon.cmd, status |-> daemon.took]
      <3>1. post \in [Posts -> PostRows]
        BY DEF TypeOK, PostRows
      <3>2. post' = post \/ \E i \in Posts : post' = [post EXCEPT ![i] = row]
        BY <1>5 DEF Report
      <3> HIDE DEF row
      <3>3. row \in PostRows
        BY <2>2 DEF row
      <3> QED BY <3>1, <3>2, <3>3
    <2> QED BY <1>1, <1>5, <2>1, <2>3 DEF Report, TypeOK, DaemonRows, PostRows, cloud, down, edge, up
  <1>6. CASE Answered
    <2>1. daemon' \in DaemonRows
      BY <1>0, <1>2, <1>6 DEF Answered, DaemonRows
    <2> QED BY <1>1, <1>6, <2>1 DEF Answered, TypeOK, DaemonRows, cloud, down, edge, up
  <1>7. CASE DaemonRestarts
    <2>1. Polling \in DaemonRows
      BY PostsAssumption DEF Polling, DaemonRows
    <2>2. panel' \in [power : Powers, text : Modes \cup {"torn"}]
      <3>1. panel' \in {panel, [panel EXCEPT !.text = "torn"]}
        BY <1>7 DEF DaemonRestarts, Broken
      <3>2. [panel EXCEPT !.text = "torn"] \in [power : Powers, text : Modes \cup {"torn"}]
        BY DEF TypeOK
      <3> QED BY <3>1, <3>2 DEF TypeOK
    <2> QED BY <1>1, <1>7, <2>1, <2>2 DEF DaemonRestarts, TypeOK, DaemonRows, cloud, down, edge, up
  <1> QED BY <1>3, <1>4, <1>5, <1>6, <1>7 DEF Daemon

LEMMA ReportTypes ==
  ASSUME TypeOK, NamesAreGood, NEW i \in Posts,
         WriteStatus(i) \/ WriteNote(i) \/ WriteResult(i) \/ ReportStops(i)
  PROVE  TypeOK'
  <1>0. post \in [Posts -> PostRows] /\ post[i] \in PostRows
        /\ post[i].cmd \in Commands /\ post[i].status \in {"ACKED", "FAILED"}
    BY DEF TypeOK, PostRows, NamesAreGood, IsKnown, WriteStatus, WriteNote, WriteResult, ReportStops
  <1>1. post' \in [Posts -> PostRows]
    <2>1. CASE WriteStatus(i)
      BY <1>0, <2>1 DEF WriteStatus, PostRows
    <2>2. CASE WriteNote(i)
      BY <1>0, <2>2 DEF WriteNote, PostRows
    <2>3. CASE WriteResult(i) \/ ReportStops(i)
      BY <1>0, <2>3, SettingTypes DEF WriteResult, ReportStops
    <2> QED BY <2>1, <2>2, <2>3
  <1>2. CASE WriteStatus(i)
    BY <1>0, <1>1, <1>2 DEF WriteStatus, TypeOK, PostRows, cloud, down, up
  <1>3. CASE WriteNote(i)
    <2>1. edgeNote' \in Notes
      BY <1>0, <1>3, SettingTypes DEF WriteNote, TypeOK
    <2> QED BY <1>1, <1>3, <2>1 DEF WriteNote, TypeOK, PostRows, cloud, down, up
  <1>4. CASE WriteResult(i)
    <2>1. [cmd |-> post[i].cmd, status |-> post[i].status] \in ResultRows
      BY <1>0 DEF ResultRows
    <2>2. results \in Seq(ResultRows) /\ unsent \in SUBSET Nat /\ Len(results) + 1 \in Nat
      BY DEF TypeOK, ResultRows
    <2>3. results' \in Seq(ResultRows)
      BY <1>4, <2>1, <2>2 DEF WriteResult
    <2>4. unsent' \in SUBSET Nat
      BY <1>4, <2>2 DEF WriteResult
    <2> QED BY <1>1, <1>4, <2>3, <2>4 DEF WriteResult, TypeOK, PostRows, ResultRows, cloud, down, edge
  <1>5. CASE ReportStops(i)
    <2>1. slips' \in SUBSET Slips /\ faults' \in Nat
      BY <1>5 DEF ReportStops, Fault, Slip, Slips, TypeOK
    <2> QED BY <1>1, <1>5, <2>1 DEF ReportStops, TypeOK, PostRows, cloud, down, edge, up
  <1> QED BY <1>2, <1>3, <1>4, <1>5

LEMMA TellingTypes ==
  ASSUME TypeOK, RowsAreThere, NEW k \in unsent, TakeResult(k)
  PROVE  TypeOK'
  <1> DEFINE c == results[k].cmd
             s == results[k].status
  <1>0. results \in Seq(ResultRows) /\ unsent \in SUBSET Nat /\ backoff \in SUBSET Nat
        /\ slips \in SUBSET Slips /\ faults \in Nat /\ note \in Notes
    BY DEF TypeOK, ResultRows
  <1>1. results[k] \in ResultRows /\ k \in Nat
    <2>1. k \in DOMAIN results
      BY DEF RowsAreThere
    <2> QED BY <1>0, <2>1, ElementOfSeq
  <1>2. c \in Commands /\ s \in {"ACKED", "FAILED"}
    BY <1>1 DEF ResultRows
  <1>3. Noted(note, c, s) \in Notes
    BY <1>0, <1>2, SettingTypes
  <1>4. status' \in [Commands -> {"none", "PENDING", "ACKED", "FAILED"}]
    <2>1. status' \in {status, [status EXCEPT ![c] = s]}
      BY DEF TakeResult
    <2> QED BY <1>2, <2>1 DEF TypeOK
  <1>5. note' \in Notes
    <2>1. note' \in {note, Noted(note, c, s)}
      BY DEF TakeResult
    <2> QED BY <1>0, <1>3, <2>1
  <1>6. slips' \in SUBSET Slips /\ faults' \in Nat
    <2>1. slips' \in {slips, slips \cup {"overtaken"}}
      BY DEF TakeResult, Slip
    <2>2. faults' = faults \/ faults' = faults + 1
      BY DEF TakeResult, Fault
    <2> QED BY <1>0, <2>1, <2>2 DEF Slips
  <1>7. unsent' \in SUBSET Nat /\ backoff' \in SUBSET Nat
    <2>1. unsent' \in {unsent, unsent \ {k}} /\ backoff' \in {backoff \ {k}, backoff \cup {k}}
      BY DEF TakeResult
    <2> QED BY <1>0, <1>1, <2>1
  <1> QED BY <1>4, <1>5, <1>6, <1>7 DEF TakeResult, TypeOK, down, edge

---------------------------------------------------------------------------
(* Every step keeps the invariant.                                         *)

\* What is named stays what it was.
LEMMA NamesStay ==
  ASSUME TypeOK, NamesAreGood, Next
  PROVE  \A c \in Commands : IsMade(c) => IsMade(c)' /\ command'[c] = command[c]
  <1>1. CASE command' = command
    BY <1>1 DEF IsMade
  <1>2. ASSUME NEW r \in Requests, Create(r)
        PROVE  \A c \in Commands : IsMade(c) => IsMade(c)' /\ command'[c] = command[c]
    <2>1. \A c \in Commands : IsMade(c) => c # Made + 1
      BY NewNumber
    <2>2. \A c \in Commands \ {Made + 1} : command'[c] = command[c]
      BY <1>2 DEF Create, TypeOK
    <2> QED BY <2>1, <2>2 DEF IsMade
  <1> QED
    BY <1>1, <1>2
    DEF Next, Operator, Ask, ReadBoard, SendBoard, WriteBoard, Preview, SendCommand, RequestStops,
        Puller, StartRun, Apply, Daemon, Fetch, Execute, Report, Answered, DaemonRestarts,
        Reporting, WriteStatus, WriteNote, WriteResult, ReportStops, Telling, TakeResult, cloud

LEMMA CreateMakes ==
  ASSUME IInv, NEW r \in Requests, Create(r), NEW k, k = Made + 1
  PROVE  IsMade(k)'
  <1>0. request \in [Requests -> RequestRows] /\ k \in Commands
    BY DEF IInv, TypeOK, RequestRows, Create
  <1>1. command'[k] = IF request[r].ask \in Powers THEN request[r].ask ELSE request[r].text
    BY <1>0 DEF Create, IInv, TypeOK
  <1>2. request[r].text \in Modes
    BY <1>0 DEF RequestRows
  <1> QED BY <1>0, <1>1, <1>2 DEF IsMade, Powers, Modes

\* A request comes to send its command when it has made one.
LEMMA OnlyMadeOnesGoOut ==
  ASSUME TypeOK, NEW r \in Requests, Operator(r) \/ RequestStops(r), ~Create(r)
  PROVE  request'[r].pc # "send"
  <1>0. request \in [Requests -> RequestRows]
    BY DEF TypeOK, RequestRows
  <1>1. ASSUME NEW ask \in Asks, Ask(r, ask) PROVE request'[r].pc # "send"
    <2>1. request'[r].pc = FirstStep(ask)
      BY <1>0, <1>1 DEF Ask, RequestRows
    <2>2. ask \in Powers \cup {"AUTO"} \/ ask = "MANUAL" \/ ask = "PUBLISH"
      BY AsksAssumption DEF Modes
    <2> QED BY <2>1, <2>2 DEF FirstStep, Powers
  <1>2. CASE ReadBoard(r)
    BY <1>0, <1>2 DEF ReadBoard, RequestRows
  <1>3. CASE SendBoard(r)
    BY <1>0, <1>3 DEF SendBoard, RequestRows
  <1>4. CASE WriteBoard(r) \/ Preview(r)
    BY <1>0, <1>4 DEF WriteBoard, Preview, RequestRows
  <1>5. CASE SendCommand(r) \/ RequestStops(r)
    BY <1>0, <1>5 DEF SendCommand, RequestStops, RequestRows
  <1> QED BY <1>1, <1>2, <1>3, <1>4, <1>5 DEF Operator

LEMMA OperatorStep ==
  ASSUME IInv, NEW r \in Requests, Operator(r) \/ RequestStops(r)
  PROVE  IInv'
  <1>0. request \in [Requests -> RequestRows]
    BY DEF IInv, TypeOK, RequestRows
  <1>1. TypeOK'
    BY OperatorTypes DEF IInv
  <1>2. UNCHANGED <<edge, post, daemon, panel, up>> /\ slips \subseteq slips'
    BY DEF Operator, RequestStops, Ask, ReadBoard, SendBoard, WriteBoard, Preview, Create,
       SendCommand, Slip
  <1>3. \A c \in Commands : IsMade(c) => IsMade(c)' /\ command'[c] = command[c]
    BY NamesStay DEF IInv, Next
  <1>4. AsksToSet'
    <2>1. \A q \in Requests \ {r} : request'[q] = request[q]
      BY <1>0 DEF Operator, RequestStops, Ask, ReadBoard, SendBoard, WriteBoard, Preview, Create,
         SendCommand
    <2>2. ASSUME request'[r].pc \in {"readLines", "sendLines", "board"}
          PROVE  request'[r].ask \in Powers \cup Modes
      <3>1. ASSUME NEW ask \in Asks, Ask(r, ask) PROVE request'[r].ask \in Powers \cup Modes
        <4>1. request'[r].pc = FirstStep(ask) /\ request'[r].ask = ask
          BY <1>0, <3>1 DEF Ask, RequestRows
        <4>2. ask # "PUBLISH"
          BY <2>2, <4>1 DEF FirstStep, Powers
        <4> QED BY <4>1, <4>2, AsksAssumption
      <3>2. CASE ReadBoard(r) \/ SendBoard(r)
        <4>1. request[r].pc \in {"readLines", "sendLines"} /\ request'[r].ask = request[r].ask
          BY <1>0, <2>2, <3>2 DEF ReadBoard, SendBoard, RequestRows
        <4> QED BY <4>1 DEF IInv, AsksToSet
      <3>3. CASE WriteBoard(r) \/ Preview(r) \/ Create(r) \/ SendCommand(r) \/ RequestStops(r)
        <4>1. CASE WriteBoard(r)
          BY <1>0, <2>2, <4>1 DEF WriteBoard, RequestRows
        <4>2. CASE Preview(r)
          BY <1>0, <2>2, <4>2 DEF Preview, RequestRows
        <4>3. CASE Create(r)
          BY <1>0, <2>2, <4>3 DEF Create, RequestRows
        <4>4. CASE SendCommand(r) \/ RequestStops(r)
          BY <1>0, <2>2, <4>4 DEF SendCommand, RequestStops, RequestRows
        <4> QED BY <3>3, <4>1, <4>2, <4>3, <4>4
      <3> QED BY <3>1, <3>2, <3>3 DEF Operator
    <2> QED BY <2>1, <2>2 DEF IInv, AsksToSet
  <1>5. NamesAreGood'
    <2>1. (\A c \in Commands : IsMade(c) => \A d \in 1 .. c : IsMade(d))'
      <3>1. CASE command' = command
        BY <3>1 DEF IInv, NamesAreGood, IsMade
      <3>2. CASE Create(r)
        <4>0. PICK k : k = Made + 1
          OBVIOUS
        <4>1. k - 1 \in Nat /\ k = (k - 1) + 1 /\ \A d \in 1 .. (k - 1) : IsMade(d)
          BY <4>0, NewNumber DEF IInv
        <4>2. IsMade(k)'
          BY <3>2, <4>0, CreateMakes
        <4>3. \A d \in 1 .. k : IsMade(d)'
          <5>1. \A d \in 1 .. k : d \in 1 .. (k - 1) \/ d = k
            BY <4>1
          <5> QED BY <1>3, <4>1, <4>2, <5>1 DEF IsMade
        <4>4. ASSUME NEW c \in Commands, IsMade(c)', c # k PROVE \A d \in 1 .. c : IsMade(d)'
          <5>1. IsMade(c)
            BY <3>2, <4>0, <4>4 DEF Create, IsMade, IInv, TypeOK
          <5> QED BY <1>3, <5>1 DEF IInv, NamesAreGood, IsMade
        <4> QED BY <4>3, <4>4
      <3> QED
        BY <3>1, <3>2 DEF Operator, RequestStops, Ask, ReadBoard, SendBoard, WriteBoard, Preview,
           SendCommand
    <2>2. (\A q \in Requests : request[q].pc = "send" => IsMade(request[q].cmd))'
      <3>1. \A q \in Requests \ {r} : request'[q] = request[q]
        BY <1>0 DEF Operator, RequestStops, Ask, ReadBoard, SendBoard, WriteBoard, Preview, Create,
           SendCommand
      <3>2. CASE Create(r)
        <4>0. PICK k : k = Made + 1
          OBVIOUS
        <4>1. request'[r].cmd = k
          BY <1>0, <3>2, <4>0 DEF Create, RequestRows
        <4>2. IsMade(k)'
          BY <3>2, <4>0, CreateMakes
        <4> QED BY <1>3, <3>1, <4>1, <4>2 DEF IInv, NamesAreGood, IsMade
      <3>3. CASE ~Create(r)
        <4>1. request'[r].pc # "send"
          BY <3>3, OnlyMadeOnesGoOut DEF IInv
        <4> QED BY <1>3, <3>1, <4>1 DEF IInv, NamesAreGood, IsMade
      <3> QED BY <3>2, <3>3
    <2>3. (\A n \in DOMAIN messages : messages[n].cmd = 0 \/ IsMade(messages[n].cmd))'
      <3>1. messages \in Seq(MessageRows)
        BY DEF IInv, TypeOK, MessageRows
      <3>2. CASE messages' = messages
        BY <1>3, <3>2 DEF IInv, NamesAreGood, IsMade
      <3>3. ASSUME NEW m, messages' = Append(messages, m), m.cmd = 0 \/ IsMade(m.cmd)
            PROVE  (\A n \in DOMAIN messages : messages[n].cmd = 0 \/ IsMade(messages[n].cmd))'
        <4>1. \A n \in DOMAIN messages' : n \in DOMAIN messages \/ n = Len(messages) + 1
          BY <3>1, <3>3
        <4>2. messages'[Len(messages) + 1] = m
          BY <3>1, <3>3
        <4>3. \A n \in DOMAIN messages : messages'[n] = messages[n]
          BY <3>1, <3>3
        <4> QED BY <1>3, <3>3, <4>1, <4>2, <4>3 DEF IInv, NamesAreGood, IsMade
      <3>4. CASE SendBoard(r)
        BY <3>3, <3>4 DEF SendBoard, Send
      <3>5. CASE SendCommand(r)
        <4>1. IsMade(request[r].cmd)
          BY <3>5 DEF SendCommand, IInv, NamesAreGood
        <4> QED BY <3>3, <3>5, <4>1 DEF SendCommand, Send
      <3> QED
        BY <3>2, <3>4, <3>5 DEF Operator, RequestStops, Ask, ReadBoard, WriteBoard, Preview, Create,
           down
    <2> QED BY <1>2, <1>3, <2>1, <2>2, <2>3 DEF IInv, NamesAreGood, IsKnown, IsMade, edge
  <1>6. RowsAreThere'
    <2>1. UNCHANGED <<todo, results, unsent, backoff>>
      BY <1>2 DEF Operator, RequestStops, Ask, ReadBoard, SendBoard, WriteBoard, Preview, Create,
         SendCommand, Send, down, up
    <2>2. UNCHANGED <<messages, waiting>> \/ \E m : Send(m)
      BY DEF Operator, RequestStops, Ask, ReadBoard, SendBoard, WriteBoard, Preview, Create,
         SendCommand, down
    <2>3. messages \in Seq(MessageRows)
      BY DEF IInv, TypeOK, MessageRows
    <2>4. ASSUME NEW m, Send(m) PROVE waiting' \subseteq DOMAIN messages' /\ waiting \subseteq waiting'
      <3>1. DOMAIN messages' = DOMAIN messages \cup {Len(messages) + 1}
        BY <2>3, <2>4 DEF Send
      <3> QED BY <2>4, <3>1 DEF Send, IInv, RowsAreThere
    <2> QED BY <2>1, <2>2, <2>4 DEF IInv, RowsAreThere
  <1>7. OneReport' /\ SuccessIsShown' /\ NoteIsShownOrDue'
    <2>1. NoSlip({"left"})' => NoSlip({"left"})
      BY <1>2 DEF NoSlip
    <2>2. NoSlip({"deaf"})' => NoSlip({"deaf"})
      BY <1>2 DEF NoSlip
    <2>3. NoSlip({"deaf", "left", "halfway"})' => NoSlip({"deaf", "left", "halfway"})
      BY <1>2 DEF NoSlip
    <2>4. Pending' = Pending
      BY <1>2 DEF Pending, edge
    <2>5. OneReport'
      BY <1>2, <2>1, <2>4 DEF IInv, OneReport
    <2>6. SuccessIsShown'
      <3>1. daemon.pc \in {"post", "wait"} => command'[daemon.cmd] = command[daemon.cmd]
        BY <1>3 DEF IInv, NamesAreGood, IsKnown
      <3> QED BY <1>2, <2>2, <3>1 DEF IInv, SuccessIsShown, ShownOn
    <2>7. NoteIsShownOrDue'
      <3>1. edgeNote.sent # 0 => command'[edgeNote.sent] = command[edgeNote.sent]
        BY <1>3 DEF IInv, NamesAreGood, IsKnown
      <3> QED BY <1>2, <2>3, <2>4, <3>1 DEF IInv, NoteIsShownOrDue, ShownOn, edge
    <2> QED BY <2>5, <2>6, <2>7
  <1> QED BY <1>1, <1>4, <1>5, <1>6, <1>7 DEF IInv

LEMMA PullerStep ==
  ASSUME IInv, Puller
  PROVE  IInv'
  <1>1. TypeOK'
    BY PullerTypes DEF IInv
  <1>2. UNCHANGED <<request, command, messages, edgeNote, post, daemon, panel, up>>
        /\ slips \subseteq slips'
    BY DEF Puller, StartRun, Apply, Slip, cloud, edge
  <1>3. AsksToSet'
    BY <1>2 DEF IInv, AsksToSet
  <1>4. \A c \in Commands : IsKnown(c) => edgeStatus'[c] = edgeStatus[c]
    <2>1. CASE StartRun
      BY <2>1 DEF StartRun, edge
    <2>2. CASE Apply
      <3> DEFINE m == messages[Min(todo)]
      <3>1. CASE UNCHANGED edgeStatus
        BY <3>1
      <3>2. CASE ~Refused(m) /\ edgeStatus' = [c \in Commands |->
                   IF c = m.cmd THEN "PENDING" ELSE edgeStatus[c]]
        BY <3>2 DEF Refused, IsKnown, Commands
      <3> QED BY <2>2, <3>1, <3>2 DEF Apply
    <2> QED BY <2>1, <2>2 DEF Puller
  <1>5. \A c \in Commands : edgeStatus'[c] # edgeStatus[c] => IsMade(c)
    <2>1. CASE StartRun
      BY <2>1 DEF StartRun, edge
    <2>2. CASE Apply
      <3> DEFINE n == Min(todo)
      <3>1. n \in DOMAIN messages
        BY <2>2, MinIsMember DEF Apply, IInv, TypeOK, RowsAreThere
      <3>2. \A c \in Commands : edgeStatus'[c] # edgeStatus[c] => c = messages[n].cmd
        BY <2>2 DEF Apply, IInv, TypeOK
      <3>3. \A c \in Commands : c # 0
        BY DEF Commands
      <3> QED BY <3>1, <3>2, <3>3 DEF IInv, NamesAreGood
    <2> QED BY <2>1, <2>2 DEF Puller
  <1>6. NamesAreGood'
    BY <1>2, <1>4, <1>5 DEF IInv, NamesAreGood, IsKnown, IsMade
  <1>7. RowsAreThere'
    BY <1>2 DEF Puller, StartRun, Apply, IInv, RowsAreThere, up
  <1>8. Pending \subseteq Pending'
    BY <1>4 DEF Pending, IsKnown
  <1>9. OneReport'
    <2>1. NoSlip({"left"})' => NoSlip({"left"})
      BY <1>2 DEF NoSlip
    <2> QED BY <1>2, <1>8, <2>1 DEF IInv, OneReport
  <1>10. SuccessIsShown'
    <2>1. NoSlip({"deaf"})' => NoSlip({"deaf"})
      BY <1>2 DEF NoSlip
    <2> QED BY <1>2, <2>1 DEF IInv, SuccessIsShown, ShownOn
  <1>11. NoteIsShownOrDue'
    <2>1. NoSlip({"deaf", "left", "halfway"})' => NoSlip({"deaf", "left", "halfway"})
      BY <1>2 DEF NoSlip
    <2> QED BY <1>2, <1>8, <2>1 DEF IInv, NoteIsShownOrDue, ShownOn
  <1> QED BY <1>1, <1>3, <1>6, <1>7, <1>9, <1>10, <1>11 DEF IInv

\* To show a setting twice is to show it once.
LEMMA ShownTwice ==
  ASSUME NEW p \in [power : Powers, text : Modes \cup {"torn"}], NEW v
  PROVE  ShownOn(ShownOn(p, v), v) = ShownOn(p, v)
  BY DEF ShownOn

LEMMA DaemonStep ==
  ASSUME IInv, Daemon \/ DaemonRestarts
  PROVE  IInv'
  <1>0. daemon \in DaemonRows /\ post \in [Posts -> PostRows]
    BY DEF IInv, TypeOK, DaemonRows, PostRows
  <1>1. TypeOK'
    BY DaemonTypes DEF IInv
  <1>2. UNCHANGED <<cloud, down, edge, up>> /\ Pending' = Pending
    BY DEF Daemon, DaemonRestarts, Fetch, Execute, Report, Answered, edge, Pending
  <1>3. slips \subseteq slips'
    BY DEF Daemon, DaemonRestarts, Fetch, Execute, Report, Answered, Slip
  <1>4. AsksToSet' /\ RowsAreThere'
    BY <1>2 DEF IInv, AsksToSet, RowsAreThere, cloud, down, up
  <1>5. NoSlip({"left"})' => NoSlip({"left"})
    BY <1>3 DEF NoSlip
  <1>6. NoSlip({"deaf"})' => NoSlip({"deaf"})
    BY <1>3 DEF NoSlip
  <1>7. NoSlip({"deaf", "left", "halfway"})' => NoSlip({"deaf", "left", "halfway"}) /\ NoSlip({"left"})
    BY <1>3 DEF NoSlip
  <1>8. ASSUME (\A c \in daemon.jobs : IsKnown(c))',
               (daemon.pc \in {"post", "wait"} => IsKnown(daemon.cmd))',
               (\A i \in Posts : post[i].pc # "free" => IsKnown(post[i].cmd))'
        PROVE  NamesAreGood'
    BY <1>2, <1>8 DEF IInv, NamesAreGood, IsKnown, IsMade, cloud, down, edge
  <1>9. ASSUME UNCHANGED panel, \A i \in Posts : post[i].pc = "note" => post'[i].pc = "note"
        PROVE  NoteIsShownOrDue'
    BY <1>2, <1>7, <1>9 DEF IInv, NoteIsShownOrDue, ShownOn, cloud, edge
  <1>10. CASE Fetch
    <2>1. daemon'.pc = "send" /\ daemon'.jobs \subseteq Pending /\ UNCHANGED <<post, panel>>
      BY <1>0, <1>10 DEF Fetch, DaemonRows
    <2>2. daemon'.jobs # {}
      <3>1. daemon'.jobs = {c \in Pending : Cardinality({d \in Pending : d < c}) < JobLimit}
        BY <1>0, <1>10 DEF Fetch, DaemonRows
      <3> QED BY <3>1, <1>10, JobsAreThere DEF Fetch, IInv
    <2>3. NamesAreGood'
      <3>1. \A c \in Pending : IsKnown(c)'
        BY <1>2 DEF Pending, IsKnown, edge
      <3>2. (\A i \in Posts : post[i].pc # "free" => IsKnown(post[i].cmd))'
        BY <1>2, <2>1 DEF IInv, NamesAreGood, IsKnown, edge
      <3> QED BY <1>8, <2>1, <3>1, <3>2
    <2>4. OneReport'
      BY <1>2, <1>5, <1>10, <2>1, <2>2 DEF Fetch, IInv, OneReport
    <2>5. SuccessIsShown'
      BY <2>1 DEF SuccessIsShown
    <2>6. NoteIsShownOrDue'
      BY <1>9, <2>1
    <2> QED BY <1>1, <1>4, <2>3, <2>4, <2>5, <2>6 DEF IInv
  <1>11. CASE Execute
    <2>1. PICK k \in daemon.jobs : k = NextJob(daemon.jobs)
      BY <1>0, <1>11, NextJobType DEF Execute, IInv, OneReport, DaemonRows
    <2>2. daemon'.pc = "post" /\ daemon'.jobs = daemon.jobs \ {k} /\ daemon'.cmd = k /\ UNCHANGED post
      BY <1>0, <1>11, <2>1 DEF Execute, DaemonRows
    <2>3. IsKnown(k) /\ k \in Commands
      BY <2>1 DEF IInv, NamesAreGood, IsKnown
    <2>4. NamesAreGood'
      BY <1>2, <1>8, <2>2, <2>3 DEF IInv, NamesAreGood, IsKnown, edge
    <2>5. OneReport'
      BY <1>2, <1>5, <1>11, <2>1, <2>2 DEF Execute, IInv, OneReport
    <2>6. SuccessIsShown'
      <3>1. ASSUME daemon'.took = "ACKED", NoSlip({"deaf"})' PROVE panel' = ShownOn(panel, command[k])
        <4>1. "deaf" \notin slips'
          BY <3>1 DEF NoSlip
        <4> QED BY <1>0, <1>11, <2>1, <3>1, <4>1 DEF Execute, Slip, DaemonRows
      <3>2. ShownOn(ShownOn(panel, command[k]), command[k]) = ShownOn(panel, command[k])
        BY ShownTwice DEF IInv, TypeOK
      <3>3. ASSUME daemon'.took = "ACKED", NoSlip({"deaf"})' PROVE panel' = ShownOn(panel, command[k])'
        <4>1. panel' = ShownOn(panel, command[k]) /\ command' = command
          BY <1>2, <3>1, <3>3 DEF cloud
        <4>2. ShownOn(panel, command[k])' = ShownOn(panel', command'[k])
          BY DEF ShownOn
        <4> QED BY <3>2, <4>1, <4>2
      <3> QED BY <2>2, <3>3 DEF SuccessIsShown
    <2>7. NoteIsShownOrDue'
      <3>1. NoSlip({"left"}) => Pending # {}
        BY <1>11, <2>1 DEF IInv, OneReport
      <3> QED BY <1>2, <1>7, <3>1 DEF NoteIsShownOrDue
    <2> QED BY <1>1, <1>4, <2>4, <2>5, <2>6, <2>7 DEF IInv
  <1>12. CASE Report
    <2>1. daemon.pc = "post" /\ UNCHANGED panel /\ daemon'.cmd = daemon.cmd
          /\ daemon'.took = daemon.took /\ daemon'.jobs = daemon.jobs
      BY <1>0, <1>12 DEF Report, DaemonRows
    <2>2. ASSUME daemon' = [daemon EXCEPT !.pc = AfterJob], UNCHANGED post
          PROVE  IInv'
      <3>1. daemon'.pc = AfterJob
        BY <1>0, <2>2 DEF DaemonRows
      <3>2. daemon'.pc \in {"poll", "send"} /\ (daemon'.pc = "send" => daemon.jobs # {})
        BY <3>1 DEF AfterJob
      <3>3. NamesAreGood'
        BY <1>2, <1>8, <2>1, <2>2, <3>2 DEF IInv, NamesAreGood, IsKnown, edge
      <3>4. OneReport'
        BY <1>2, <1>5, <2>1, <2>2, <3>2 DEF IInv, OneReport
      <3>5. SuccessIsShown'
        BY <3>2 DEF SuccessIsShown
      <3>6. NoteIsShownOrDue'
        BY <1>9, <2>1, <2>2
      <3> QED BY <1>1, <1>4, <3>3, <3>4, <3>5, <3>6 DEF IInv
    <2>3. ASSUME NEW i \in Posts, post[i].pc = "free", daemon'.pc = "wait", daemon'.slot = i,
                 post' = [post EXCEPT
                   ![i] = [pc |-> "status", cmd |-> daemon.cmd, status |-> daemon.took]]
          PROVE  IInv'
      <3>1. post'[i].pc = "status" /\ post'[i].cmd = daemon.cmd /\ post'[i].status = daemon.took
            /\ \A j \in Posts \ {i} : post'[j] = post[j]
        BY <1>0, <2>3
      <3>2. NamesAreGood'
        <4>1. IsKnown(daemon.cmd)
          BY <2>1 DEF IInv, NamesAreGood
        <4> QED BY <1>2, <1>8, <2>1, <3>1, <4>1 DEF IInv, NamesAreGood, IsKnown, edge
      <3>3. OneReport'
        BY <1>2, <1>5, <2>1, <2>3, <3>1 DEF IInv, OneReport
      <3>4. SuccessIsShown'
        BY <1>2, <1>6, <2>1, <2>3 DEF IInv, SuccessIsShown, ShownOn, cloud
      <3>5. NoteIsShownOrDue'
        BY <1>9, <2>1, <2>3, <3>1
      <3> QED BY <1>1, <1>4, <3>2, <3>3, <3>4, <3>5 DEF IInv
    <2> QED
      <3>1. ASSUME NEW i \in Posts, post[i].pc = "free",
                   daemon' = [daemon EXCEPT !.pc = "wait", !.slot = i]
            PROVE  daemon'.pc = "wait" /\ daemon'.slot = i
        BY <1>0, <3>1 DEF DaemonRows
      <3> QED BY <1>12, <2>2, <2>3, <3>1 DEF Report
  <1>13. CASE Answered \/ DaemonRestarts
    <2>1. UNCHANGED post
      BY <1>13 DEF Answered, DaemonRestarts
    <2>2. daemon'.pc \in {"poll", "send"} /\ (daemon'.pc = "send" => daemon'.jobs # {})
          /\ daemon'.jobs \subseteq daemon.jobs
      <3>1. CASE Answered
        <4>1. daemon'.pc = AfterJob /\ daemon'.jobs = daemon.jobs
          BY <1>0, <3>1 DEF Answered, DaemonRows
        <4> QED BY <4>1 DEF AfterJob
      <3>2. CASE DaemonRestarts
        BY <3>2 DEF DaemonRestarts, Polling
      <3> QED BY <1>13, <3>1, <3>2
    <2>3. NamesAreGood'
      BY <1>2, <1>8, <2>1, <2>2 DEF IInv, NamesAreGood, IsKnown, edge
    <2>4. OneReport'
      <3>1. ASSUME NoSlip({"left"})' PROVE \A i \in Posts : post[i].pc = "free"
        <4>1. "left" \notin slips'
          BY <3>1 DEF NoSlip
        <4>2. CASE Answered
          BY <1>0, <1>5, <3>1, <4>1, <4>2 DEF Answered, Slip, IInv, OneReport, DaemonRows
        <4>3. CASE DaemonRestarts
          <5>1. daemon.pc # "wait"
            BY <4>1, <4>3 DEF DaemonRestarts
          <5> QED BY <1>5, <3>1, <5>1 DEF IInv, OneReport
        <4> QED BY <1>13, <4>2, <4>3
      <3> QED BY <1>2, <1>5, <2>1, <2>2, <3>1 DEF IInv, OneReport
    <2>5. SuccessIsShown'
      BY <2>2 DEF SuccessIsShown
    <2>6. NoteIsShownOrDue'
      <3>1. CASE UNCHANGED panel
        BY <1>9, <2>1, <3>1
      <3>2. CASE daemon.pc = "send"
        <4>1. NoSlip({"left"}) => Pending # {}
          BY <3>2 DEF IInv, OneReport
        <4> QED BY <1>2, <1>7, <4>1 DEF NoteIsShownOrDue
      <3> QED BY <1>13, <3>1, <3>2 DEF Answered, DaemonRestarts
    <2> QED BY <1>1, <1>4, <2>3, <2>4, <2>5, <2>6 DEF IInv
  <1> QED BY <1>10, <1>11, <1>12, <1>13 DEF Daemon

LEMMA ReportStep ==
  ASSUME IInv, NEW i \in Posts,
         WriteStatus(i) \/ WriteNote(i) \/ WriteResult(i) \/ ReportStops(i)
  PROVE  IInv'
  <1>0. post \in [Posts -> PostRows] /\ post[i].cmd \in Commands
        /\ post[i].status \in {"ACKED", "FAILED"} /\ IsKnown(post[i].cmd)
    BY DEF IInv, TypeOK, PostRows, NamesAreGood, IsKnown, WriteStatus, WriteNote, WriteResult,
       ReportStops
  <1>1. TypeOK'
    BY ReportTypes DEF IInv
  <1>2. UNCHANGED <<cloud, down, daemon, panel>> /\ slips \subseteq slips'
    BY DEF WriteStatus, WriteNote, WriteResult, ReportStops, Slip
  <1>3. AsksToSet'
    BY <1>2 DEF IInv, AsksToSet, cloud
  <1>4. \A j \in Posts \ {i} : post'[j] = post[j]
    BY <1>0 DEF WriteStatus, WriteNote, WriteResult, ReportStops
  <1>5. NoSlip({"left"})' => NoSlip({"left"})
    BY <1>2 DEF NoSlip
  <1>6. NoSlip({"deaf", "left", "halfway"})'
        => NoSlip({"deaf", "left", "halfway"}) /\ NoSlip({"left"}) /\ NoSlip({"deaf"})
    BY <1>2 DEF NoSlip
  <1>7. SuccessIsShown'
    <2>1. NoSlip({"deaf"})' => NoSlip({"deaf"})
      BY <1>2 DEF NoSlip
    <2> QED BY <1>2, <2>1 DEF IInv, SuccessIsShown, ShownOn, cloud
  <1>8. ASSUME \A c \in Commands : IsKnown(c) <=> IsKnown(c)',
               post'[i].pc # "free" => post'[i].cmd = post[i].cmd,
               edgeNote'.sent \in {edgeNote.sent, post[i].cmd}
        PROVE  NamesAreGood'
    <2>1. (\A j \in Posts : post[j].pc # "free" => IsKnown(post[j].cmd))'
      BY <1>0, <1>4, <1>8 DEF IInv, NamesAreGood, IsKnown
    <2>2. (edgeNote.sent # 0 => IsKnown(edgeNote.sent))'
      BY <1>0, <1>8 DEF IInv, NamesAreGood, IsKnown
    <2>3. (\A c \in Commands : IsKnown(c) => IsMade(c))'
      BY <1>2, <1>8 DEF IInv, NamesAreGood, IsMade, cloud
    <2>4. (\A c \in daemon.jobs : IsKnown(c))'
      BY <1>2, <1>8 DEF IInv, NamesAreGood, IsKnown
    <2>5. (daemon.pc \in {"post", "wait"} => IsKnown(daemon.cmd))'
      BY <1>2, <1>8 DEF IInv, NamesAreGood, IsKnown
    <2>6. UNCHANGED <<request, command, messages>>
      BY <1>2 DEF cloud, down
    <2> QED BY <2>1, <2>2, <2>3, <2>4, <2>5, <2>6 DEF IInv, NamesAreGood, IsMade
  <1>9. CASE WriteStatus(i)
    <2>1. post'[i].pc = "note" /\ post'[i].cmd = post[i].cmd /\ post'[i].status = post[i].status
      BY <1>0, <1>9 DEF WriteStatus, PostRows
    <2>2. edgeStatus' = [edgeStatus EXCEPT ![post[i].cmd] = post[i].status]
          /\ UNCHANGED <<edgeNote, up>>
      BY <1>9 DEF WriteStatus
    <2>3. \A c \in Commands : IsKnown(c) <=> IsKnown(c)'
      BY <1>0, <2>2 DEF IsKnown, IInv, TypeOK
    <2>4. Pending' = Pending \ {post[i].cmd}
      BY <1>0, <2>2 DEF Pending, IInv, TypeOK
    <2>5. RowsAreThere'
      BY <1>2, <2>2 DEF IInv, RowsAreThere, down, up
    <2>6. OneReport'
      BY <1>2, <1>4, <1>5, <1>9, <2>1, <2>4 DEF WriteStatus, IInv, OneReport
    <2>7. NoteIsShownOrDue'
      BY <2>1 DEF NoteIsShownOrDue
    <2>8. NamesAreGood'
      BY <1>8, <2>1, <2>2, <2>3
    <2> QED BY <1>1, <1>3, <1>7, <2>5, <2>6, <2>7, <2>8 DEF IInv
  <1>10. CASE WriteNote(i)
    <2>1. post'[i].pc = "result" /\ post'[i].cmd = post[i].cmd /\ post'[i].status = post[i].status
          /\ post[i].pc = "note"
      BY <1>0, <1>10 DEF WriteNote, PostRows
    <2>2. edgeNote' = Noted(edgeNote, post[i].cmd, post[i].status) /\ UNCHANGED <<edgeStatus, up>>
      BY <1>10 DEF WriteNote
    <2>3. Pending' = Pending /\ \A c \in Commands : IsKnown(c) <=> IsKnown(c)'
      BY <2>2 DEF Pending, IsKnown
    <2>4. edgeNote'.sent \in {edgeNote.sent, post[i].cmd}
          /\ (edgeNote'.last = "OK" => post[i].status = "ACKED" /\ edgeNote'.sent = post[i].cmd)
      BY <1>0, <2>2 DEF Noted, IInv, TypeOK, Notes
    <2>5. RowsAreThere'
      BY <1>2, <2>2 DEF IInv, RowsAreThere, down, up
    <2>6. OneReport'
      BY <1>2, <1>4, <1>5, <2>1, <2>3 DEF IInv, OneReport
    <2>7. NoteIsShownOrDue'
      <3>1. ASSUME edgeNote'.last = "OK", NoSlip({"deaf", "left", "halfway"})'
            PROVE  panel' = ShownOn(panel, command[edgeNote.sent])'
        <4>1. daemon.pc = "wait" /\ daemon.took = "ACKED" /\ daemon.cmd = edgeNote'.sent
          BY <1>6, <2>1, <2>4, <3>1 DEF IInv, OneReport
        <4>2. panel = ShownOn(panel, command[daemon.cmd])
          BY <1>6, <3>1, <4>1 DEF IInv, SuccessIsShown
        <4> QED BY <1>2, <4>1, <4>2 DEF ShownOn, cloud
      <3> QED BY <3>1 DEF NoteIsShownOrDue
    <2>8. NamesAreGood'
      BY <1>8, <2>1, <2>3, <2>4
    <2> QED BY <1>1, <1>3, <1>7, <2>5, <2>6, <2>7, <2>8 DEF IInv
  <1>11. CASE WriteResult(i) \/ ReportStops(i)
    <2>1. post'[i].pc = "free" /\ UNCHANGED <<edgeStatus, edgeNote>>
      <3>1. post' = [post EXCEPT ![i] = NoPost] /\ UNCHANGED <<edgeStatus, edgeNote>>
        BY <1>11 DEF WriteResult, ReportStops, edge
      <3>2. post'[i] = NoPost
        BY <1>0, <3>1
      <3> QED BY <3>1, <3>2 DEF NoPost
    <2>2. Pending' = Pending /\ \A c \in Commands : IsKnown(c) <=> IsKnown(c)'
      BY <2>1 DEF Pending, IsKnown
    <2>3. RowsAreThere'
      <3>1. CASE WriteResult(i)
        <4>1. results \in Seq(ResultRows)
          BY DEF IInv, TypeOK, ResultRows
        <4>2. DOMAIN results' = DOMAIN results \cup {Len(results) + 1}
          BY <3>1, <4>1 DEF WriteResult
        <4> QED BY <1>2, <3>1, <4>2 DEF WriteResult, IInv, RowsAreThere, down
      <3>2. CASE ReportStops(i)
        BY <1>2, <3>2 DEF ReportStops, IInv, RowsAreThere, down, up
      <3> QED BY <1>11, <3>1, <3>2
    <2>4. OneReport'
      BY <1>2, <1>4, <1>5, <2>1, <2>2 DEF IInv, OneReport
    <2>5. NoteIsShownOrDue'
      <3>1. post[i].pc # "note" \/ "halfway" \in slips'
        BY <1>11 DEF WriteResult, ReportStops, Slip
      <3>2. NoSlip({"deaf", "left", "halfway"})' => post[i].pc # "note"
        BY <3>1 DEF NoSlip
      <3> QED BY <1>2, <1>4, <1>6, <2>1, <2>2, <3>2 DEF IInv, NoteIsShownOrDue, ShownOn, cloud
    <2>6. NamesAreGood'
      BY <1>8, <2>1, <2>2
    <2> QED BY <1>1, <1>3, <1>7, <2>3, <2>4, <2>5, <2>6 DEF IInv
  <1> QED BY <1>9, <1>10, <1>11

LEMMA TellingStep ==
  ASSUME IInv, NEW k \in unsent, TakeResult(k)
  PROVE  IInv'
  <1>1. TypeOK'
    BY TellingTypes DEF IInv
  <1>2. UNCHANGED <<request, command, board, down, edge, post, daemon, panel, results>>
        /\ slips \subseteq slips'
    BY DEF TakeResult, Slip
  <1>3. AsksToSet' /\ NamesAreGood'
    BY <1>2 DEF IInv, AsksToSet, NamesAreGood, IsKnown, IsMade, down, edge
  <1>4. RowsAreThere'
    <2>1. unsent' \in {unsent, unsent \ {k}}
      BY DEF TakeResult
    <2>2. backoff' = backoff \ {k} \/ (backoff' = backoff \cup {k} /\ unsent' = unsent)
      BY DEF TakeResult
    <2> QED BY <1>2, <2>1, <2>2 DEF IInv, RowsAreThere, down
  <1>5. OneReport' /\ SuccessIsShown' /\ NoteIsShownOrDue'
    <2>1. NoSlip({"left"})' => NoSlip({"left"})
      BY <1>2 DEF NoSlip
    <2>2. NoSlip({"deaf"})' => NoSlip({"deaf"})
      BY <1>2 DEF NoSlip
    <2>3. NoSlip({"deaf", "left", "halfway"})' => NoSlip({"deaf", "left", "halfway"})
      BY <1>2 DEF NoSlip
    <2>4. Pending' = Pending
      BY <1>2 DEF Pending, edge
    <2>5. OneReport'
      BY <1>2, <2>1, <2>4 DEF IInv, OneReport
    <2>6. SuccessIsShown'
      BY <1>2, <2>2 DEF IInv, SuccessIsShown, ShownOn
    <2>7. NoteIsShownOrDue'
      BY <1>2, <2>3, <2>4 DEF IInv, NoteIsShownOrDue, ShownOn, edge
    <2> QED BY <2>5, <2>6, <2>7
  <1> QED BY <1>1, <1>3, <1>4, <1>5 DEF IInv

---------------------------------------------------------------------------
(* The theorems.                                                           *)

LEMMA InitIInv == Init => IInv
  <1> SUFFICES ASSUME Init PROVE IInv
    OBVIOUS
  <1>1. TypeOK
    BY InitTypeOK
  <1>2. AsksToSet
    BY DEF Init, AsksToSet
  <1>3. NamesAreGood
    BY DEF Init, NamesAreGood, IsMade, IsKnown, Polling, NoPost
  <1>4. RowsAreThere
    BY DEF Init, RowsAreThere
  <1>5. OneReport /\ SuccessIsShown
    BY DEF Init, OneReport, SuccessIsShown, Polling, NoPost
  <1>6. NoteIsShownOrDue
    BY DEF Init, NoteIsShownOrDue
  <1> QED BY <1>1, <1>2, <1>3, <1>4, <1>5, <1>6 DEF IInv

LEMMA NextIInv ==
  ASSUME IInv, [Next]_vars
  PROVE  IInv'
  <1>1. CASE UNCHANGED vars
    BY <1>1
    DEF vars, IInv, TypeOK, AsksToSet, NamesAreGood, IsMade, IsKnown, RowsAreThere, OneReport,
        Pending, SuccessIsShown, NoteIsShownOrDue, NoSlip, ShownOn
  <1>2. CASE Next
    BY <1>2, OperatorStep, PullerStep, DaemonStep, ReportStep, TellingStep
    DEF Next, Reporting, Telling
  <1> QED BY <1>1, <1>2

\* The inductive invariant, for any number of requests, reports at a time and faults.
THEOREM SpecIInv == Spec => []IInv
  BY InitIInv, NextIInv, PTL DEF Spec

\* The types of the cloud's and the edge's rows, the two outboxes, the daemon and the panel.
THEOREM SpecTypeOK == Spec => []TypeOK
  BY SpecIInv, PTL DEF IInv

\* When the edge is quiet and its board says OK, the panel shows the payload the board
\* names as the last one sent (reportJobResult and the display daemon).
THEOREM SpecLastSentIsShown == Spec => []LastSentIsShown
  <1>1. IInv => LastSentIsShown
    BY DEF IInv, NoteIsShownOrDue, LastSentIsShown, EdgeQuiet
  <1> QED BY <1>1, SpecIInv, PTL

---------------------------------------------------------------------------
(* Steps, as the rest of the proofs see them.                              *)

\* What has gone wrong stays so.
LEMMA SlipsStay ==
  ASSUME [Next]_vars
  PROVE  slips \subseteq slips'
  <1>1. CASE UNCHANGED vars
    BY <1>1 DEF vars
  <1>2. ASSUME NEW r \in Requests, Operator(r) \/ RequestStops(r) PROVE slips \subseteq slips'
    BY <1>2 DEF Operator, RequestStops, Ask, ReadBoard, SendBoard, WriteBoard, Preview, Create,
       SendCommand, Slip
  <1>3. CASE Puller
    BY <1>3 DEF Puller, StartRun, Apply, Slip
  <1>4. CASE Daemon \/ DaemonRestarts
    BY <1>4 DEF Daemon, DaemonRestarts, Fetch, Execute, Report, Answered, Slip
  <1>5. ASSUME NEW i \in Posts, WriteStatus(i) \/ WriteNote(i) \/ WriteResult(i) \/ ReportStops(i)
        PROVE  slips \subseteq slips'
    BY <1>5 DEF WriteStatus, WriteNote, WriteResult, ReportStops, Slip
  <1>6. ASSUME NEW k \in unsent, TakeResult(k) PROVE slips \subseteq slips'
    BY <1>6 DEF TakeResult, Slip
  <1> QED BY <1>1, <1>2, <1>3, <1>4, <1>5, <1>6 DEF Next, Reporting, Telling

\* What an operator's request leaves alone, and what all others leave alone.
LEMMA OperatorFrame ==
  ASSUME NEW r \in Requests, Operator(r) \/ RequestStops(r)
  PROVE  UNCHANGED <<todo, newest, edge, post, daemon, panel, up>>
  BY DEF Operator, RequestStops, Ask, ReadBoard, SendBoard, WriteBoard, Preview, Create,
     SendCommand, Send, down

LEMMA OtherFrame ==
  ASSUME \/ Puller
         \/ Daemon \/ DaemonRestarts
         \/ \E i \in Posts : WriteStatus(i) \/ WriteNote(i) \/ WriteResult(i) \/ ReportStops(i)
         \/ Telling
         \/ UNCHANGED vars
  PROVE  UNCHANGED <<request, command, board, messages>>
  BY DEF Puller, StartRun, Apply, Daemon, Fetch, Execute, Report, Answered, DaemonRestarts,
     WriteStatus, WriteNote, WriteResult, ReportStops, Telling, TakeResult, cloud, down, vars

LEMMA WhoSteps ==
  ASSUME [Next]_vars
  PROVE  \/ \E r \in Requests : Operator(r) \/ RequestStops(r)
         \/ UNCHANGED <<request, command, board, messages>>
  BY OtherFrame DEF Next, Reporting

\* Whoever is not r keeps its row.
LEMMA OthersKeep ==
  ASSUME TypeOK, NEW r \in Requests, Operator(r) \/ RequestStops(r)
  PROVE  \A q \in Requests \ {r} : request'[q] = request[q]
  <1>1. request \in [Requests -> RequestRows]
    BY DEF TypeOK, RequestRows
  <1> QED
    BY <1>1 DEF Operator, RequestStops, Ask, ReadBoard, SendBoard, WriteBoard, Preview, Create,
       SendCommand

\* A row that is put into the outbox, and the ones that are in it.
LEMMA Sending ==
  ASSUME TypeOK, NEW m, Send(m)
  PROVE  /\ Len(messages) \in Nat /\ Len(messages') = Len(messages) + 1
         /\ DOMAIN messages = 1 .. Len(messages)
         /\ DOMAIN messages' = DOMAIN messages \cup {Len(messages) + 1}
         /\ messages'[Len(messages) + 1] = m
         /\ \A n \in DOMAIN messages : messages'[n] = messages[n]
         /\ waiting' = waiting \cup {Len(messages) + 1}
  <1>1. messages \in Seq(MessageRows)
    BY DEF TypeOK, MessageRows
  <1>2. messages' = Append(messages, m) /\ waiting' = waiting \cup {Len(messages) + 1}
    BY DEF Send
  <1> QED BY <1>1, <1>2

LEMMA OperatorSends ==
  ASSUME TypeOK, NEW r \in Requests, Operator(r) \/ RequestStops(r)
  PROVE  \/ UNCHANGED <<messages, waiting>>
         \/ SendBoard(r) /\ Send([cmd |-> 0, board |-> request[r].seen])
         \/ SendCommand(r) /\ Send([cmd |-> request[r].cmd, board |-> AtFirst])
  BY DEF Operator, RequestStops, Ask, ReadBoard, SendBoard, WriteBoard, Preview, Create,
     SendCommand, down

\* A row the edge is at.
LEMMA Applying ==
  ASSUME TypeOK, RowsAreThere, Apply
  PROVE  \E n \in todo :
           /\ n \in waiting /\ n \in DOMAIN messages /\ n \in Nat
           /\ \/ /\ ~Refused(messages[n])
                 /\ edgeBoard' = BoardAfter(messages[n])
                 /\ \A c \in Commands :
                      edgeStatus'[c] = IF c = messages[n].cmd THEN "PENDING" ELSE edgeStatus[c]
                 /\ newest' = IF n > newest THEN n ELSE newest
                 /\ waiting' \in {waiting, waiting \ {n}}
                 /\ n < newest => "late" \in slips'
              \/ UNCHANGED <<edgeBoard, edgeStatus, newest, waiting>>
  <1> DEFINE n == Min(todo)
  <1>1. n \in todo /\ n \in waiting /\ n \in DOMAIN messages /\ n \in Nat
    BY MinIsMember DEF Apply, TypeOK, RowsAreThere
  <1>2. CASE UNCHANGED <<edgeBoard, edgeStatus, newest, slips, waiting>>
    BY <1>1, <1>2
  <1>3. CASE /\ ~Refused(messages[n])
             /\ edgeBoard' = BoardAfter(messages[n])
             /\ edgeStatus' = [c \in Commands |->
                                 IF c = messages[n].cmd THEN "PENDING" ELSE edgeStatus[c]]
             /\ newest' = Max({newest, n})
             /\ waiting' \in {waiting, waiting \ {n}}
             /\ n < newest => "late" \in slips'
    <2>1. newest' = IF n > newest THEN n ELSE newest
      <3>1. newest \in Nat
        BY DEF TypeOK
      <3>2. \A x \in {newest, n} : (\A y \in {newest, n} : x >= y) => x = IF n > newest THEN n ELSE newest
        BY <1>1, <3>1
      <3>3. \E x \in {newest, n} : \A y \in {newest, n} : x >= y
        BY <1>1, <3>1
      <3> QED BY <1>3, <3>2, <3>3 DEF Max
    <2>2. \A c \in Commands :
            edgeStatus'[c] = IF c = messages[n].cmd THEN "PENDING" ELSE edgeStatus[c]
      BY <1>3
    <2> HIDE DEF n
    <2> QED BY <1>1, <1>3, <2>1, <2>2
  <1>4. \/ UNCHANGED <<edgeBoard, edgeStatus, newest, slips, waiting>>
        \/ /\ ~Refused(messages[n])
           /\ edgeBoard' = BoardAfter(messages[n])
           /\ edgeStatus' = [c \in Commands |->
                               IF c = messages[n].cmd THEN "PENDING" ELSE edgeStatus[c]]
           /\ newest' = Max({newest, n})
           /\ waiting' \in {waiting, waiting \ {n}}
           /\ n < newest => "late" \in slips'
    BY DEF Apply, Slip
  <1> QED BY <1>2, <1>3, <1>4

---------------------------------------------------------------------------
(* The order of the commands on their way to the edge.                     *)

LEMMA NextSentInOrder ==
  ASSUME IInv, SentInOrder, [Next]_vars
  PROVE  SentInOrder'
  <1>0. request \in [Requests -> RequestRows]
    BY DEF IInv, TypeOK, RequestRows
  <1>1. NoSlip({"swapped"})' => NoSlip({"swapped"})
    BY SlipsStay DEF NoSlip
  <1>2. CASE UNCHANGED <<request, command, board, messages>>
    BY <1>1, <1>2 DEF SentInOrder, Sent
  <1>3. ASSUME NEW r \in Requests, Operator(r) \/ RequestStops(r) PROVE SentInOrder'
    <2>1. \A q \in Requests \ {r} : request'[q] = request[q]
      BY <1>3, OthersKeep DEF IInv
    <2>2. CASE Create(r)
      <3>0. PICK k : k = Made + 1
        OBVIOUS
      <3>1. request'[r].cmd = k /\ UNCHANGED messages
        BY <1>0, <2>2, <3>0 DEF Create, RequestRows, down
      <3>2. ~IsMade(k) /\ k # 0
        BY <3>0, NewNumber DEF IInv
      <3>3. k \notin Sent'
        <4>1. \A n \in DOMAIN messages : messages[n].cmd # k
          BY <3>2 DEF IInv, NamesAreGood
        <4> QED BY <3>1, <4>1 DEF Sent
      <3>4. \A q \in Requests \ {r} : request'[q].pc = "send" => request'[q].cmd # k
        BY <2>1, <3>2 DEF IInv, NamesAreGood
      <3> QED BY <1>1, <2>1, <3>1, <3>3, <3>4 DEF SentInOrder, Sent
    <2>3. CASE UNCHANGED messages /\ request'[r].pc # "send"
      BY <1>1, <2>1, <2>3 DEF SentInOrder, Sent
    <2>4. CASE SendBoard(r) /\ Send([cmd |-> 0, board |-> request[r].seen])
      <3> DEFINE l == Len(messages) + 1
      <3>0. PICK m : m = [cmd |-> 0, board |-> request[r].seen]
        OBVIOUS
      <3>1. /\ Len(messages) \in Nat /\ DOMAIN messages = 1 .. Len(messages)
            /\ DOMAIN messages' = DOMAIN messages \cup {l} /\ messages'[l].cmd = 0
            /\ \A n \in DOMAIN messages : messages'[n] = messages[n]
        <4>1. TypeOK /\ Send(m) /\ m.cmd = 0
          BY <2>4, <3>0 DEF IInv
        <4> QED BY <4>1, Sending
      <3>2. Sent' = Sent
        BY <3>1 DEF Sent
      <3>3. request'[r].pc # "send"
        BY <1>0, <2>4 DEF SendBoard, RequestRows
      <3> QED BY <1>1, <2>1, <3>1, <3>2, <3>3 DEF SentInOrder
    <2>5. CASE SendCommand(r) /\ Send([cmd |-> request[r].cmd, board |-> AtFirst])
      <3> DEFINE l == Len(messages) + 1
                 c == request[r].cmd
      <3>0. PICK m : m = [cmd |-> request[r].cmd, board |-> AtFirst]
        OBVIOUS
      <3>1. /\ Len(messages) \in Nat /\ DOMAIN messages = 1 .. Len(messages)
            /\ DOMAIN messages' = DOMAIN messages \cup {l} /\ messages'[l].cmd = c
            /\ \A n \in DOMAIN messages : messages'[n] = messages[n]
        <4>1. TypeOK /\ Send(m) /\ m.cmd = c
          BY <2>5, <3>0 DEF IInv
        <4> QED BY <4>1, Sending
      <3>2. Sent' \subseteq Sent \cup {c}
        BY <3>1 DEF Sent
      <3>3. request[r].pc = "send" /\ request'[r].pc = "done" /\ c \notin Sent /\ c \in Nat \ {0}
        BY <1>0, <2>5 DEF SendCommand, RequestRows, SentInOrder, IInv, NamesAreGood, IsMade, Commands
      <3>4. \A n \in DOMAIN messages : messages[n].cmd # c /\ messages[n].cmd \in Nat
        <4>1. \A n \in DOMAIN messages : messages[n].cmd = 0 \/ messages[n].cmd \in Sent
          BY DEF Sent
        <4>2. \A n \in DOMAIN messages : messages[n].cmd \in Nat
          BY DEF IInv, NamesAreGood, IsMade, Commands
        <4> QED BY <3>3, <4>1, <4>2
      <3>5. (\A n, k \in DOMAIN messages : messages[n].cmd = messages[k].cmd => n = k \/ messages[n].cmd = 0)'
        BY <3>1, <3>4 DEF SentInOrder
      <3>6. (\A q \in Requests : request[q].pc = "send" =>
               /\ request[q].cmd \notin Sent
               /\ \A p \in Requests \ {q} : request[p].pc = "send" => request[p].cmd # request[q].cmd)'
        BY <2>1, <3>2, <3>3 DEF SentInOrder
      <3>7. ASSUME NoSlip({"swapped"})', NEW n \in DOMAIN messages', NEW k \in DOMAIN messages',
                   n < k, messages'[k].cmd # 0
            PROVE  messages'[n].cmd <= messages'[k].cmd
        <4>1. CASE k = l
          <5>1. n \in DOMAIN messages
            BY <3>1, <3>7, <4>1
          <5>2. ~ \E d \in Sent : d > c
            BY <2>5, <3>7 DEF SendCommand, Slip, NoSlip
          <5>3. messages[n].cmd = 0 \/ messages[n].cmd \in Sent
            BY <5>1 DEF Sent
          <5>4. ~ (messages[n].cmd > c)
            BY <3>3, <5>2, <5>3
          <5> QED BY <3>1, <3>3, <3>4, <4>1, <5>1, <5>4
        <4>2. CASE k # l
          BY <1>1, <3>1, <3>7, <4>2 DEF SentInOrder
        <4> QED BY <4>1, <4>2
      <3> QED BY <3>5, <3>6, <3>7 DEF SentInOrder
    <2>6. ~Create(r) => request'[r].pc # "send"
      BY <1>3, OnlyMadeOnesGoOut DEF IInv
    <2> QED BY <1>3, <2>2, <2>3, <2>4, <2>5, <2>6, OperatorSends DEF IInv
  <1> QED BY <1>2, <1>3, WhoSteps

LEMMA NextAppliedUpToNewest ==
  ASSUME IInv, SentInOrder, AppliedUpToNewest, [Next]_vars
  PROVE  AppliedUpToNewest'
  <1>0. messages \in Seq(MessageRows) /\ newest \in Nat /\ Len(messages) \in Nat
        /\ DOMAIN messages = 1 .. Len(messages)
    BY DEF IInv, TypeOK, MessageRows
  <1>1. \A n \in DOMAIN messages : messages[n].cmd \in {0} \cup Commands
    BY DEF IInv, NamesAreGood, IsMade
  <1>2. ASSUME UNCHANGED <<messages, waiting, newest>>,
               \A c \in Commands : IsKnown(c)' <=> IsKnown(c)
        PROVE  AppliedUpToNewest'
    <2>1. \A n \in DOMAIN messages : Refused(messages[n])' <=> Refused(messages[n])
      BY <1>1, <1>2 DEF Refused, IsKnown
    <2> QED BY <1>2, <2>1 DEF AppliedUpToNewest
  <1>3. ASSUME NEW r \in Requests, Operator(r) \/ RequestStops(r) PROVE AppliedUpToNewest'
    <2>1. UNCHANGED <<newest, edgeStatus>>
      BY <1>3, OperatorFrame DEF edge
    <2>2. \A c \in Commands : IsKnown(c)' <=> IsKnown(c)
      BY <2>1 DEF IsKnown
    <2>3. ASSUME NEW m, Send(m), m.cmd = 0 \/ (IsMade(m.cmd) /\ m.cmd \notin Sent)
          PROVE  AppliedUpToNewest'
      <3> DEFINE l == Len(messages) + 1
      <3>1. /\ Len(messages') = l /\ DOMAIN messages' = DOMAIN messages \cup {l} /\ messages'[l] = m
            /\ \A n \in DOMAIN messages : messages'[n] = messages[n]
            /\ waiting' = waiting \cup {l}
        BY <2>3, Sending DEF IInv
      <3>2. ~Refused(m)
        <4>1. ASSUME m.cmd # 0, edgeStatus[m.cmd] # "none" PROVE FALSE
          <5>1. IsKnown(m.cmd)
            BY <2>3, <4>1 DEF IsMade, IsKnown
          <5>2. PICK n \in 1 .. newest : messages[n].cmd = m.cmd
            BY <5>1 DEF AppliedUpToNewest, IsKnown
          <5>3. n \in DOMAIN messages
            BY <1>0, <5>2 DEF AppliedUpToNewest
          <5> QED BY <2>3, <4>1, <5>2, <5>3 DEF Sent
        <4> QED BY <4>1 DEF Refused
      <3>3. (\A n \in DOMAIN messages : n > newest => n \in waiting /\ ~Refused(messages[n]))'
        BY <2>1, <3>1, <3>2 DEF AppliedUpToNewest, Refused
      <3>4. (newest \in 0 .. Len(messages))'
        BY <1>0, <2>1, <3>1 DEF AppliedUpToNewest
      <3>5. (\A c \in Commands : IsKnown(c) => \E n \in 1 .. newest : messages[n].cmd = c)'
        <4>1. \A n \in 1 .. newest : messages'[n] = messages[n]
          BY <1>0, <3>1 DEF AppliedUpToNewest
        <4> QED BY <2>1, <2>2, <4>1 DEF AppliedUpToNewest
      <3> QED BY <3>3, <3>4, <3>5 DEF AppliedUpToNewest
    <2>4. CASE UNCHANGED <<messages, waiting>>
      BY <1>2, <2>1, <2>2, <2>4
    <2>5. CASE Send([cmd |-> 0, board |-> request[r].seen])
      BY <2>3, <2>5
    <2>6. CASE SendCommand(r) /\ Send([cmd |-> request[r].cmd, board |-> AtFirst])
      <3>1. IsMade(request[r].cmd) /\ request[r].cmd \notin Sent
        BY <2>6 DEF SendCommand, IInv, NamesAreGood, SentInOrder
      <3> QED BY <2>3, <2>6, <3>1
    <2> QED BY <1>3, <2>4, <2>5, <2>6, OperatorSends DEF IInv
  <1>4. CASE StartRun \/ Daemon \/ DaemonRestarts \/ Telling \/ UNCHANGED vars
    <2>1. UNCHANGED <<messages, waiting, newest, edgeStatus>>
      BY <1>4 DEF StartRun, Daemon, Fetch, Execute, Report, Answered, DaemonRestarts, Telling,
         TakeResult, edge, down, vars
    <2> QED BY <1>2, <2>1 DEF IsKnown
  <1>5. ASSUME NEW i \in Posts, WriteStatus(i) \/ WriteNote(i) \/ WriteResult(i) \/ ReportStops(i)
        PROVE  AppliedUpToNewest'
    <2>1. UNCHANGED <<messages, waiting, newest>>
      BY <1>5 DEF WriteStatus, WriteNote, WriteResult, ReportStops, down
    <2>2. \A c \in Commands : IsKnown(c)' <=> IsKnown(c)
      <3>1. CASE UNCHANGED edgeStatus
        BY <3>1 DEF IsKnown
      <3>2. CASE WriteStatus(i)
        <4>1. IsKnown(post[i].cmd) /\ post[i].status \in {"ACKED", "FAILED"}
          BY <3>2 DEF WriteStatus, IInv, NamesAreGood, TypeOK
        <4>2. edgeStatus' = [edgeStatus EXCEPT ![post[i].cmd] = post[i].status]
          BY <3>2 DEF WriteStatus
        <4> QED BY <4>1, <4>2 DEF IsKnown, IInv, TypeOK
      <3> QED BY <1>5, <3>1, <3>2 DEF WriteNote, WriteResult, ReportStops, edge
    <2> QED BY <1>2, <2>1, <2>2
  <1>6. CASE Apply
    <2>1. PICK n \in todo :
           /\ n \in waiting /\ n \in DOMAIN messages /\ n \in Nat
           /\ \/ /\ ~Refused(messages[n])
                 /\ \A c \in Commands :
                      edgeStatus'[c] = IF c = messages[n].cmd THEN "PENDING" ELSE edgeStatus[c]
                 /\ newest' = IF n > newest THEN n ELSE newest
                 /\ waiting' \in {waiting, waiting \ {n}}
              \/ UNCHANGED <<edgeStatus, newest, waiting>>
      BY <1>6, Applying DEF IInv
    <2>2. UNCHANGED messages
      BY <1>6 DEF Apply
    <2>3. CASE UNCHANGED <<edgeStatus, newest, waiting>>
      BY <1>2, <2>2, <2>3 DEF IsKnown
    <2>4. CASE /\ ~Refused(messages[n])
               /\ \A c \in Commands :
                    edgeStatus'[c] = IF c = messages[n].cmd THEN "PENDING" ELSE edgeStatus[c]
               /\ newest' = IF n > newest THEN n ELSE newest
               /\ waiting' \in {waiting, waiting \ {n}}
      <3>1. newest' \in 0 .. Len(messages') /\ newest' >= newest /\ newest' >= n /\ newest' \in Nat
        BY <1>0, <2>1, <2>2, <2>4 DEF AppliedUpToNewest
      <3>2. ASSUME NEW c \in Commands, IsKnown(c)' PROVE \E k \in 1 .. newest' : messages'[k].cmd = c
        <4>1. CASE c = messages[n].cmd
          <5>1. n \in 1 .. newest'
            BY <1>0, <2>1, <3>1
          <5> QED BY <2>2, <4>1, <5>1
        <4>2. CASE c # messages[n].cmd
          <5>1. IsKnown(c)
            BY <2>4, <3>2, <4>2 DEF IsKnown
          <5>2. PICK k \in 1 .. newest : messages[k].cmd = c
            BY <5>1 DEF AppliedUpToNewest
          <5>3. k \in 1 .. newest'
            BY <1>0, <3>1
          <5> QED BY <2>2, <5>2, <5>3
        <4> QED BY <4>1, <4>2
      <3>3. ASSUME NEW k \in DOMAIN messages', k > newest'
            PROVE  k \in waiting' /\ ~Refused(messages[k])'
        <4>1. k \in DOMAIN messages /\ k > newest /\ k # n
          BY <1>0, <2>1, <2>2, <3>1, <3>3
        <4>2. k \in waiting /\ ~Refused(messages[k])
          BY <4>1 DEF AppliedUpToNewest
        <4>3. messages[k].cmd = 0 \/ messages[k].cmd # messages[n].cmd
          BY <2>1, <4>1 DEF SentInOrder
        <4> QED BY <1>1, <2>2, <2>4, <4>1, <4>2, <4>3 DEF Refused
      <3> QED BY <3>1, <3>2, <3>3 DEF AppliedUpToNewest
    <2> QED BY <2>1, <2>3, <2>4
  <1> QED BY <1>3, <1>4, <1>5, <1>6 DEF Next, Puller, Reporting

---------------------------------------------------------------------------
(* The panel goes by the commands' order.                                  *)

LEMMA InOrderBefore ==
  ASSUME [Next]_vars, InOrder'
  PROVE  InOrder /\ NoSlip({"left"}) /\ slips' \cap {"swapped", "late", "failed", "deaf", "unreported", "left"} = {}
  BY SlipsStay DEF InOrder, NoSlip

\* What is on the panel, and what is owed to it, is known.
LEMMA KnownStays ==
  ASSUME IInv, [Next]_vars
  PROVE  \A c \in Commands : IsKnown(c) => command'[c] = command[c]
  <1>1. CASE UNCHANGED vars
    BY <1>1 DEF vars
  <1>2. CASE Next
    BY <1>2, NamesStay DEF IInv, NamesAreGood
  <1> QED BY <1>1, <1>2

LEMMA PanelStands ==
  ASSUME PanelInStep, InOrder' => InOrder,
         \A c \in Commands : IsKnown(c) => command'[c] = command[c],
         \A c \in Commands : Settled(c)' <=> Settled(c),
         \A c \in Commands : Owed(c) => Owed(c)',
         panel'.power = panel.power,
         panel'.text = panel.text \/ \E d \in Commands : Owed(d)' /\ command'[d] \in Modes
  PROVE  PanelInStep'
  <1>1. \A c \in Commands : Settled(c) \/ Owed(c) => command'[c] = command[c]
    BY DEF Settled, Owed
  <1>2. \A c \in Commands, kind \in {Powers, Modes} : NewestSettled(c, kind)' => NewestSettled(c, kind)
    BY <1>1 DEF NewestSettled
  <1>3. ASSUME NEW c \in Commands, InOrder', NewestSettled(c, Powers)' PROVE panel'.power = command'[c]
    <2>1. NewestSettled(c, Powers) /\ Settled(c)
      BY <1>2, <1>3 DEF NewestSettled
    <2> QED BY <1>1, <1>3, <2>1 DEF PanelInStep
  <1>4. ASSUME NEW c \in Commands, InOrder', NewestSettled(c, Modes)'
        PROVE  panel'.text = command'[c] \/ \E d \in Commands : Owed(d)' /\ command'[d] \in Modes
    <2>1. NewestSettled(c, Modes) /\ Settled(c)
      BY <1>2, <1>4 DEF NewestSettled
    <2> QED BY <1>1, <1>4, <2>1 DEF PanelInStep
  <1> QED BY <1>3, <1>4 DEF PanelInStep

\* A step that leaves the daemon, the panel and the edge's commands alone.
LEMMA PanelLeftAlone ==
  ASSUME IInv, SettledBeforeOwed, PanelInStep, [Next]_vars, UNCHANGED <<edgeStatus, daemon, panel>>,
         InOrder' => \A i \in Posts : post[i].pc = "status" => post'[i].pc = "status"
  PROVE  SettledBeforeOwed' /\ PanelInStep'
  <1>1. \A c \in Commands : (Settled(c)' <=> Settled(c)) /\ (Owed(c)' <=> Owed(c))
    BY DEF Settled, Owed, IsKnown
  <1>2. InOrder' => InOrder
    BY InOrderBefore
  <1>3. PanelInStep'
    BY <1>1, <1>2, KnownStays, PanelStands
  <1>4. daemon.slot \in Posts
    BY DEF IInv, TypeOK
  <1>5. SettledBeforeOwed'
    BY <1>1, <1>2, <1>4 DEF SettledBeforeOwed, Pending
  <1> QED BY <1>3, <1>5

LEMMA PanelApply ==
  ASSUME IInv, PanelInv, Apply
  PROVE  SettledBeforeOwed' /\ PanelInStep'
  <1>0. /\ [Next]_vars /\ UNCHANGED <<daemon, post, panel, messages>>
        /\ SettledBeforeOwed /\ PanelInStep /\ SentInOrder /\ AppliedUpToNewest
    BY DEF Next, Puller, Apply, PanelInv
  <1>1. PICK n \in todo :
         /\ n \in waiting /\ n \in DOMAIN messages /\ n \in Nat
         /\ \/ /\ ~Refused(messages[n])
               /\ \A c \in Commands :
                    edgeStatus'[c] = IF c = messages[n].cmd THEN "PENDING" ELSE edgeStatus[c]
               /\ n < newest => "late" \in slips'
            \/ UNCHANGED edgeStatus
    BY Applying DEF IInv
  <1>2. CASE UNCHANGED edgeStatus
    BY <1>0, <1>2, PanelLeftAlone
  <1>3. ASSUME ~Refused(messages[n]),
               \A c \in Commands : edgeStatus'[c] = IF c = messages[n].cmd THEN "PENDING" ELSE edgeStatus[c],
               n < newest => "late" \in slips',
               NEW k \in Commands, k = messages[n].cmd
        PROVE  SettledBeforeOwed' /\ PanelInStep'
    <2>1. ~IsKnown(k) /\ k \in Nat /\ k # 0
      BY <1>3 DEF Refused, IsKnown, Commands
    <2>2. \A d \in Commands : IsKnown(d)' <=> IsKnown(d) \/ d = k
      BY <1>3 DEF IsKnown
    <2>3. daemon.pc \in {"post", "wait"} => daemon.cmd # k
      BY <2>1 DEF IInv, NamesAreGood
    <2>4. \A d \in Commands : Settled(d)' <=> Settled(d)
      BY <1>0, <1>3, <2>1, <2>2, <2>3 DEF Settled
    <2>5. \A d \in Commands : Owed(d)' <=> Owed(d) \/ d = k
      <3>1. ~Settled(k)
        BY <2>1 DEF Settled
      <3> QED BY <2>2, <2>4, <3>1 DEF Owed
    <2>6. ASSUME InOrder', NEW d \in Commands, IsKnown(d) PROVE d < k
      <3>1. PICK j \in 1 .. newest : messages[j].cmd = d
        BY <1>0, <2>6 DEF AppliedUpToNewest
      <3>2. ~ (n < newest) /\ NoSlip({"swapped"})
        BY <1>0, <1>3, <2>6, InOrderBefore DEF InOrder, NoSlip
      <3>3. newest \in Nat /\ Len(messages) \in Nat /\ DOMAIN messages = 1 .. Len(messages)
        <4>1. messages \in Seq(MessageRows)
          BY DEF IInv, TypeOK, MessageRows
        <4> QED BY <4>1 DEF IInv, TypeOK
      <3>4. j \in DOMAIN messages /\ j <= n
        BY <1>0, <1>1, <3>2, <3>3 DEF AppliedUpToNewest
      <3>5. j # n /\ d # k
        BY <1>3, <2>1, <2>6, <3>1
      <3>6. j < n
        BY <1>1, <3>3, <3>4, <3>5
      <3>7. d <= k
        BY <1>0, <1>1, <1>3, <2>1, <3>1, <3>2, <3>4, <3>6 DEF SentInOrder
      <3> QED BY <3>5, <3>7 DEF Commands
    <2>7. InOrder' => InOrder
      BY <1>0, InOrderBefore
    <2>8. PanelInStep'
      BY <1>0, <2>4, <2>5, <2>7, KnownStays, PanelStands
    <2>9. ASSUME InOrder' PROVE \A c, d \in Commands : Settled(c)' /\ Owed(d)' => c < d
      BY <1>0, <2>4, <2>5, <2>6, <2>7, <2>9 DEF SettledBeforeOwed, Settled
    <2>10. ASSUME InOrder'
           PROVE  \A c \in daemon.jobs, d \in Commands : Owed(d)' => d \in daemon.jobs \/ c < d
      <3>1. \A c \in daemon.jobs : IsKnown(c) /\ c \in Commands
        BY DEF IInv, NamesAreGood, IsKnown
      <3> QED BY <1>0, <2>5, <2>6, <2>7, <2>10, <3>1 DEF SettledBeforeOwed
    <2>11. daemon.cmd \in Pending' /\ daemon.pc = "wait" => daemon.cmd \in Pending
      BY <1>3, <2>3 DEF Pending
    <2> QED BY <1>0, <2>7, <2>8, <2>9, <2>10, <2>11 DEF SettledBeforeOwed
  <1>4. CASE /\ \A c \in Commands : edgeStatus'[c] = IF c = messages[n].cmd THEN "PENDING" ELSE edgeStatus[c]
             /\ messages[n].cmd \notin Commands
    <2>1. \A c \in Commands : (Settled(c)' <=> Settled(c)) /\ (Owed(c)' <=> Owed(c))
      BY <1>0, <1>4 DEF Settled, Owed, IsKnown
    <2>2. InOrder' => InOrder
      BY <1>0, InOrderBefore
    <2>3. PanelInStep'
      BY <1>0, <2>1, <2>2, KnownStays, PanelStands
    <2>4. daemon.cmd \in Pending' <=> daemon.cmd \in Pending
      BY <1>4 DEF Pending
    <2> QED BY <1>0, <2>1, <2>2, <2>3, <2>4 DEF SettledBeforeOwed
  <1> QED BY <1>1, <1>2, <1>3, <1>4

\* Of the oldest commands, whatever is older than one of them is among them.
LEMMA OldestFirst ==
  ASSUME TypeOK, NEW c \in Pending, NEW d \in Pending,
         Cardinality({e \in Pending : e < c}) < JobLimit, d <= c
  PROVE  Cardinality({e \in Pending : e < d}) < JobLimit
  <1> DEFINE C == {e \in Pending : e < c}
             D == {e \in Pending : e < d}
  <1>1. Pending \subseteq Commands /\ Commands \subseteq Nat
    BY DEF Pending, Commands
  <1>2. D \subseteq C
    <2>1. c \in Nat /\ d \in Nat
      BY <1>1
    <2>2. \A e \in Pending : e \in Nat /\ (e < d => e < c)
      BY <1>1, <2>1
    <2> QED BY <2>2
  <1>3. IsFiniteSet(C)
    <2>1. IsFiniteSet(1 .. MaxRequests)
      BY FS_Interval, BoundAssumption
    <2>2. C \subseteq 1 .. MaxRequests
      BY <1>1 DEF Commands
    <2> QED BY <2>1, <2>2, FS_Subset
  <1>4. Cardinality(D) <= Cardinality(C) /\ Cardinality(C) \in Nat /\ Cardinality(D) \in Nat
    BY <1>2, <1>3, FS_Subset, FS_CardinalityType
  <1> QED BY <1>4, BoundAssumption

LEMMA PanelDaemon ==
  ASSUME IInv, PanelInv, Daemon \/ DaemonRestarts
  PROVE  SettledBeforeOwed' /\ PanelInStep'
  <1>0. /\ [Next]_vars /\ SettledBeforeOwed /\ PanelInStep
        /\ UNCHANGED <<edgeStatus, command, slips>> \/ UNCHANGED <<edgeStatus, command>>
    BY DEF Next, PanelInv, Daemon, DaemonRestarts, Fetch, Execute, Report, Answered, edge, cloud
  <1>1. daemon \in DaemonRows /\ post \in [Posts -> PostRows]
    BY DEF IInv, TypeOK, DaemonRows, PostRows
  <1>2. Pending' = Pending /\ (\A c \in Commands : IsKnown(c)' <=> IsKnown(c)) /\ Pending \subseteq Commands
    BY <1>0 DEF Pending, IsKnown
  <1> SUFFICES ASSUME InOrder' PROVE SettledBeforeOwed' /\ PanelInStep'
    BY DEF SettledBeforeOwed, PanelInStep
  <1>3. InOrder /\ NoSlip({"left"}) /\ slips' \cap {"failed", "deaf", "unreported", "left"} = {}
    BY <1>0, InOrderBefore
  <1>4. daemon.jobs \subseteq Pending /\ (daemon.pc = "post" => daemon.cmd \in Pending)
    BY <1>3 DEF IInv, OneReport
  \* The panel has not got further.
  <1>5. ASSUME \A c \in Commands : Settled(c)' <=> Settled(c),
               panel'.power = panel.power,
               panel'.text = panel.text \/ \E d \in Commands : Owed(d) /\ command[d] \in Modes,
               daemon'.jobs = {} \/ daemon'.jobs = daemon.jobs,
               daemon'.pc = "poll" => daemon'.jobs = {},
               daemon'.pc # "wait" \/ post'[daemon'.slot].pc = "status"
        PROVE  SettledBeforeOwed' /\ PanelInStep'
    <2>1. \A c \in Commands : Owed(c)' <=> Owed(c)
      BY <1>2, <1>5 DEF Owed
    <2>2. PanelInStep'
      <3>1. panel'.text = panel.text \/ \E d \in Commands : Owed(d)' /\ command'[d] \in Modes
        BY <1>0, <1>5, <2>1
      <3> QED BY <1>0, <1>3, <1>5, <2>1, <3>1, PanelStands
    <2>3. SettledBeforeOwed'
      BY <1>0, <1>3, <1>5, <2>1 DEF SettledBeforeOwed
    <2> QED BY <2>2, <2>3
  <1>6. CASE Fetch
    <2>1. /\ daemon.pc = "poll" /\ daemon'.pc = "send" /\ UNCHANGED <<panel, post>>
          /\ daemon'.jobs = {c \in Pending : Cardinality({d \in Pending : d < c}) < JobLimit}
      BY <1>1, <1>6 DEF Fetch, DaemonRows
    <2>2. \A c \in Commands : Settled(c)' <=> Settled(c)
      BY <1>0, <1>2, <2>1 DEF Settled
    <2>3. \A c \in Commands : Owed(c)' <=> Owed(c)
      BY <1>2, <2>2 DEF Owed
    <2>4. PanelInStep'
      BY <1>0, <1>3, <2>1, <2>2, <2>3, PanelStands
    <2>5. ASSUME NEW c \in daemon'.jobs, NEW d \in Commands, Owed(d), d \notin daemon'.jobs PROVE c < d
      <3>1. d \in Pending
        BY <2>1, <2>5 DEF Owed, Settled, Pending
      <3>2. c \in Pending /\ Cardinality({e \in Pending : e < c}) < JobLimit
        BY <2>1
      <3>3. ~ (Cardinality({e \in Pending : e < d}) < JobLimit)
        BY <2>1, <2>5, <3>1
      <3>4. ~ (d <= c)
        BY <3>1, <3>2, <3>3, OldestFirst DEF IInv
      <3> QED BY <1>2, <3>1, <3>2, <3>4 DEF Commands
    <2>6. SettledBeforeOwed'
      BY <1>0, <1>3, <2>1, <2>2, <2>3, <2>5 DEF SettledBeforeOwed
    <2> QED BY <2>4, <2>6
  <1>7. CASE Execute
    <2>1. PICK k \in daemon.jobs : k = NextJob(daemon.jobs) /\ \A j \in daemon.jobs : k <= j
      <3>1. daemon.jobs # {} /\ daemon.jobs \in SUBSET Nat
        BY <1>1, <1>7 DEF Execute, IInv, OneReport, DaemonRows, Commands
      <3> QED BY <3>1, MinIsMember DEF NextJob
    <2>2. daemon.pc = "send" /\ daemon'.pc = "post" /\ daemon'.jobs = daemon.jobs \ {k} /\ daemon'.cmd = k
      BY <1>1, <1>7, <2>1 DEF Execute, DaemonRows
    <2>3. panel' = ShownOn(panel, command[k])
      BY <1>3, <1>7, <2>1 DEF Execute, Slip
    <2>4. k \in Pending /\ k \in Commands /\ Owed(k)
      BY <1>2, <1>4, <2>1, <2>2 DEF Owed, Settled, IsKnown, Pending
    <2>5. \A c \in Commands : Settled(c)' <=> Settled(c) \/ c = k
      BY <1>0, <1>2, <2>2, <2>4 DEF Settled, Pending, Owed
    <2>6. \A c \in Commands : Owed(c)' <=> Owed(c) /\ c # k
      BY <1>2, <2>5 DEF Owed
    <2>7. ASSUME NEW c \in Commands, NEW d \in Commands, Settled(c)', Owed(d)' PROVE c < d
      <3>1. Owed(d) /\ d # k
        BY <2>6, <2>7
      <3>2. CASE Settled(c)
        BY <1>0, <1>3, <3>1, <3>2 DEF SettledBeforeOwed
      <3>3. CASE c = k
        <4>1. d \in daemon.jobs \/ k < d
          BY <1>0, <1>3, <2>1, <3>1 DEF SettledBeforeOwed
        <4> QED BY <2>1, <3>1, <3>3, <4>1 DEF Commands
      <3> QED BY <2>5, <2>7, <3>2, <3>3
    <2>8. SettledBeforeOwed'
      BY <1>0, <1>3, <2>2, <2>6, <2>7 DEF SettledBeforeOwed
    <2>9. ASSUME NEW kind \in {Powers, Modes}, NEW c \in Commands, NewestSettled(c, kind)'
          PROVE  IF command[k] \in kind THEN c = k ELSE NewestSettled(c, kind)
      <3>1. CASE command[k] \in kind
        <4>1. k <= c
          BY <1>0, <2>4, <2>5, <2>9, <3>1 DEF NewestSettled
        <4>2. Settled(c) => c < k
          BY <1>0, <1>3, <2>4 DEF SettledBeforeOwed
        <4>3. ~Settled(c)
          BY <2>4, <4>1, <4>2 DEF Commands
        <4> QED BY <2>5, <2>9, <3>1, <4>3 DEF NewestSettled
      <3>2. CASE command[k] \notin kind
        BY <1>0, <2>5, <2>9, <3>2 DEF NewestSettled
      <3> QED BY <3>1, <3>2
    <2>10. command[k] \in Powers \cup Modes
      BY <2>4 DEF IInv, NamesAreGood, IsKnown, IsMade, TypeOK, Owed
    <2>11. /\ panel'.power = IF command[k] \in Powers THEN command[k] ELSE panel.power
           /\ panel'.text = IF command[k] \in Modes THEN command[k] ELSE panel.text
      BY <2>3, <2>10 DEF ShownOn, IInv, TypeOK, Powers, Modes
    <2>12. ASSUME NEW c \in Commands, NewestSettled(c, Powers)' PROVE panel'.power = command'[c]
      BY <1>0, <1>3, <2>9, <2>11, <2>12 DEF PanelInStep
    <2>13. ASSUME NEW c \in Commands, NewestSettled(c, Modes)'
           PROVE  panel'.text = command'[c] \/ \E d \in Commands : Owed(d)' /\ command'[d] \in Modes
      BY <1>0, <1>3, <2>6, <2>9, <2>11, <2>13 DEF PanelInStep
    <2>14. PanelInStep'
      BY <2>12, <2>13 DEF PanelInStep
    <2> QED BY <2>8, <2>14
  <1>8. CASE Report
    <2>1. PICK i \in Posts :
            /\ post' = [post EXCEPT ![i] = [pc |-> "status", cmd |-> daemon.cmd, status |-> daemon.took]]
            /\ daemon' = [daemon EXCEPT !.pc = "wait", !.slot = i]
      BY <1>3, <1>8 DEF Report, Slip
    <2>2. /\ daemon.pc = "post" /\ daemon'.pc = "wait" /\ daemon'.slot = i
          /\ daemon'.cmd = daemon.cmd /\ daemon'.jobs = daemon.jobs /\ UNCHANGED panel
      BY <1>1, <1>8, <2>1 DEF Report, DaemonRows
    <2>3. post'[i].pc = "status"
      BY <1>1, <2>1
    <2>4. \A c \in Commands : Settled(c)' <=> Settled(c)
      BY <1>0, <1>2, <2>2 DEF Settled
    <2> QED BY <1>5, <2>2, <2>3, <2>4
  <1>9. CASE Answered
    <2>1. /\ daemon.pc = "wait" /\ daemon'.pc = AfterJob /\ daemon'.jobs = daemon.jobs
          /\ post[daemon.slot].pc = "free" /\ UNCHANGED <<panel, post>>
      BY <1>1, <1>3, <1>9 DEF Answered, Slip, DaemonRows
    <2>2. daemon.cmd \notin Pending
      BY <1>0, <1>3, <2>1 DEF SettledBeforeOwed
    <2>3. daemon'.pc \in {"poll", "send"} /\ (daemon'.pc = "poll" => daemon'.jobs = {})
      BY <2>1 DEF AfterJob
    <2>4. \A c \in Commands : Settled(c)' <=> Settled(c)
      BY <1>0, <1>2, <2>1, <2>2, <2>3 DEF Settled, Pending
    <2> QED BY <1>5, <2>1, <2>3, <2>4
  <1>10. CASE DaemonRestarts
    <2>1. daemon.pc = "send" /\ daemon' = Polling /\ UNCHANGED post
      BY <1>1, <1>3, <1>10 DEF DaemonRestarts, DaemonRows
    <2>2. daemon'.pc = "poll" /\ daemon'.jobs = {}
      BY <2>1 DEF Polling
    <2>3. \A c \in Commands : Settled(c)' <=> Settled(c)
      BY <1>0, <1>2, <2>1, <2>2 DEF Settled
    <2>4. PICK k \in daemon.jobs : k = NextJob(daemon.jobs)
      BY <1>1, <2>1, NextJobType DEF IInv, OneReport, DaemonRows
    <2>5. panel' = panel \/ (command[k] \in Modes /\ panel' = [panel EXCEPT !.text = "torn"])
      BY <1>10, <2>1, <2>4 DEF DaemonRestarts, Broken
    <2>6. k \in Commands /\ Owed(k)
      BY <1>2, <1>4, <2>1, <2>4 DEF Owed, Settled, IsKnown, Pending
    <2>7. panel'.power = panel.power
      BY <2>5 DEF IInv, TypeOK
    <2>8. panel'.text = panel.text \/ \E d \in Commands : Owed(d) /\ command[d] \in Modes
      BY <2>5, <2>6
    <2> QED BY <1>5, <2>2, <2>3, <2>7, <2>8
  <1> QED BY <1>6, <1>7, <1>8, <1>9, <1>10 DEF Daemon

LEMMA PanelReport ==
  ASSUME IInv, PanelInv, NEW i \in Posts,
         WriteStatus(i) \/ WriteNote(i) \/ WriteResult(i) \/ ReportStops(i)
  PROVE  SettledBeforeOwed' /\ PanelInStep'
  <1>0. [Next]_vars /\ SettledBeforeOwed /\ PanelInStep /\ post \in [Posts -> PostRows]
    BY DEF Next, Reporting, PanelInv, IInv, TypeOK, PostRows
  <1>1. CASE WriteNote(i) \/ WriteResult(i) \/ ReportStops(i)
    <2>1. UNCHANGED <<edgeStatus, daemon, panel>>
      BY <1>1 DEF WriteNote, WriteResult, ReportStops, edge
    <2>2. \A j \in Posts \ {i} : post'[j] = post[j]
      BY <1>0, <1>1 DEF WriteNote, WriteResult, ReportStops
    <2>3. InOrder' => post[i].pc # "status"
      BY <1>0, <1>1, InOrderBefore DEF WriteNote, WriteResult, ReportStops, Slip
    <2> QED BY <1>0, <2>1, <2>2, <2>3, PanelLeftAlone
  <1>2. CASE WriteStatus(i)
    <2> SUFFICES ASSUME InOrder' PROVE SettledBeforeOwed' /\ PanelInStep'
      BY DEF SettledBeforeOwed, PanelInStep
    <2>1. InOrder /\ NoSlip({"left"})
      BY <1>0, InOrderBefore
    <2>2. daemon.pc = "wait" /\ post[i].cmd = daemon.cmd /\ daemon.cmd \in Pending
      BY <1>2, <2>1 DEF WriteStatus, IInv, OneReport
    <2>3. UNCHANGED <<daemon, panel>> /\ post[i].status \in {"ACKED", "FAILED"}
      BY <1>0, <1>2 DEF WriteStatus, PostRows
    <2>4. \A c \in Commands : edgeStatus'[c] = IF c = daemon.cmd THEN post[i].status ELSE edgeStatus[c]
      BY <1>2, <2>2 DEF WriteStatus, IInv, TypeOK
    <2>5. \A c \in Commands : IsKnown(c)' <=> IsKnown(c)
      BY <2>2, <2>3, <2>4 DEF IsKnown, Pending
    <2>6. \A c \in Commands : Settled(c)' <=> Settled(c)
      BY <2>2, <2>3, <2>4, <2>5 DEF Settled
    <2>7. \A c \in Commands : Owed(c)' <=> Owed(c)
      BY <2>5, <2>6 DEF Owed
    <2>8. PanelInStep'
      BY <1>0, <2>1, <2>3, <2>6, <2>7, KnownStays, PanelStands
    <2>9. daemon.cmd \notin Pending'
      BY <2>2, <2>3, <2>4 DEF Pending
    <2> QED BY <1>0, <2>1, <2>2, <2>3, <2>6, <2>7, <2>8, <2>9 DEF SettledBeforeOwed
  <1> QED BY <1>1, <1>2

LEMMA NextPanelInv ==
  ASSUME IInv, PanelInv, [Next]_vars
  PROVE  PanelInv'
  <1>1. SentInOrder' /\ AppliedUpToNewest'
    BY NextSentInOrder, NextAppliedUpToNewest DEF PanelInv
  <1>2. ASSUME NEW r \in Requests, Operator(r) \/ RequestStops(r) PROVE SettledBeforeOwed' /\ PanelInStep'
    BY <1>2, OperatorFrame, PanelLeftAlone DEF edge, PanelInv
  <1>3. ASSUME StartRun \/ Telling \/ UNCHANGED vars PROVE SettledBeforeOwed' /\ PanelInStep'
    <2>1. UNCHANGED <<edgeStatus, daemon, panel, post>>
      BY <1>3 DEF StartRun, Telling, TakeResult, edge, vars
    <2> QED BY <2>1, PanelLeftAlone DEF PanelInv
  <1>4. SettledBeforeOwed' /\ PanelInStep'
    BY <1>2, <1>3, PanelApply, PanelDaemon, PanelReport DEF Next, Puller, Reporting
  <1> QED BY <1>1, <1>4 DEF PanelInv

\* Commands are numbered, so some have a newest one.
LEMMA NewestCommand ==
  ASSUME NEW S \in SUBSET Commands, S # {}
  PROVE  Max(S) \in S /\ \A y \in S : y <= Max(S)
  <1> DEFINE T == {MaxRequests - x : x \in S}
  <1>1. \A x \in S : MaxRequests - x \in Nat /\ x \in Nat
    BY BoundAssumption DEF Commands
  <1>2. T \in SUBSET Nat /\ T # {}
    BY <1>1
  <1>3. PICK t \in T : \A y \in T : t <= y
    BY <1>2, MinIsMember
  <1>4. PICK x \in S : t = MaxRequests - x
    OBVIOUS
  <1>5. \A y \in S : x >= y
    <2> SUFFICES ASSUME NEW y \in S PROVE x >= y
      OBVIOUS
    <2>1. MaxRequests - x <= MaxRequests - y
      BY <1>3, <1>4
    <2> QED BY <1>1, <2>1, BoundAssumption
  <1>6. Max(S) \in S /\ \A y \in S : Max(S) >= y
    BY <1>5 DEF Max
  <1> QED BY <1>1, <1>6

\* Commands reach the panel in the order of the requests, for any number of them.
THEOREM SpecPanelInv == Spec => []PanelInv
  <1>1. Init => PanelInv
    <2> SUFFICES ASSUME Init PROVE PanelInv
      OBVIOUS
    <2>1. DOMAIN messages = {} /\ Len(messages) = 0
      BY DEF Init
    <2>2. \A c \in Commands : ~IsKnown(c)
      BY DEF Init, IsKnown
    <2>3. SentInOrder
      BY <2>1 DEF Init, SentInOrder
    <2>4. AppliedUpToNewest
      BY <2>1, <2>2 DEF Init, AppliedUpToNewest
    <2>5. SettledBeforeOwed /\ PanelInStep
      BY <2>2 DEF Init, Polling, SettledBeforeOwed, PanelInStep, NewestSettled, Settled
    <2> QED BY <2>3, <2>4, <2>5 DEF PanelInv
  <1> QED BY <1>1, NextPanelInv, SpecIInv, PTL DEF Spec

\* While nothing is lost, late, repeated or refused by the panel, the quiet panel shows the
\* newest power and the newest text that were asked for (getDaemonJobs, the display
\* daemon's loop and reportJobResult).
THEOREM SpecPanelShowsNewest == Spec => []PanelShowsNewest
  <1>1. ASSUME IInv, PanelInv PROVE PanelShowsNewest
    <2> SUFFICES ASSUME EdgeQuiet, InOrder
                 PROVE  /\ Known(Powers) # {} => panel.power = command[Max(Known(Powers))]
                        /\ Known(Modes) # {} => panel.text = command[Max(Known(Modes))]
      BY DEF PanelShowsNewest, InOrder
    <2>1. \A c \in Commands : IsKnown(c) <=> Settled(c)
      BY DEF EdgeQuiet, Pending, Settled, IsKnown
    <2>2. ASSUME NEW kind, Known(kind) # {}
          PROVE  Max(Known(kind)) \in Commands /\ NewestSettled(Max(Known(kind)), kind)
      <3>1. Known(kind) \subseteq Commands /\ \A c \in Known(kind) : command[c] \in kind /\ Settled(c)
        BY <2>1 DEF Known, IsKnown
      <3>2. \A d \in Commands : Settled(d) /\ command[d] \in kind => d \in Known(kind)
        BY <2>1 DEF Known, IsKnown
      <3> QED BY <2>2, <3>1, <3>2, NewestCommand DEF NewestSettled
    <2>3. \A d \in Commands : ~Owed(d)
      BY <2>1 DEF Owed
    <2> QED BY <1>1, <2>2, <2>3 DEF PanelInv, PanelInStep
  <1> QED BY <1>1, SpecIInv, SpecPanelInv, PTL

---------------------------------------------------------------------------
(* The two boards.                                                         *)

Settings == {"power", "mode"}

\* Two boards with the same settings are one.
LEMMA SameBoard ==
  ASSUME NEW b \in Boards, NEW d \in Boards, \A s \in Settings : b[s] = d[s]
  PROVE  b = d
  <1>1. b.power = d.power /\ b.mode = d.mode
    BY DEF Settings
  <1> QED BY <1>1 DEF Boards

\* What the rows leave a setting at.
LEMMA LeaveIsOne ==
  ASSUME NEW m \in Nat, NEW s, NEW v, NEW w, Leave(m, s, v), Leave(m, s, w)
  PROVE  v = w
  <1>1. CASE \A n \in 1 .. m : ~Sets(n, s)
    BY <1>1 DEF Leave
  <1>2. CASE \E n \in 1 .. m : Sets(n, s)
    <2>1. PICK n \in 1 .. m : Sets(n, s) /\ Value(n, s) = v /\ \A k \in n + 1 .. m : ~Sets(k, s)
      BY <1>2 DEF Leave
    <2>2. PICK k \in 1 .. m : Sets(k, s) /\ Value(k, s) = w /\ \A j \in k + 1 .. m : ~Sets(j, s)
      BY <1>2 DEF Leave
    <2>3. ~ (n < k) /\ ~ (k < n)
      BY <2>1, <2>2
    <2>4. n = k
      BY <2>3
    <2> QED BY <2>1, <2>2, <2>4
  <1> QED BY <1>1, <1>2

LEMMA LeaveStays ==
  ASSUME NEW m \in Nat, NEW s, NEW v, Leave(m, s, v),
         \A n \in 1 .. m : (Sets(n, s)' <=> Sets(n, s)) /\ Value(n, s)' = Value(n, s)
  PROVE  Leave(m, s, v)'
  <1>1. CASE v = AtFirst[s] /\ \A n \in 1 .. m : ~Sets(n, s)
    BY <1>1 DEF Leave, AtFirst
  <1>2. ASSUME NEW n \in 1 .. m, Sets(n, s), Value(n, s) = v, \A k \in n + 1 .. m : ~Sets(k, s)
        PROVE  Leave(m, s, v)'
    <2>1. \A k \in n + 1 .. m : ~Sets(k, s)'
      BY <1>2
    <2> QED BY <1>2, <2>1 DEF Leave
  <1> QED BY <1>1, <1>2 DEF Leave

LEMMA LeaveAtRow ==
  ASSUME NEW n \in Nat \ {0}, NEW s, NEW v, Sets(n, s)', Value(n, s)' = v
  PROVE  Leave(n, s, v)'
  <1>1. n \in 1 .. n /\ n + 1 .. n = {}
    OBVIOUS
  <1> QED BY <1>1 DEF Leave

LEMMA LeavePast ==
  ASSUME NEW m \in Nat, NEW s, NEW v, ~Sets(m + 1, s)', Leave(m, s, v)'
  PROVE  Leave(m + 1, s, v)'
  <1>1. \A k \in 1 .. m + 1 : k \in 1 .. m \/ k = m + 1
    OBVIOUS
  <1>2. CASE v = AtFirst[s] /\ \A n \in 1 .. m : ~Sets(n, s)'
    BY <1>1, <1>2 DEF Leave, AtFirst
  <1>3. ASSUME NEW n \in 1 .. m, Sets(n, s)', Value(n, s)' = v, \A k \in n + 1 .. m : ~Sets(k, s)'
        PROVE  Leave(m + 1, s, v)'
    <2>1. \A k \in n + 1 .. m + 1 : k \in n + 1 .. m \/ k = m + 1
      OBVIOUS
    <2>2. \A k \in n + 1 .. m + 1 : ~Sets(k, s)'
      BY <1>3, <2>1
    <2>3. n \in 1 .. m + 1
      OBVIOUS
    <2> QED BY <1>3, <2>2, <2>3 DEF Leave
  <1> QED BY <1>2, <1>3 DEF Leave, AtFirst

LEMMA LeaveNext ==
  ASSUME NEW m \in Nat, NEW s, NEW v, Leave(m, s, v)'
  PROVE  /\ newest' = m /\ edgeBoard'[s] = v => (Leave(newest, s, edgeBoard[s]))'
         /\ Len(messages)' = m /\ board'[s] = v => (Leave(Len(messages), s, board[s]))'
  BY DEF Leave

\* The rows that were sent keep what they say.
LEMMA RowsKeep ==
  ASSUME IInv, [Next]_vars
  PROVE  /\ Len(messages) \in Nat /\ DOMAIN messages = 1 .. Len(messages)
         /\ \A n \in DOMAIN messages :
              /\ messages'[n] = messages[n] /\ n \in DOMAIN messages'
              /\ \A s \in Settings : (Sets(n, s)' <=> Sets(n, s)) /\ Value(n, s)' = Value(n, s)
  <1>1. Len(messages) \in Nat /\ DOMAIN messages = 1 .. Len(messages)
    <2>1. messages \in Seq(MessageRows)
      BY DEF IInv, TypeOK, MessageRows
    <2> QED BY <2>1
  <1>2. \A n \in DOMAIN messages : messages'[n] = messages[n] /\ n \in DOMAIN messages'
    <2>1. ASSUME NEW m, Send(m)
          PROVE  \A n \in DOMAIN messages : messages'[n] = messages[n] /\ n \in DOMAIN messages'
      BY <2>1, Sending DEF IInv
    <2> QED BY <2>1, WhoSteps, OperatorSends DEF IInv
  <1>3. \A n \in DOMAIN messages : messages[n].cmd = 0 \/ command'[messages[n].cmd] = command[messages[n].cmd]
    <2>1. \A c \in Commands : IsMade(c) => command'[c] = command[c]
      <3>1. CASE UNCHANGED vars
        BY <3>1 DEF vars
      <3>2. CASE Next
        BY <3>2, NamesStay DEF IInv
      <3> QED BY <3>1, <3>2
    <2> QED BY <2>1 DEF IInv, NamesAreGood, IsMade
  <1>4. \A n \in DOMAIN messages, s \in Settings : (Sets(n, s)' <=> Sets(n, s)) /\ Value(n, s)' = Value(n, s)
    BY <1>2, <1>3 DEF Sets, Value
  <1> QED BY <1>1, <1>2, <1>4

\* A row does to the edge's board what it says.
LEMMA RowIsApplied ==
  ASSUME IInv, NEW n \in DOMAIN messages, NEW s \in Settings
  PROVE  BoardAfter(messages[n])[s] = IF Sets(n, s) THEN Value(n, s) ELSE edgeBoard[s]
  <1>1. CASE messages[n].cmd = 0
    BY <1>1 DEF BoardAfter, Sets, Value
  <1>2. CASE messages[n].cmd # 0 /\ command[messages[n].cmd] \in Powers
    <2>1. BoardAfter(messages[n]) = [edgeBoard EXCEPT !.power = command[messages[n].cmd]]
      BY <1>2 DEF BoardAfter, SetOn
    <2>2. edgeBoard \in Boards
      BY DEF IInv, TypeOK
    <2>3. CASE s = "power"
      BY <1>2, <2>1, <2>2, <2>3 DEF Sets, Value, Boards
    <2>4. CASE s = "mode"
      BY <1>2, <2>1, <2>2, <2>4 DEF Sets, Value, Boards
    <2> QED BY <2>3, <2>4 DEF Settings
  <1>3. CASE messages[n].cmd # 0 /\ command[messages[n].cmd] \notin Powers
    BY <1>3 DEF BoardAfter, Sets
  <1> QED BY <1>1, <1>2, <1>3

\* Nothing but a row tells the edge of a command or sets its board.
LEMMA OnlyRowsTell ==
  ASSUME IInv, [Next]_vars, ~Apply
  PROVE  /\ UNCHANGED <<newest, edgeBoard>> /\ waiting \subseteq waiting'
         /\ \A c \in Commands : IsKnown(c)' <=> IsKnown(c)
  <1>1. ASSUME NEW r \in Requests, Operator(r) \/ RequestStops(r)
        PROVE  UNCHANGED <<newest, edgeBoard, edgeStatus>> /\ waiting \subseteq waiting'
    <2>1. UNCHANGED <<newest, edgeBoard, edgeStatus>>
      BY <1>1, OperatorFrame DEF edge
    <2>2. \A m : Send(m) => waiting \subseteq waiting'
      BY DEF Send
    <2> QED BY <1>1, <2>1, <2>2, OperatorSends DEF IInv
  <1>2. CASE StartRun \/ Daemon \/ DaemonRestarts \/ Telling \/ UNCHANGED vars
    <2>1. UNCHANGED <<waiting, newest, edgeBoard, edgeStatus>>
      BY <1>2 DEF StartRun, Daemon, Fetch, Execute, Report, Answered, DaemonRestarts, Telling,
         TakeResult, edge, down, vars
    <2> QED BY <2>1 DEF IsKnown
  <1>3. ASSUME NEW i \in Posts, WriteStatus(i) \/ WriteNote(i) \/ WriteResult(i) \/ ReportStops(i)
        PROVE  /\ UNCHANGED <<newest, edgeBoard, waiting>>
               /\ \A c \in Commands : IsKnown(c)' <=> IsKnown(c)
    <2>1. UNCHANGED <<newest, edgeBoard, waiting>>
      BY <1>3 DEF WriteStatus, WriteNote, WriteResult, ReportStops, down, edge
    <2>2. CASE UNCHANGED edgeStatus
      BY <2>1, <2>2 DEF IsKnown
    <2>3. CASE WriteStatus(i)
      <3>1. IsKnown(post[i].cmd) /\ post[i].status \in {"ACKED", "FAILED"}
        BY <2>3 DEF WriteStatus, IInv, NamesAreGood, TypeOK
      <3>2. edgeStatus' = [edgeStatus EXCEPT ![post[i].cmd] = post[i].status]
        BY <2>3 DEF WriteStatus
      <3>3. \A c \in Commands : IsKnown(c)' <=> IsKnown(c)
        BY <3>1, <3>2 DEF IsKnown, IInv, TypeOK
      <3> QED BY <2>1, <3>3
    <2> QED BY <1>3, <2>2, <2>3 DEF WriteNote, WriteResult, ReportStops, edge
  <1>4. ASSUME NEW r \in Requests, Operator(r) \/ RequestStops(r)
        PROVE  \A c \in Commands : IsKnown(c)' <=> IsKnown(c)
    BY <1>1, <1>4 DEF IsKnown
  <1> QED BY <1>1, <1>2, <1>3, <1>4 DEF Next, Puller, Reporting

LEMMA NextEdgeInStep ==
  ASSUME IInv, BoardInv, [Next]_vars
  PROVE  EdgeInStep'
  <1>0. EdgeInStep /\ SentInOrder /\ AppliedUpToNewest
    BY DEF BoardInv
  <1> SUFFICES ASSUME NoSlip({"late"})', ~PassedBy', NEW s \in Settings
               PROVE  (Leave(newest, s, edgeBoard[s]))'
    BY DEF EdgeInStep, Settings
  <1>1. NoSlip({"late"})
    BY SlipsStay DEF NoSlip
  <1>2. newest \in Nat /\ Len(messages) \in Nat /\ DOMAIN messages = 1 .. Len(messages)
        /\ newest <= Len(messages)
    BY <1>0, RowsKeep DEF AppliedUpToNewest
  <1>3. \A n \in DOMAIN messages : messages[n].cmd = 0 \/ messages[n].cmd \in Commands
    BY DEF IInv, NamesAreGood, IsMade
  <1>4. waiting \subseteq DOMAIN messages
    BY DEF IInv, RowsAreThere
  \* What a row that was passed by takes to be late.
  <1>5. ASSUME NEW n \in waiting, n < newest, ~Refused(messages[n])
        PROVE  ~ (n \in waiting' /\ n < newest' /\ ~Refused(messages[n])')
    <2>1. messages'[n] = messages[n]
      BY <1>4, <1>5, RowsKeep
    <2> QED BY <2>1 DEF PassedBy, Refused
  <1>6. CASE ~Apply
    <2>1. /\ UNCHANGED <<newest, edgeBoard>> /\ waiting \subseteq waiting'
          /\ \A c \in Commands : IsKnown(c)' <=> IsKnown(c)
      BY <1>6, OnlyRowsTell
    <2>2. ~PassedBy
      <3> SUFFICES ASSUME NEW n \in waiting, n < newest, ~Refused(messages[n]) PROVE FALSE
        BY DEF PassedBy
      <3>1. messages'[n] = messages[n] /\ (messages[n].cmd = 0 \/ messages[n].cmd \in Commands)
        BY <1>3, <1>4, RowsKeep
      <3>2. ~Refused(messages[n])'
        BY <2>1, <3>1 DEF Refused, IsKnown
      <3> QED BY <1>5, <2>1, <3>2
    <2>3. PICK m, v : m \in Nat /\ m = newest /\ v = edgeBoard[s]
      BY <1>2
    <2>4. Leave(m, s, v)
      BY <1>0, <1>1, <2>2, <2>3 DEF EdgeInStep, Settings
    <2>5. Leave(m, s, v)'
      <3>1. m \in Nat /\ \A n \in 1 .. m : n \in DOMAIN messages
        BY <1>2, <2>3
      <3> QED BY <2>4, <3>1, RowsKeep, LeaveStays
    <2>6. m \in Nat /\ newest' = m /\ edgeBoard'[s] = v
      BY <2>1, <2>3
    <2> QED BY <2>5, <2>6, LeaveNext
  <1>7. CASE Apply
    <2>1. PICK n \in todo :
           /\ n \in waiting /\ n \in DOMAIN messages /\ n \in Nat
           /\ \/ /\ ~Refused(messages[n])
                 /\ edgeBoard' = BoardAfter(messages[n])
                 /\ \A c \in Commands :
                      edgeStatus'[c] = IF c = messages[n].cmd THEN "PENDING" ELSE edgeStatus[c]
                 /\ newest' = IF n > newest THEN n ELSE newest
                 /\ waiting' \in {waiting, waiting \ {n}}
                 /\ n < newest => "late" \in slips'
              \/ UNCHANGED <<edgeBoard, edgeStatus, newest, waiting>>
      BY <1>7, Applying DEF IInv
    <2>2. UNCHANGED messages
      BY <1>7 DEF Apply
    <2>3. \A m \in Nat : \A v : m <= Len(messages) /\ Leave(m, s, v) => Leave(m, s, v)'
      <3> SUFFICES ASSUME NEW m \in Nat, NEW v, m <= Len(messages), Leave(m, s, v) PROVE Leave(m, s, v)'
        OBVIOUS
      <3>1. \A k \in 1 .. m : k \in DOMAIN messages
        BY <1>2
      <3> QED BY <3>1, RowsKeep, LeaveStays
    <2>4. CASE UNCHANGED <<edgeBoard, edgeStatus, newest, waiting>>
      <3>1. ~PassedBy
        BY <1>5, <2>2, <2>4 DEF PassedBy, Refused
      <3>2. PICK m, v : m \in Nat /\ m = newest /\ v = edgeBoard[s]
        BY <1>2
      <3>3. Leave(m, s, v)
        BY <1>0, <1>1, <3>1, <3>2 DEF EdgeInStep, Settings
      <3>4. Leave(m, s, v)'
        BY <1>2, <2>3, <3>2, <3>3
      <3> QED BY <2>4, <3>2, <3>4, LeaveNext
    <2>5. CASE /\ ~Refused(messages[n])
               /\ edgeBoard' = BoardAfter(messages[n])
               /\ \A c \in Commands :
                    edgeStatus'[c] = IF c = messages[n].cmd THEN "PENDING" ELSE edgeStatus[c]
               /\ newest' = IF n > newest THEN n ELSE newest
               /\ waiting' \in {waiting, waiting \ {n}}
               /\ n < newest => "late" \in slips'
      <3>1. n >= newest /\ newest' = n /\ n # 0
        BY <1>2, <2>1, <2>5 DEF NoSlip
      <3>2. \A k \in waiting : k # n /\ ~Refused(messages[k]) => k \in waiting' /\ ~Refused(messages[k])'
        <4> SUFFICES ASSUME NEW k \in waiting, k # n, ~Refused(messages[k])
                     PROVE  k \in waiting' /\ ~Refused(messages[k])'
          OBVIOUS
        <4>1. k \in DOMAIN messages
          BY <1>4
        <4>2. messages[k].cmd = 0 \/ messages[k].cmd # messages[n].cmd
          BY <1>0, <2>1, <4>1 DEF SentInOrder
        <4>3. messages[k].cmd = 0 \/ edgeStatus'[messages[k].cmd] = edgeStatus[messages[k].cmd]
          BY <1>3, <2>5, <4>1, <4>2
        <4> QED BY <2>2, <2>5, <4>3 DEF Refused
      <3>3. ~PassedBy
        <4> SUFFICES ASSUME NEW k \in waiting, k < newest, ~Refused(messages[k]) PROVE FALSE
          BY DEF PassedBy
        <4>1. k \in Nat /\ k # n /\ k < newest'
          BY <1>2, <1>4, <2>1, <3>1
        <4> QED BY <1>5, <3>2, <4>1
      <3>4. n = newest \/ n = newest + 1
        <4>1. ASSUME newest + 1 < n PROVE FALSE
          <5>1. PICK k \in DOMAIN messages : k = newest + 1
            BY <1>2, <2>1, <4>1
          <5>2. k > newest /\ k < n
            BY <1>2, <4>1, <5>1
          <5>3. k \in waiting /\ ~Refused(messages[k])
            BY <1>0, <5>2 DEF AppliedUpToNewest
          <5>4. k \in waiting' /\ ~Refused(messages[k])'
            BY <2>1, <3>2, <5>2, <5>3
          <5> QED BY <3>1, <5>2, <5>4 DEF PassedBy
        <4> QED BY <1>2, <2>1, <3>1, <4>1
      <3>5. edgeBoard'[s] = IF Sets(n, s) THEN Value(n, s) ELSE edgeBoard[s]
        BY <2>1, <2>5, RowIsApplied
      <3>6. (Sets(n, s)' <=> Sets(n, s)) /\ Value(n, s)' = Value(n, s)
        BY <2>1, RowsKeep
      <3>7. PICK m, v, w : m \in Nat /\ m = newest /\ v = edgeBoard[s] /\ w = edgeBoard'[s]
        BY <1>2
      <3>8. Leave(n, s, w)'
        <4>1. CASE Sets(n, s)
          BY <2>1, <3>1, <3>5, <3>6, <3>7, <4>1, LeaveAtRow
        <4>2. CASE ~Sets(n, s)
          <5>1. Leave(m, s, v)
            BY <1>0, <1>1, <3>3, <3>7 DEF EdgeInStep, Settings
          <5>2. m \in Nat /\ Leave(m, s, v)' /\ v = w
            BY <1>2, <2>3, <3>5, <3>7, <4>2, <5>1
          <5>3. CASE n = m
            BY <5>2, <5>3
          <5>4. CASE n = m + 1
            <6>1. ~Sets(m + 1, s)'
              BY <3>6, <4>2, <5>4
            <6> QED BY <5>2, <5>4, <6>1, LeavePast
          <5> QED BY <3>4, <3>7, <5>3, <5>4
        <4> QED BY <4>1, <4>2
      <3> QED BY <3>1, <3>7, <3>8, LeaveNext
    <2> QED BY <2>1, <2>4, <2>5
  <1> QED BY <1>6, <1>7

\* A request that is under way is the only one.
LEMMA OneRequest ==
  ASSUME IInv, CloudInStep, NEW r \in Requests, Operator(r) \/ RequestStops(r),
         NoSlip({"overlapped", "stopped"})'
  PROVE  /\ NoSlip({"overlapped", "stopped"}) /\ Operator(r)
         /\ \A q \in Requests \ {r} : request[q].pc \in {"new", "done"} /\ request'[q] = request[q]
  <1>1. [Next]_vars
    BY DEF Next
  <1>2. NoSlip({"overlapped", "stopped"})
    BY <1>1, SlipsStay DEF NoSlip
  <1>3. ~RequestStops(r)
    BY DEF RequestStops, Slip, NoSlip
  <1>4. \A q \in Requests \ {r} : q \notin AtWork
    <2>1. ASSUME NEW ask \in Asks, Ask(r, ask) PROVE AtWork = {}
      BY <2>1 DEF Ask, Slip, NoSlip
    <2>2. (\A ask \in Asks : ~Ask(r, ask)) => r \in AtWork
      BY <1>3 DEF Operator, ReadBoard, SendBoard, WriteBoard, Preview, Create, SendCommand, AtWork
    <2> QED BY <1>2, <2>1, <2>2 DEF CloudInStep
  <1>5. \A q \in Requests \ {r} : request'[q] = request[q]
    BY OthersKeep DEF IInv
  <1> QED BY <1>2, <1>3, <1>4, <1>5 DEF AtWork

\* While a request is at one of these its mode, or its power, is on the board and not sent.
Reads(r) == request[r].pc \in {"readBoard", "sendBoard"}
SetsPower(r) == request[r].pc \in {"create", "send"} /\ request[r].ask \in Powers

LEMMA CloudOperator ==
  ASSUME IInv, CloudInStep, SentInOrder, NEW r \in Requests, Operator(r) \/ RequestStops(r)
  PROVE  CloudInStep'
  <1>0. request \in [Requests -> RequestRows] /\ request[r] \in RequestRows /\ board \in Boards
    BY DEF IInv, TypeOK, RequestRows
  <1>1. [Next]_vars
    BY DEF Next
  <1>2. \A q \in Requests \ {r} : request'[q] = request[q]
    BY OthersKeep DEF IInv
  <1>3. request'[r].pc \in {"readLines", "sendLines", "readBoard", "sendBoard", "preview"}
        => request'[r].ask \notin Powers
    <2>1. ASSUME NEW ask \in Asks, Ask(r, ask), request'[r].pc \in {"readLines", "preview"}
          PROVE  request'[r].ask \notin Powers
      <3>1. request'[r].pc = FirstStep(ask) /\ request'[r].ask = ask
        BY <1>0, <2>1 DEF Ask, RequestRows
      <3> QED BY <2>1, <3>1 DEF FirstStep, Powers
    <2>2. ASSUME NEW ask \in Asks, Ask(r, ask)
          PROVE  request'[r].pc \in {"board", "readLines", "preview"}
      <3>1. request'[r].pc = FirstStep(ask)
        BY <1>0, <2>2 DEF Ask, RequestRows
      <3>2. ask \in Powers \cup {"AUTO"} \/ ask = "MANUAL" \/ ask = "PUBLISH"
        BY AsksAssumption DEF Modes
      <3> QED BY <3>1, <3>2 DEF FirstStep, Powers
    <2>3. CASE ReadBoard(r)
      BY <1>0, <2>3 DEF ReadBoard, RequestRows, CloudInStep
    <2>4. CASE SendBoard(r)
      BY <1>0, <2>4 DEF SendBoard, RequestRows, CloudInStep
    <2>5. CASE WriteBoard(r)
      BY <1>0, <2>5 DEF WriteBoard, RequestRows
    <2>6. CASE Preview(r)
      BY <1>0, <2>6 DEF Preview, RequestRows
    <2>7. CASE Create(r)
      BY <1>0, <2>7 DEF Create, RequestRows
    <2>8. CASE SendCommand(r) \/ RequestStops(r)
      BY <1>0, <2>8 DEF SendCommand, RequestStops, RequestRows
    <2> QED BY <2>1, <2>2, <2>3, <2>4, <2>5, <2>6, <2>7, <2>8 DEF Operator
  <1>4. \A q \in Requests :
          request'[q].pc \in {"readLines", "sendLines", "readBoard", "sendBoard", "preview"}
          => request'[q].ask \notin Powers
    BY <1>2, <1>3 DEF CloudInStep
  <1> SUFFICES ASSUME NoSlip({"overlapped", "stopped"})'
               PROVE  /\ \A p, q \in AtWork' : p = q
                      /\ (\A q \in Requests :
                            /\ request[q].pc \in {"sendLines", "sendBoard"} => request[q].seen = board
                            /\ request[q].pc \in {"create", "send"} /\ request[q].ask \in Powers =>
                                 board.power = request[q].ask
                            /\ request[q].pc = "send" =>
                                 command[request[q].cmd] = IF request[q].ask \in Powers
                                                           THEN request[q].ask ELSE request[q].text)'
                      /\ (\A q \in Requests : request'[q].pc \notin {"readBoard", "sendBoard"})
                         => (Leave(Len(messages), "mode", board.mode))'
                      /\ (\A q \in Requests : request'[q].pc \in {"create", "send"} => request'[q].ask \notin Powers)
                         => (Leave(Len(messages), "power", board.power))'
    BY <1>4 DEF CloudInStep
  <1>5. /\ NoSlip({"overlapped", "stopped"}) /\ Operator(r)
        /\ \A q \in Requests \ {r} : request[q].pc \in {"new", "done"} /\ request'[q] = request[q]
    BY OneRequest
  <1>6. \A p, q \in AtWork' : p = q
    BY <1>5 DEF AtWork
  <1>7. PICK m \in Nat : m = Len(messages)
    BY <1>1, RowsKeep
  <1>8. PICK pw, md : pw = board.power /\ md = board.mode
    OBVIOUS
  <1>9. ~Reads(r) => Leave(m, "mode", md)
    BY <1>5, <1>7, <1>8 DEF CloudInStep, Reads
  <1>10. ~SetsPower(r) => Leave(m, "power", pw)
    BY <1>5, <1>7, <1>8 DEF CloudInStep, SetsPower
  <1>11. \A s \in Settings : \A v : Leave(m, s, v) => Leave(m, s, v)'
    BY <1>1, <1>7, RowsKeep, LeaveStays
  \* What is left to show of each step.
  <1>12. ASSUME request'[r].pc \in {"sendLines", "sendBoard"} => request'[r].seen = board',
                SetsPower(r)' => board'.power = request'[r].ask,
                request'[r].pc = "send" =>
                  command'[request'[r].cmd] = IF request'[r].ask \in Powers
                                              THEN request'[r].ask ELSE request'[r].text,
                NEW l \in Nat, NEW p, NEW d, l = Len(messages)', p = board'.power, d = board'.mode,
                Reads(r)' \/ Leave(l, "mode", d)',
                SetsPower(r)' \/ Leave(l, "power", p)'
         PROVE  CloudInStep'
    <2>1. Reads(r)' \/ (Leave(Len(messages), "mode", board.mode))'
      BY <1>12, LeaveNext
    <2>2. SetsPower(r)' \/ (Leave(Len(messages), "power", board.power))'
      BY <1>12, LeaveNext
    <2> QED BY <1>4, <1>5, <1>6, <1>12, <2>1, <2>2 DEF CloudInStep, Reads, SetsPower
  <1> SUFFICES CloudInStep'
    BY DEF CloudInStep
  <1>13. ASSUME UNCHANGED <<board, messages>>,
                request'[r].pc \in {"sendLines", "sendBoard"} => request'[r].seen = board,
                SetsPower(r)' => board.power = request'[r].ask,
                request'[r].pc = "send" =>
                  command'[request'[r].cmd] = IF request'[r].ask \in Powers
                                              THEN request'[r].ask ELSE request'[r].text,
                Reads(r) => Reads(r)',
                SetsPower(r) => SetsPower(r)'
         PROVE  CloudInStep'
    <2>1. m = Len(messages)' /\ pw = board'.power /\ md = board'.mode
      BY <1>7, <1>8, <1>13
    <2>2. (Reads(r)' \/ Leave(m, "mode", md)') /\ (SetsPower(r)' \/ Leave(m, "power", pw)')
      BY <1>9, <1>10, <1>11, <1>13 DEF Settings
    <2> QED BY <1>12, <1>13, <2>1, <2>2
  <1>14. ASSUME NEW ask \in Asks, Ask(r, ask) PROVE CloudInStep'
    <2>1. request[r].pc = "new" /\ request'[r].pc = FirstStep(ask) /\ UNCHANGED <<board, messages>>
      BY <1>0, <1>14 DEF Ask, RequestRows, down
    <2>2. ask \in Powers \cup {"AUTO"} \/ ask = "MANUAL" \/ ask = "PUBLISH"
      BY AsksAssumption DEF Modes
    <2>3. request'[r].pc \in {"board", "readLines", "preview"}
      BY <2>1, <2>2 DEF FirstStep, Powers
    <2> QED BY <1>13, <2>1, <2>3 DEF Reads, SetsPower
  <1>15. CASE ReadBoard(r)
    <2>1. /\ request[r].pc \in {"readLines", "readBoard"} /\ UNCHANGED <<board, messages>>
          /\ request'[r].pc = IF request[r].pc = "readLines" THEN "sendLines" ELSE "sendBoard"
          /\ request'[r].seen = board
      BY <1>0, <1>15 DEF ReadBoard, RequestRows, down
    <2> QED BY <1>13, <2>1 DEF Reads, SetsPower
  <1>16. CASE SendBoard(r)
    <2>1. PICK row : row = [cmd |-> 0, board |-> request[r].seen]
      OBVIOUS
    <2>2. /\ request[r].pc \in {"sendLines", "sendBoard"} /\ UNCHANGED board /\ Send(row)
          /\ request'[r].pc = IF request[r].pc = "sendLines" THEN "board" ELSE "preview"
      BY <1>0, <1>16, <2>1 DEF SendBoard, RequestRows
    <2>3. PICK l \in Nat \ {0} : l = m + 1
      OBVIOUS
    <2>4. Len(messages)' = l /\ messages'[l] = row
      BY <1>7, <2>2, <2>3, Sending DEF IInv
    <2>5. row.cmd = 0 /\ row.board = board
      BY <1>5, <2>1, <2>2 DEF CloudInStep
    <2>6. \A s \in Settings : Sets(l, s)' /\ Value(l, s)' = board[s]
      BY <2>4, <2>5 DEF Sets, Value
    <2>7. Leave(l, "mode", md)' /\ Leave(l, "power", pw)'
      <3>1. Sets(l, "mode")' /\ Value(l, "mode")' = md /\ Sets(l, "power")' /\ Value(l, "power")' = pw
        BY <1>8, <2>6 DEF Settings
      <3> QED BY <3>1, LeaveAtRow
    <2>8. l = Len(messages)' /\ pw = board'.power /\ md = board'.mode
      BY <1>8, <2>2, <2>4
    <2>9. /\ request'[r].pc \notin {"sendLines", "sendBoard", "send"} /\ ~SetsPower(r)'
      BY <2>2 DEF SetsPower
    <2> QED BY <1>12, <2>7, <2>8, <2>9
  <1>17. CASE WriteBoard(r)
    <2>1. /\ request[r].pc = "board" /\ UNCHANGED messages
          /\ board' = SetOn(board, request[r].ask)
          /\ request'[r].pc = IF request[r].ask \in Powers THEN "create" ELSE "readBoard"
          /\ request'[r].ask = request[r].ask
      BY <1>0, <1>17 DEF WriteBoard, RequestRows, down
    <2>2. Leave(m, "mode", md)' /\ Leave(m, "power", pw)'
      BY <1>9, <1>10, <1>11, <2>1 DEF Reads, SetsPower, Settings
    <2>3. PICK p, d : p = board'.power /\ d = board'.mode
      OBVIOUS
    <2>4. m = Len(messages)'
      BY <1>7, <2>1
    <2>5. CASE request[r].ask \in Powers
      <3>1. board'.power = request[r].ask /\ board'.mode = board.mode
        BY <1>0, <2>1, <2>5 DEF SetOn, Boards
      <3>2. SetsPower(r)' /\ request'[r].pc = "create"
        BY <2>1, <2>5 DEF SetsPower
      <3>3. d = md
        BY <1>8, <2>3, <3>1
      <3> QED BY <1>12, <2>1, <2>2, <2>3, <2>4, <3>1, <3>2, <3>3
    <2>6. CASE request[r].ask \notin Powers
      <3>1. board'.power = board.power
        BY <1>0, <2>1, <2>6 DEF SetOn, Boards
      <3>2. Reads(r)' /\ ~SetsPower(r)' /\ request'[r].pc = "readBoard"
        BY <2>1, <2>6 DEF SetsPower, Reads
      <3>3. p = pw
        BY <1>8, <2>3, <3>1
      <3> QED BY <1>12, <2>2, <2>3, <2>4, <3>2, <3>3
    <2> QED BY <2>5, <2>6
  <1>18. CASE Preview(r)
    <2>1. /\ request[r].pc = "preview" /\ UNCHANGED <<board, messages>>
          /\ request'[r].pc = "create" /\ request'[r].ask = request[r].ask
      BY <1>0, <1>18 DEF Preview, RequestRows, down
    <2>2. request[r].ask \notin Powers
      BY <2>1 DEF CloudInStep
    <2> QED BY <1>13, <2>1, <2>2 DEF Reads, SetsPower
  <1>19. CASE Create(r)
    <2>0. PICK k : k = Made + 1
      OBVIOUS
    <2>1. /\ request[r].pc = "create" /\ UNCHANGED <<board, messages>> /\ k \in Commands
          /\ request'[r].pc = "send" /\ request'[r].ask = request[r].ask
          /\ request'[r].cmd = k /\ request'[r].text = request[r].text
      BY <1>0, <1>19, <2>0 DEF Create, RequestRows, down
    <2>2. command'[k] = IF request[r].ask \in Powers THEN request[r].ask ELSE request[r].text
      BY <1>19, <2>0, <2>1 DEF Create, IInv, TypeOK
    <2>3. (SetsPower(r)' <=> SetsPower(r)) /\ (SetsPower(r) => board.power = request[r].ask)
      BY <1>5, <2>1 DEF SetsPower, CloudInStep
    <2>4. ~Reads(r)
      BY <2>1 DEF Reads
    <2> QED BY <1>13, <2>1, <2>2, <2>3, <2>4
  <1>20. CASE SendCommand(r)
    <2>1. PICK row : row = [cmd |-> request[r].cmd, board |-> AtFirst]
      OBVIOUS
    <2>2. /\ request[r].pc = "send" /\ UNCHANGED <<board, command>> /\ Send(row)
          /\ request'[r].pc = "done"
      BY <1>0, <1>20, <2>1 DEF SendCommand, RequestRows
    <2>3. PICK l \in Nat \ {0} : l = m + 1
      OBVIOUS
    <2>4. Len(messages)' = l /\ messages'[l] = row
      BY <1>7, <2>2, <2>3, Sending DEF IInv
    <2>5. row.cmd = request[r].cmd /\ row.cmd # 0
      <3>1. request[r].cmd # 0
        BY <2>2 DEF IInv, NamesAreGood, IsMade, Commands
      <3> QED BY <2>1, <3>1
    <2>6. command[row.cmd] = IF request[r].ask \in Powers THEN request[r].ask ELSE request[r].text
      BY <1>5, <2>2, <2>5 DEF CloudInStep
    <2>7. request[r].text \in Modes /\ Powers \cap Modes = {}
      BY <1>0 DEF RequestRows, Powers, Modes
    <2>8. /\ ~Sets(l, "mode")' /\ (Sets(l, "power")' <=> request[r].ask \in Powers)
          /\ (request[r].ask \in Powers => Value(l, "power")' = request[r].ask)
      BY <2>2, <2>4, <2>5, <2>6, <2>7 DEF Sets, Value
    <2>9. Leave(l, "mode", md)'
      <3>1. Leave(m, "mode", md)'
        BY <1>9, <1>11, <2>2 DEF Reads, Settings
      <3> QED BY <2>3, <2>8, <3>1, LeavePast
    <2>10. Leave(l, "power", pw)'
      <3>1. CASE request[r].ask \in Powers
        <4>1. pw = request[r].ask
          BY <1>5, <1>8, <2>2, <3>1 DEF CloudInStep
        <4> QED BY <2>8, <3>1, <4>1, LeaveAtRow
      <3>2. CASE request[r].ask \notin Powers
        <4>1. Leave(m, "power", pw)'
          BY <1>10, <1>11, <3>2 DEF SetsPower, Settings
        <4> QED BY <2>3, <2>8, <3>2, <4>1, LeavePast
      <3> QED BY <3>1, <3>2
    <2>11. l = Len(messages)' /\ pw = board'.power /\ md = board'.mode
      BY <1>8, <2>2, <2>4
    <2>12. request'[r].pc \notin {"sendLines", "sendBoard", "send"} /\ ~SetsPower(r)'
      BY <2>2 DEF SetsPower
    <2> QED BY <1>12, <2>9, <2>10, <2>11, <2>12
  <1> QED BY <1>5, <1>14, <1>15, <1>16, <1>17, <1>18, <1>19, <1>20 DEF Operator

LEMMA NextCloudInStep ==
  ASSUME IInv, BoardInv, [Next]_vars
  PROVE  CloudInStep'
  <1>1. CASE \E r \in Requests : Operator(r) \/ RequestStops(r)
    BY <1>1, CloudOperator DEF BoardInv
  <1>2. ASSUME UNCHANGED <<request, command, board, messages>> PROVE CloudInStep'
    <2>1. NoSlip({"overlapped", "stopped"})' => NoSlip({"overlapped", "stopped"})
      BY SlipsStay DEF NoSlip
    <2>2. AtWork' = AtWork
      BY <1>2 DEF AtWork
    <2>3. PICK m, pw, md : m \in Nat /\ m = Len(messages) /\ pw = board.power /\ md = board.mode
      BY RowsKeep
    <2>4. m = Len(messages)' /\ pw = board'.power /\ md = board'.mode
      BY <1>2, <2>3
    <2>5. \A s \in Settings : \A v : Leave(m, s, v) => Leave(m, s, v)'
      BY <2>3, RowsKeep, LeaveStays
    <2>6. Leave(Len(messages), "mode", board.mode) => (Leave(Len(messages), "mode", board.mode))'
      BY <2>3, <2>4, <2>5, LeaveNext DEF Settings
    <2>7. Leave(Len(messages), "power", board.power) => (Leave(Len(messages), "power", board.power))'
      BY <2>3, <2>4, <2>5, LeaveNext DEF Settings
    <2> QED BY <1>2, <2>1, <2>2, <2>6, <2>7 DEF BoardInv, CloudInStep
  <1> QED BY <1>1, <1>2, WhoSteps

\* Both boards are what the rows that were sent, or applied, leave them at.
THEOREM SpecBoardInv == Spec => []BoardInv
  <1>1. Init => BoardInv
    <2> SUFFICES ASSUME Init PROVE BoardInv
      OBVIOUS
    <2>1. DOMAIN messages = {} /\ Len(messages) = 0
      BY DEF Init
    <2>2. \A c \in Commands : ~IsKnown(c)
      BY DEF Init, IsKnown
    <2>3. SentInOrder
      BY <2>1 DEF Init, SentInOrder
    <2>4. AppliedUpToNewest
      BY <2>1, <2>2 DEF Init, AppliedUpToNewest
    <2>5. \A s, v : v = AtFirst[s] => Leave(0, s, v)
      BY DEF Leave
    <2>6. EdgeInStep
      BY <2>5 DEF Init, EdgeInStep
    <2>7. CloudInStep
      <3>1. \A r \in Requests : request[r].pc = "new"
        BY DEF Init
      <3>2. AtWork = {}
        BY <3>1 DEF AtWork
      <3>3. Leave(Len(messages), "mode", board.mode) /\ Leave(Len(messages), "power", board.power)
        BY <2>1, <2>5 DEF Init
      <3> QED BY <3>1, <3>2, <3>3 DEF CloudInStep
    <2> QED BY <2>3, <2>4, <2>6, <2>7 DEF BoardInv
  <1>2. IInv /\ BoardInv /\ [Next]_vars => BoardInv'
    BY NextSentInOrder, NextAppliedUpToNewest, NextEdgeInStep, NextCloudInStep DEF BoardInv
  <1> QED BY <1>1, <1>2, SpecIInv, PTL DEF Spec

\* With requests one at a time and rows in their order, cloud and edge end up with the same
\* settings of the board (enqueueDisplayConfigurationForEdge and the edge's two handlers).
THEOREM SpecBoardsAgree == Spec => []BoardsAgree
  <1>1. ASSUME IInv, BoardInv PROVE BoardsAgree
    <2> SUFFICES ASSUME CloudQuiet, NoSlip({"overlapped", "stopped", "late"}) PROVE edgeBoard = board
      BY DEF BoardsAgree
    <2>1. NoSlip({"overlapped", "stopped"}) /\ NoSlip({"late"})
      BY DEF NoSlip
    <2>2. Len(messages) \in Nat /\ DOMAIN messages = 1 .. Len(messages)
      <3>1. messages \in Seq(MessageRows)
        BY <1>1 DEF IInv, TypeOK, MessageRows
      <3> QED BY <3>1
    <2>3. newest = Len(messages)
      <3>1. newest \in Nat /\ newest <= Len(messages)
        BY <1>1, <2>2 DEF BoardInv, AppliedUpToNewest
      <3>2. ASSUME newest < Len(messages) PROVE FALSE
        <4>1. PICK l \in DOMAIN messages : l > newest
          BY <2>2, <3>1, <3>2
        <4>2. l \in waiting /\ ~Refused(messages[l])
          BY <1>1, <4>1 DEF BoardInv, AppliedUpToNewest
        <4> QED BY <4>2 DEF CloudQuiet
      <3>3. Len(messages) \in Nat /\ ~ (newest < Len(messages))
        BY <2>2, <3>2
      <3> QED BY <3>1, <3>3
    <2>4. ~PassedBy
      BY DEF PassedBy, CloudQuiet
    <2>5. \A s \in Settings : Leave(Len(messages), s, edgeBoard[s])
      BY <1>1, <2>1, <2>3, <2>4 DEF BoardInv, EdgeInStep, Settings
    <2>6. \A r \in Requests : request[r].pc \in {"new", "done"}
      BY DEF CloudQuiet, AtWork
    <2>7. Leave(Len(messages), "mode", board.mode) /\ Leave(Len(messages), "power", board.power)
      BY <1>1, <2>1, <2>6 DEF BoardInv, CloudInStep
    <2>8. \A s \in Settings : edgeBoard[s] = board[s]
      BY <2>2, <2>5, <2>7, LeaveIsOne DEF Settings
    <2> QED BY <1>1, <2>8, SameBoard DEF IInv, TypeOK
  <1> QED BY <1>1, SpecIInv, SpecBoardInv, PTL

---------------------------------------------------------------------------
(* What the edge tells the cloud.                                          *)

\* A row that is put into the edge's outbox, and the ones that are in it.
LEMMA TellingRow ==
  ASSUME IInv, NEW i \in Posts, WriteResult(i)
  PROVE  \E l \in Nat \ {0} :
           /\ Len(results') = l /\ results' # <<>> /\ DOMAIN results' = DOMAIN results \cup {l}
           /\ results'[l].cmd = post[i].cmd /\ results'[l].status = post[i].status
           /\ \A k \in DOMAIN results : results'[k] = results[k] /\ k \in Nat /\ k < l
           /\ unsent' = unsent \cup {l}
  <1>1. PICK row : row = [cmd |-> post[i].cmd, status |-> post[i].status]
    OBVIOUS
  <1>2. row.cmd = post[i].cmd /\ row.status = post[i].status
    BY <1>1
  <1>3. results \in Seq(ResultRows) /\ Len(results) \in Nat
    BY DEF IInv, TypeOK, ResultRows
  <1>4. PICK l \in Nat \ {0} : l = Len(results) + 1
    BY <1>3
  <1>5. results' = Append(results, row) /\ unsent' = unsent \cup {l}
    BY <1>1, <1>4 DEF WriteResult
  <1>6. Len(results') = l /\ results' # <<>> /\ DOMAIN results' = DOMAIN results \cup {l} /\ results'[l] = row
    BY <1>3, <1>4, <1>5
  <1>7. \A k \in DOMAIN results : results'[k] = results[k] /\ k \in Nat /\ k < l
    BY <1>3, <1>4, <1>5
  <1> QED BY <1>2, <1>5, <1>6, <1>7

LEMMA ResultTypes ==
  ASSUME IInv
  PROVE  /\ results \in Seq(ResultRows) /\ Len(results) \in Nat /\ DOMAIN results = 1 .. Len(results)
         /\ \A k \in DOMAIN results :
              results[k].cmd \in Commands /\ results[k].status \in {"ACKED", "FAILED"} /\ k \in Nat
  <1>1. results \in Seq(ResultRows)
    BY DEF IInv, TypeOK, ResultRows
  <1>2. \A k \in DOMAIN results : results[k] \in ResultRows /\ k \in Nat
    BY <1>1, ElementOfSeq
  <1> QED BY <1>1, <1>2 DEF ResultRows

\* A report on which nothing is left is alone.
LEMMA Alone ==
  ASSUME IInv, [Next]_vars, NEW i \in Posts, post[i].pc # "free", NoSlip({"left", "halfway"})'
  PROVE  /\ NoSlip({"left", "halfway"}) /\ \A j \in Posts \ {i} : post[j].pc = "free"
         /\ post[i].pc = "status" => edgeStatus[post[i].cmd] = "PENDING"
  <1>1. NoSlip({"left", "halfway"}) /\ NoSlip({"left"})
    BY SlipsStay DEF NoSlip
  <1> QED BY <1>1 DEF IInv, OneReport, Pending

\* A step that leaves what is told, and what was written of a report, alone.
LEMMA ToldBefore ==
  ASSUME IInv, EdgeTells, [Next]_vars, UNCHANGED <<results, edgeNote>>,
         \A c \in Commands : IsKnown(c) => edgeStatus'[c] = edgeStatus[c],
         \A c \in Commands : edgeStatus'[c] \in {"ACKED", "FAILED"} => edgeStatus'[c] = edgeStatus[c],
         NoSlip({"left", "halfway"})' => \A i \in Posts :
           /\ post'[i].pc \in {"note", "result"} <=> post[i].pc \in {"note", "result"}
           /\ post[i].pc \in {"note", "result"} => post'[i] = post[i]
  PROVE  EdgeTells'
  <1>1. (\A k \in DOMAIN results : IsKnown(results[k].cmd))'
    BY DEF EdgeTells, IsKnown
  <1> SUFFICES ASSUME NoSlip({"left", "halfway"})' PROVE EdgeTells'
    BY <1>1 DEF EdgeTells
  <1>2. NoSlip({"left", "halfway"})
    BY SlipsStay DEF NoSlip
  <1>3. \A i \in Posts : post[i].pc \in {"note", "result"} => IsKnown(post[i].cmd) /\ post[i].cmd \in Commands
    BY DEF IInv, NamesAreGood, IsKnown
  <1>4. \A i \in Posts : post'[i].pc = "result" <=> post[i].pc = "result"
    OBVIOUS
  <1>5. (\A i \in Posts : post[i].pc \in {"note", "result"} => edgeStatus[post[i].cmd] = post[i].status)'
    BY <1>2, <1>3 DEF EdgeTells
  <1>6. (\A i \in Posts : post[i].pc = "result" =>
           /\ edgeNote.last = LastOf(post[i].status)
           /\ post[i].status = "ACKED" => edgeNote.sent = post[i].cmd)'
    BY <1>2, <1>4 DEF EdgeTells, LastOf
  <1>7. (\A c \in Commands : edgeStatus[c] \in {"ACKED", "FAILED"} =>
           \/ \E i \in Posts : post[i].pc \in {"note", "result"} /\ post[i].cmd = c
           \/ \E k \in DOMAIN results : LastAbout(k, c) /\ results[k].status = edgeStatus[c])'
    <2> SUFFICES ASSUME NEW c \in Commands, edgeStatus'[c] \in {"ACKED", "FAILED"}
                 PROVE  \/ \E i \in Posts : post'[i].pc \in {"note", "result"} /\ post'[i].cmd = c
                        \/ \E k \in DOMAIN results : LastAbout(k, c)' /\ results[k].status = edgeStatus'[c]
      OBVIOUS
    <2>1. edgeStatus'[c] = edgeStatus[c]
      OBVIOUS
    <2>2. CASE \E i \in Posts : post[i].pc \in {"note", "result"} /\ post[i].cmd = c
      BY <2>2
    <2>3. CASE \E k \in DOMAIN results : LastAbout(k, c) /\ results[k].status = edgeStatus[c]
      BY <2>1, <2>3 DEF LastAbout
    <2> QED BY <1>2, <2>1, <2>2, <2>3 DEF EdgeTells
  <1>8. (\A i \in Posts : post'[i].pc # "result") => LastFollows(edgeNote, DOMAIN results)'
    BY <1>2, <1>4 DEF EdgeTells, LastFollows, LastOf
  <1>9. (\A i \in Posts : post'[i].pc = "result" => post'[i].status = "FAILED")
        => SentFollows(edgeNote, DOMAIN results)'
    BY <1>2, <1>4 DEF EdgeTells, SentFollows, LastAcked
  <1> QED BY <1>1, <1>5, <1>6, <1>7, <1>8, <1>9 DEF EdgeTells

LEMMA EdgeTellsReport ==
  ASSUME IInv, EdgeTells, NEW i \in Posts,
         WriteStatus(i) \/ WriteNote(i) \/ WriteResult(i) \/ ReportStops(i)
  PROVE  EdgeTells'
  <1>0. /\ [Next]_vars /\ post \in [Posts -> PostRows]
        /\ post[i].pc # "free" /\ post[i].cmd \in Commands /\ IsKnown(post[i].cmd)
        /\ post[i].status \in {"ACKED", "FAILED"}
    BY DEF Next, Reporting, IInv, TypeOK, PostRows, NamesAreGood, IsKnown, WriteStatus, WriteNote,
       WriteResult, ReportStops
  <1>1. \A j \in Posts \ {i} : post'[j] = post[j]
    BY <1>0 DEF WriteStatus, WriteNote, WriteResult, ReportStops
  <1>2. CASE ReportStops(i)
    <2>1. UNCHANGED <<results, edgeNote, edgeStatus>> /\ post'[i] = NoPost
      BY <1>0, <1>2 DEF ReportStops, edge, up
    <2>2. NoSlip({"left", "halfway"})' => post[i].pc = "status"
      BY <1>2 DEF ReportStops, Slip, NoSlip
    <2> QED BY <1>0, <1>1, <2>1, <2>2, ToldBefore DEF NoPost
  <1>3. (\A k \in DOMAIN results : IsKnown(results[k].cmd))'
    <2>1. \A c \in Commands : IsKnown(c) => IsKnown(c)'
      <3>1. CASE UNCHANGED edgeStatus
        BY <3>1 DEF IsKnown
      <3>2. CASE WriteStatus(i)
        <4>1. edgeStatus' = [edgeStatus EXCEPT ![post[i].cmd] = post[i].status]
          BY <3>2 DEF WriteStatus
        <4> QED BY <1>0, <4>1 DEF IsKnown, IInv, TypeOK
      <3> QED BY <3>1, <3>2 DEF WriteNote, WriteResult, ReportStops, edge
    <2>2. CASE UNCHANGED results
      BY <2>1, <2>2 DEF EdgeTells, IsKnown
    <2>3. CASE WriteResult(i)
      <3>1. \A k \in DOMAIN results' : results'[k].cmd = post[i].cmd \/ \E j \in DOMAIN results : results'[k] = results[j]
        BY <2>3, TellingRow
      <3> QED BY <1>0, <2>1, <3>1 DEF EdgeTells, IsKnown
    <2> QED BY <2>2, <2>3 DEF WriteStatus, WriteNote, ReportStops, up
  <1> SUFFICES ASSUME NoSlip({"left", "halfway"})', ~ReportStops(i) PROVE EdgeTells'
    BY <1>2, <1>3 DEF EdgeTells
  <1>4. /\ NoSlip({"left", "halfway"}) /\ \A j \in Posts \ {i} : post[j].pc = "free"
        /\ post[i].pc = "status" => edgeStatus[post[i].cmd] = "PENDING"
    BY <1>0, Alone
  <1>5. \A j \in Posts \ {i} : post'[j].pc = "free"
    BY <1>1, <1>4
  <1>6. CASE WriteStatus(i)
    <2>1. /\ post[i].pc = "status" /\ post'[i].pc = "note" /\ post'[i].cmd = post[i].cmd
          /\ post'[i].status = post[i].status /\ UNCHANGED <<edgeNote, results>>
      BY <1>0, <1>6 DEF WriteStatus, PostRows, up
    <2>2. \A c \in Commands : edgeStatus'[c] = IF c = post[i].cmd THEN post[i].status ELSE edgeStatus[c]
      BY <1>0, <1>6 DEF WriteStatus, IInv, TypeOK
    <2>3. (\A c \in Commands : edgeStatus[c] \in {"ACKED", "FAILED"} =>
             \/ \E j \in Posts : post[j].pc \in {"note", "result"} /\ post[j].cmd = c
             \/ \E k \in DOMAIN results : LastAbout(k, c) /\ results[k].status = edgeStatus[c])'
      <3> SUFFICES ASSUME NEW c \in Commands, c # post[i].cmd, edgeStatus[c] \in {"ACKED", "FAILED"}
                   PROVE  \E k \in DOMAIN results : LastAbout(k, c)' /\ results[k].status = edgeStatus[c]
        BY <2>1, <2>2
      <3>1. \E k \in DOMAIN results : LastAbout(k, c) /\ results[k].status = edgeStatus[c]
        BY <1>4, <2>1 DEF EdgeTells
      <3> QED BY <2>1, <3>1 DEF LastAbout
    <2>4. (\A j \in Posts : post[j].pc \in {"note", "result"} => edgeStatus[post[j].cmd] = post[j].status)'
      BY <1>0, <1>5, <2>1, <2>2
    <2>5. \A j \in Posts : post[j].pc # "result" /\ post'[j].pc # "result"
      BY <1>4, <1>5, <2>1
    <2>6. LastFollows(edgeNote, DOMAIN results)'
      BY <1>4, <2>1, <2>5 DEF EdgeTells, LastFollows, LastOf
    <2>7. SentFollows(edgeNote, DOMAIN results)'
      BY <1>4, <2>1, <2>5 DEF EdgeTells, SentFollows, LastAcked
    <2> QED BY <1>3, <2>3, <2>4, <2>5, <2>6, <2>7 DEF EdgeTells
  <1>7. CASE WriteNote(i)
    <2>1. /\ post[i].pc = "note" /\ post'[i].pc = "result" /\ post'[i].cmd = post[i].cmd
          /\ post'[i].status = post[i].status /\ UNCHANGED <<edgeStatus, results>>
          /\ edgeNote' = Noted(edgeNote, post[i].cmd, post[i].status)
      BY <1>0, <1>7 DEF WriteNote, PostRows, up
    <2>2. /\ edgeNote'.last = LastOf(post[i].status)
          /\ edgeNote'.sent = IF post[i].status = "ACKED" THEN post[i].cmd ELSE edgeNote.sent
      BY <1>0, <2>1 DEF Noted, LastOf, IInv, TypeOK, Notes
    <2>3. (\A c \in Commands : edgeStatus[c] \in {"ACKED", "FAILED"} =>
             \/ \E j \in Posts : post[j].pc \in {"note", "result"} /\ post[j].cmd = c
             \/ \E k \in DOMAIN results : LastAbout(k, c) /\ results[k].status = edgeStatus[c])'
      <3> SUFFICES ASSUME NEW c \in Commands, c # post[i].cmd, edgeStatus[c] \in {"ACKED", "FAILED"}
                   PROVE  \E k \in DOMAIN results : LastAbout(k, c)' /\ results[k].status = edgeStatus[c]
        BY <2>1
      <3>1. \E k \in DOMAIN results : LastAbout(k, c) /\ results[k].status = edgeStatus[c]
        BY <1>4 DEF EdgeTells
      <3> QED BY <2>1, <3>1 DEF LastAbout
    <2>4. (\A j \in Posts : post[j].pc \in {"note", "result"} => edgeStatus[post[j].cmd] = post[j].status)'
      BY <1>4, <1>5, <2>1 DEF EdgeTells
    <2>5. (\A j \in Posts : post[j].pc = "result" =>
             /\ edgeNote.last = LastOf(post[j].status)
             /\ post[j].status = "ACKED" => edgeNote.sent = post[j].cmd)'
      <3>1. LastOf(post[i].status)' = LastOf(post[i].status)
        BY <2>1 DEF LastOf
      <3>2. edgeNote'.last = LastOf(post[i].status)' /\ (post'[i].status = "ACKED" => edgeNote'.sent = post'[i].cmd)
        BY <2>1, <2>2, <3>1
      <3> QED BY <1>5, <3>2 DEF LastOf
    <2>6. post'[i].pc = "result"
      BY <2>1
    <2>7. post[i].status = "FAILED" => SentFollows(edgeNote, DOMAIN results)'
      <3>1. SentFollows(edgeNote, DOMAIN results)
        BY <1>4, <2>1 DEF EdgeTells
      <3> QED BY <2>1, <2>2, <3>1 DEF SentFollows, LastAcked
    <2> QED BY <1>3, <2>1, <2>3, <2>4, <2>5, <2>6, <2>7 DEF EdgeTells
  <1>8. CASE WriteResult(i)
    <2>1. post[i].pc = "result" /\ post'[i] = NoPost /\ UNCHANGED <<edgeStatus, edgeNote>>
      BY <1>0, <1>8 DEF WriteResult, edge
    <2>2. \A j \in Posts : post'[j].pc = "free"
      BY <1>5, <2>1 DEF NoPost
    <2>4. PICK l \in Nat \ {0} :
            /\ Len(results') = l /\ results' # <<>> /\ DOMAIN results' = DOMAIN results \cup {l}
            /\ results'[l].cmd = post[i].cmd /\ results'[l].status = post[i].status
            /\ \A k \in DOMAIN results : results'[k] = results[k] /\ k \in Nat /\ k < l
      BY <1>8, TellingRow
    <2>5. edgeStatus[post[i].cmd] = post[i].status /\ edgeNote.last = LastOf(post[i].status)
          /\ (post[i].status = "ACKED" => edgeNote.sent = post[i].cmd)
      BY <1>4, <2>1 DEF EdgeTells
    <2>6. ASSUME NEW c \in Commands, edgeStatus[c] \in {"ACKED", "FAILED"}
          PROVE  \E k \in DOMAIN results' : LastAbout(k, c)' /\ results'[k].status = edgeStatus[c]
      <3>1. CASE c = post[i].cmd
        <4>1. LastAbout(l, c)'
          BY <2>4, <3>1 DEF LastAbout
        <4> QED BY <2>4, <2>5, <3>1, <4>1
      <3>2. CASE c # post[i].cmd
        <4>1. PICK k \in DOMAIN results : LastAbout(k, c) /\ results[k].status = edgeStatus[c]
          BY <1>4, <2>6, <3>2 DEF EdgeTells
        <4>2. LastAbout(k, c)'
          BY <2>4, <3>2, <4>1 DEF LastAbout
        <4> QED BY <2>4, <4>1, <4>2
      <3> QED BY <3>1, <3>2
    <2>7. LastFollows(edgeNote, DOMAIN results)'
      BY <2>1, <2>4, <2>5 DEF LastFollows, LastOf
    <2>8. SentFollows(edgeNote, DOMAIN results)'
      <3>1. \A k \in DOMAIN results : LastAcked(k)' => LastAcked(k)
        BY <2>4 DEF LastAcked
      <3>2. LastAcked(l)' => post[i].status = "ACKED"
        BY <2>4 DEF LastAcked
      <3>3. \A k \in DOMAIN results : LastAcked(k)' => post[i].status = "FAILED"
        BY <2>4 DEF LastAcked
      <3>4. CASE post[i].status = "ACKED"
        <4>1. \A k \in DOMAIN results : ~LastAcked(k)'
          BY <3>3, <3>4
        <4>2. results'[l].status # "FAILED"
          BY <2>4, <3>4
        <4> QED BY <2>1, <2>4, <2>5, <3>4, <4>1, <4>2 DEF SentFollows
      <3>5. CASE post[i].status = "FAILED"
        <4>1. SentFollows(edgeNote, DOMAIN results)
          BY <1>4, <3>5 DEF EdgeTells
        <4>2. ~LastAcked(l)'
          BY <3>2, <3>5
        <4> QED BY <2>1, <2>4, <3>1, <4>1, <4>2 DEF SentFollows
      <3> QED BY <1>0, <3>4, <3>5
    <2> QED BY <1>3, <2>1, <2>2, <2>6, <2>7, <2>8 DEF EdgeTells
  <1> QED BY <1>6, <1>7, <1>8

LEMMA NextEdgeTells ==
  ASSUME IInv, EdgeTells, [Next]_vars
  PROVE  EdgeTells'
  <1>1. ASSUME NEW r \in Requests, Operator(r) \/ RequestStops(r) PROVE EdgeTells'
    <2>1. UNCHANGED <<results, edgeNote, edgeStatus, post>>
      BY <1>1, OperatorFrame DEF edge, up
    <2> QED BY <2>1, ToldBefore
  <1>2. ASSUME StartRun \/ Fetch \/ Execute \/ Answered \/ DaemonRestarts \/ Telling \/ UNCHANGED vars
        PROVE  EdgeTells'
    <2>1. UNCHANGED <<results, edgeNote, edgeStatus, post>>
      BY <1>2 DEF StartRun, Fetch, Execute, Answered, DaemonRestarts, Telling, TakeResult, edge, up, vars
    <2> QED BY <2>1, ToldBefore
  <1>3. ASSUME Report PROVE EdgeTells'
    <2>1. UNCHANGED <<results, edgeNote, edgeStatus>>
      BY <1>3 DEF Report, edge, up
    <2>2. post \in [Posts -> PostRows]
      BY DEF IInv, TypeOK, PostRows
    <2>3. UNCHANGED post \/ \E i \in Posts :
            /\ post[i].pc = "free"
            /\ post' = [post EXCEPT ![i] = [pc |-> "status", cmd |-> daemon.cmd, status |-> daemon.took]]
      BY <1>3 DEF Report
    <2>4. \A i \in Posts : post'[i] = post[i] \/ (post[i].pc = "free" /\ post'[i].pc = "status")
      BY <2>2, <2>3
    <2> QED BY <2>1, <2>4, ToldBefore
  <1>4. ASSUME Apply PROVE EdgeTells'
    <2>1. UNCHANGED <<results, edgeNote, post>>
      BY <1>4 DEF Apply, up
    <2>2. PICK n \in todo :
            \/ /\ ~Refused(messages[n])
               /\ \A c \in Commands :
                    edgeStatus'[c] = IF c = messages[n].cmd THEN "PENDING" ELSE edgeStatus[c]
            \/ UNCHANGED edgeStatus
      BY <1>4, Applying DEF IInv
    <2>3. \A c \in Commands : IsKnown(c) => edgeStatus'[c] = edgeStatus[c]
      BY <2>2 DEF Refused, IsKnown, Commands
    <2>4. \A c \in Commands : edgeStatus'[c] \in {"ACKED", "FAILED"} => edgeStatus'[c] = edgeStatus[c]
      BY <2>2
    <2> QED BY <2>1, <2>3, <2>4, ToldBefore
  <1> QED BY <1>1, <1>2, <1>3, <1>4, EdgeTellsReport DEF Next, Puller, Daemon, Reporting

\* The last row of each command stays the last while there is no new one.
LEMMA CloudFollowsTaking ==
  ASSUME IInv, CloudFollows, NEW k \in unsent, TakeResult(k)
  PROVE  CloudFollows'
  <1>0. [Next]_vars /\ UNCHANGED results /\ k \in DOMAIN results /\ unsent \subseteq DOMAIN results
    BY DEF Next, Telling, TakeResult, IInv, RowsAreThere
  <1> SUFFICES ASSUME NoSlip({"overtaken"})' PROVE CloudFollows'
    BY DEF CloudFollows
  <1>1. NoSlip({"overtaken"})
    BY <1>0, SlipsStay DEF NoSlip
  <1> DEFINE c == results[k].cmd
             s == results[k].status
  <1>2. c \in Commands /\ s \in {"ACKED", "FAILED"} /\ Len(results) \in Nat
        /\ DOMAIN results = 1 .. Len(results) /\ \A j \in DOMAIN results : j \in Nat
    BY <1>0, ResultTypes
  <1>3. \A j \in DOMAIN results, d \in Commands : (LastAbout(j, d)' <=> LastAbout(j, d))
    BY <1>0 DEF LastAbout
  <1>4. \A j \in DOMAIN results : LastAcked(j)' <=> LastAcked(j)
    BY <1>0 DEF LastAcked
  <1>5. CASE UNCHANGED <<status, note, unsent>>
    <2>1. SentFollows(note, DOMAIN results \ unsent)' /\ LastFollows(note, DOMAIN results \ unsent)'
      BY <1>0, <1>1, <1>4, <1>5 DEF CloudFollows, SentFollows, LastFollows, LastOf
    <2> QED BY <1>0, <1>1, <1>2, <1>3, <1>5, <2>1 DEF CloudFollows, LastAbout
  <1>6. CASE /\ status' = [status EXCEPT ![c] = s] /\ \A j \in unsent : ~ (j < k)
             /\ note' \in {note, Noted(note, c, s)}
             /\ unsent' = unsent \/ (unsent' = unsent \ {k} /\ note' = Noted(note, c, s))
    <2>1. \A j \in unsent : j \in Nat /\ j >= k
      BY <1>0, <1>2, <1>6
    <2>2. \A j \in DOMAIN results \ unsent : j < k
      <3>1. \A j \in DOMAIN results : k < j => j \in unsent
        BY <1>1 DEF CloudFollows
      <3> QED BY <1>0, <1>2, <3>1
    <2>3. \A j \in DOMAIN results \ unsent' : j \in DOMAIN results \ unsent \/ (j = k /\ unsent' # unsent)
      BY <1>6
    <2>4. \A j \in unsent', l \in DOMAIN results : j < l => l \in unsent'
      <3>1. \A j \in unsent', l \in DOMAIN results : j < l => l \in unsent /\ l # k
        BY <1>0, <1>1, <1>2, <1>6, <2>1 DEF CloudFollows
      <3> QED BY <1>6, <3>1
    <2>5. \A d \in Commands : status'[d] = IF d = c THEN s ELSE status[d]
      BY <1>2, <1>6 DEF IInv, TypeOK
    <2>6. ASSUME NEW j \in DOMAIN results \ unsent', LastAbout(j, results[j].cmd)
          PROVE  status'[results[j].cmd] = results[j].status
      <3>1. CASE j = k
        BY <1>2, <2>5, <3>1
      <3>2. CASE j # k
        <4>1. j \in DOMAIN results \ unsent /\ j < k
          BY <2>2, <2>3, <3>2
        <4>2. results[j].cmd # c
          BY <1>0, <2>6, <4>1 DEF LastAbout
        <4>3. results[j].cmd \in Commands
          BY ResultTypes
        <4> QED BY <1>1, <2>5, <2>6, <4>1, <4>2, <4>3 DEF CloudFollows
      <3> QED BY <3>1, <3>2
    <2>7. Noted(note, c, s).last = LastOf(s)
          /\ Noted(note, c, s).sent = IF s = "ACKED" THEN c ELSE note.sent
      BY <1>2 DEF Noted, LastOf, IInv, TypeOK, Notes
    <2>8. LastFollows(note, DOMAIN results \ unsent)'
      <3>1. results # <<>>
        BY <1>0
      <3>2. ASSUME Len(results) \in DOMAIN results \ unsent'
            PROVE  note'.last = LastOf(results[Len(results)].status)
        <4>1. ~ (Len(results) < k)
          BY <1>0, <1>2
        <4>2. Len(results) = k /\ unsent' # unsent
          BY <2>2, <2>3, <3>2, <4>1
        <4> QED BY <1>6, <2>7, <4>2
      <3> QED BY <1>0, <3>1, <3>2 DEF LastFollows, LastOf
    <2>9. SentFollows(note, DOMAIN results \ unsent)'
      <3>1. s = "FAILED" \/ note' = note => note'.sent = note.sent
        BY <1>6, <2>7
      <3>2. (\A j \in DOMAIN results : results[j].status = "FAILED") => note'.sent = 0
        BY <1>0, <1>1, <3>1 DEF CloudFollows, SentFollows
      <3>3. ASSUME NEW j \in DOMAIN results \ unsent', LastAcked(j) PROVE note'.sent = results[j].cmd
        <4>1. CASE j = k /\ unsent' # unsent
          <5>1. s = "ACKED"
            BY <3>3, <4>1 DEF LastAcked
          <5> QED BY <1>6, <2>7, <4>1, <5>1
        <4>2. CASE j \in DOMAIN results \ unsent
          <5>1. s = "FAILED"
            BY <1>0, <2>2, <3>3, <4>2 DEF LastAcked
          <5> QED BY <1>1, <3>1, <3>3, <4>2, <5>1 DEF CloudFollows, SentFollows
        <4> QED BY <2>3, <4>1, <4>2
      <3> QED BY <1>0, <1>4, <3>2, <3>3 DEF SentFollows
    <2>10. \A j \in DOMAIN results \ unsent' : LastAbout(j, results[j].cmd)' => LastAbout(j, results[j].cmd)
      BY <1>0 DEF LastAbout
    <2> QED BY <1>0, <2>4, <2>6, <2>8, <2>9, <2>10 DEF CloudFollows, LastAbout
  <1>7. \/ UNCHANGED <<status, note, unsent>>
        \/ /\ status' = [status EXCEPT ![c] = s] /\ \A j \in unsent : ~ (j < k)
           /\ note' \in {note, Noted(note, c, s)}
           /\ unsent' = unsent \/ (unsent' = unsent \ {k} /\ note' = Noted(note, c, s))
    BY DEF TakeResult, Slip, NoSlip
  <1> QED BY <1>5, <1>6, <1>7

LEMMA NextCloudFollows ==
  ASSUME IInv, EdgeTells, CloudFollows, [Next]_vars
  PROVE  CloudFollows'
  <1>0. NoSlip({"overtaken"})' => NoSlip({"overtaken"})
    BY SlipsStay DEF NoSlip
  <1>1. ASSUME UNCHANGED <<note, results, unsent>>,
               \A k \in DOMAIN results : status'[results[k].cmd] = status[results[k].cmd]
        PROVE  CloudFollows'
    <2>1. \A k \in DOMAIN results : LastAbout(k, results[k].cmd)' => LastAbout(k, results[k].cmd)
      BY <1>1 DEF LastAbout
    <2>2. SentFollows(note, DOMAIN results \ unsent) => SentFollows(note, DOMAIN results \ unsent)'
      BY <1>1 DEF SentFollows, LastAcked
    <2>3. LastFollows(note, DOMAIN results \ unsent) => LastFollows(note, DOMAIN results \ unsent)'
      BY <1>1 DEF LastFollows, LastOf
    <2> QED BY <1>0, <1>1, <2>1, <2>2, <2>3 DEF CloudFollows, LastAbout
  <1>2. ASSUME NEW r \in Requests, Operator(r) \/ RequestStops(r) PROVE CloudFollows'
    <2>1. UNCHANGED <<note, results, unsent>>
      BY <1>2, OperatorFrame DEF up, Operator, RequestStops, Ask, ReadBoard, SendBoard, WriteBoard,
         Preview, Create, SendCommand
    <2>2. CASE UNCHANGED status
      BY <1>1, <2>1, <2>2
    <2>3. CASE Create(r)
      <3>1. PICK n : n = Made + 1
        OBVIOUS
      <3>2. \A c \in Commands \ {n} : status'[c] = status[c]
        BY <2>3, <3>1 DEF Create, IInv, TypeOK
      <3>3. \A k \in DOMAIN results : results[k].cmd \in Commands /\ IsMade(results[k].cmd)
        BY ResultTypes DEF EdgeTells, IInv, NamesAreGood
      <3>4. ~IsMade(n)
        BY <3>1, NewNumber DEF IInv
      <3>5. \A k \in DOMAIN results : status'[results[k].cmd] = status[results[k].cmd]
        BY <3>2, <3>3, <3>4
      <3> QED BY <1>1, <2>1, <3>5
    <2> QED
      BY <1>2, <2>2, <2>3 DEF Operator, RequestStops, Ask, ReadBoard, SendBoard, WriteBoard, Preview,
         SendCommand
  <1>3. ASSUME Puller \/ Daemon \/ DaemonRestarts \/ UNCHANGED vars PROVE CloudFollows'
    <2>1. UNCHANGED <<note, results, unsent, status>>
      BY <1>3 DEF Puller, StartRun, Apply, Daemon, Fetch, Execute, Report, Answered, DaemonRestarts,
         cloud, up, vars
    <2> QED BY <1>1, <2>1
  <1>4. ASSUME NEW i \in Posts, WriteStatus(i) \/ WriteNote(i) \/ ReportStops(i) PROVE CloudFollows'
    <2>1. UNCHANGED <<note, results, unsent, status>>
      BY <1>4 DEF WriteStatus, WriteNote, ReportStops, cloud, up
    <2> QED BY <1>1, <2>1
  <1>5. ASSUME NEW i \in Posts, WriteResult(i) PROVE CloudFollows'
    <2>1. UNCHANGED <<note, status>>
      BY <1>5 DEF WriteResult, cloud
    <2>3. PICK l \in Nat \ {0} :
            /\ Len(results') = l /\ results' # <<>> /\ DOMAIN results' = DOMAIN results \cup {l}
            /\ \A k \in DOMAIN results : results'[k] = results[k] /\ k \in Nat /\ k < l
            /\ unsent' = unsent \cup {l}
      BY <1>5, TellingRow
    <2>4. DOMAIN results' \ unsent' = DOMAIN results \ unsent
      BY <2>3
    <2>5. \A k \in DOMAIN results : LastAbout(k, results[k].cmd)' => LastAbout(k, results[k].cmd)
      BY <2>3 DEF LastAbout
    <2>6. \A k \in DOMAIN results : LastAcked(k)' => LastAcked(k)
      BY <2>3 DEF LastAcked
    <2>7. SentFollows(note, DOMAIN results \ unsent) => SentFollows(note, DOMAIN results \ unsent)'
      BY <2>1, <2>3, <2>4, <2>6 DEF SentFollows
    <2>8. LastFollows(note, DOMAIN results \ unsent)'
      BY <2>3 DEF LastFollows
    <2>9. unsent \subseteq DOMAIN results
      BY DEF IInv, RowsAreThere
    <2>10. NoSlip({"overtaken"})' => \A k \in unsent', j \in DOMAIN results' : k < j => j \in unsent'
      BY <1>0, <2>3, <2>9 DEF CloudFollows
    <2>11. NoSlip({"overtaken"})' => \A k \in DOMAIN results' \ unsent' :
             LastAbout(k, results[k].cmd)' => status'[results'[k].cmd] = results'[k].status
      <3> SUFFICES ASSUME NoSlip({"overtaken"})', NEW k \in DOMAIN results \ unsent, LastAbout(k, results[k].cmd)'
                   PROVE  status'[results'[k].cmd] = results'[k].status
        BY <2>4
      <3> QED BY <1>0, <2>1, <2>3, <2>5 DEF CloudFollows
    <2> QED BY <1>0, <2>7, <2>8, <2>10, <2>11 DEF CloudFollows
  <1> QED BY <1>2, <1>3, <1>4, <1>5, CloudFollowsTaking DEF Next, Reporting, Telling

\* Rows that do not all tell a failure have a last success.
LEMMA LastSuccess ==
  ASSUME IInv, \E k \in DOMAIN results : results[k].status # "FAILED"
  PROVE  \E k \in DOMAIN results : LastAcked(k)
  <1> DEFINE T == {Len(results) - k : k \in {j \in DOMAIN results : results[j].status # "FAILED"}}
  <1>1. /\ Len(results) \in Nat /\ DOMAIN results = 1 .. Len(results)
        /\ \A k \in DOMAIN results : results[k].status \in {"ACKED", "FAILED"}
    BY ResultTypes
  <1>2. \A k \in DOMAIN results : Len(results) - k \in Nat /\ k \in Nat
    BY <1>1
  <1>3. T \in SUBSET Nat /\ T # {}
    BY <1>2
  <1>4. PICK t \in T : \A y \in T : t <= y
    BY <1>3, MinIsMember
  <1>5. PICK k \in DOMAIN results : results[k].status # "FAILED" /\ t = Len(results) - k
    OBVIOUS
  <1>6. ASSUME NEW j \in DOMAIN results, j > k, results[j].status # "FAILED" PROVE FALSE
    <2>1. Len(results) - k <= Len(results) - j
      BY <1>4, <1>5, <1>6
    <2> QED BY <1>1, <1>2, <1>6, <2>1
  <1> QED BY <1>1, <1>5, <1>6 DEF LastAcked

\* The rows the edge has for the cloud say what became of its commands, and the cloud is
\* what the rows it has taken say.
THEOREM SpecTellInv == Spec => []TellInv
  <1>1. Init => TellInv
    <2> SUFFICES ASSUME Init PROVE TellInv
      OBVIOUS
    <2>1. results = <<>> /\ DOMAIN results = {} /\ \A i \in Posts : post[i].pc = "free"
      BY DEF Init, NoPost
    <2>2. EdgeTells
      BY <2>1 DEF Init, EdgeTells, LastFollows, SentFollows
    <2>3. CloudFollows
      BY <2>1 DEF Init, CloudFollows, LastFollows, SentFollows
    <2> QED BY <2>2, <2>3 DEF TellInv
  <1>2. IInv /\ TellInv /\ [Next]_vars => TellInv'
    BY NextEdgeTells, NextCloudFollows DEF TellInv
  <1> QED BY <1>1, <1>2, SpecIInv, PTL DEF Spec

\* When both sides are quiet the cloud's board and commands say what the edge's do, unless a
\* report was left alone, ended half-way or was passed by (reportJobResult and
\* applyEdgeDisplayCommandResult).
THEOREM SpecCloudAgrees == Spec => []CloudAgrees
  <1>1. ASSUME IInv, TellInv PROVE CloudAgrees
    <2> SUFFICES ASSUME CloudQuiet, EdgeQuiet, NoSlip({"left", "halfway", "overtaken"})
                 PROVE  /\ note = edgeNote
                        /\ \A c \in Commands : edgeStatus[c] # "none" => status[c] = edgeStatus[c]
      BY DEF CloudAgrees
    <2>1. NoSlip({"left", "halfway"}) /\ NoSlip({"overtaken"})
      BY DEF NoSlip
    <2>2. unsent = {} /\ \A i \in Posts : post[i].pc = "free"
      BY DEF CloudQuiet, EdgeQuiet
    <2>3. ASSUME NEW c \in Commands, edgeStatus[c] # "none" PROVE status[c] = edgeStatus[c]
      <3>1. edgeStatus[c] \in {"ACKED", "FAILED"}
        BY <1>1, <2>3 DEF EdgeQuiet, Pending, IInv, TypeOK
      <3>2. PICK k \in DOMAIN results : LastAbout(k, c) /\ results[k].status = edgeStatus[c]
        BY <1>1, <2>1, <2>2, <3>1 DEF TellInv, EdgeTells
      <3>3. results[k].cmd = c
        BY <3>2 DEF LastAbout
      <3> QED BY <1>1, <2>1, <2>2, <3>2, <3>3 DEF TellInv, CloudFollows
    <2>4. /\ SentFollows(note, DOMAIN results) /\ LastFollows(note, DOMAIN results)
          /\ SentFollows(edgeNote, DOMAIN results) /\ LastFollows(edgeNote, DOMAIN results)
      <3>1. DOMAIN results \ unsent = DOMAIN results
        BY <2>2
      <3> QED BY <1>1, <2>1, <2>2, <3>1 DEF TellInv, EdgeTells, CloudFollows
    <2>5. note.last = edgeNote.last
      <3>1. results = <<>> \/ Len(results) \in DOMAIN results
        BY <1>1, ResultTypes
      <3> QED BY <2>4, <3>1 DEF LastFollows
    <2>6. note.sent = edgeNote.sent
      <3>1. CASE \A k \in DOMAIN results : results[k].status = "FAILED"
        BY <2>4, <3>1 DEF SentFollows
      <3>2. CASE \E k \in DOMAIN results : results[k].status # "FAILED"
        <4>1. PICK k \in DOMAIN results : LastAcked(k)
          BY <1>1, <3>2, LastSuccess
        <4> QED BY <2>4, <4>1 DEF SentFollows
      <3> QED BY <3>1, <3>2
    <2>7. note = edgeNote
      BY <1>1, <2>5, <2>6 DEF IInv, TypeOK, Notes
    <2> QED BY <2>3, <2>7
  <1> QED BY <1>1, SpecIInv, SpecTellInv, PTL
=============================================================================
