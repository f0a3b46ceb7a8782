------------------------ MODULE SensorReports_proofs ------------------------
(***************************************************************************)
(* Proofs about the sensor's daemon and the API's ingest, for any codes,   *)
(* any number of readings at work at a time and any faults: types, that    *)
(* the daemon's two tables agree, that the cloud is told, and that space   *)
(* and sessions follow the newest reading.                                 *)
(***************************************************************************)
EXTENDS SensorReports, FiniteSetTheorems, WellFoundedInduction, TLAPS

Rows == [pc     : {"new", "done"} \cup DaemonSteps \cup ApiSteps,
         record : BOOLEAN,
         since  : 0 .. MaxUplinks,
         was    : SpaceStatus,
         found  : 0 .. MaxUplinks,
         paid   : BOOLEAN]

\* Whoever is not u keeps its row.
Only(u) == \A v \in Uplinks \ {u} : work'[v] = work[v]

\* A number above all of a set is the greatest once it is put in.
LEMMA NewGreatest ==
  ASSUME NEW S \in SUBSET Nat, NEW m \in Nat, \A h \in S : h < m
  PROVE  Max(S \cup {m}) = m
  <1>1. \A y \in S \cup {m} : m >= y
    OBVIOUS
  <1>2. \A x \in S \cup {m} : (\A y \in S \cup {m} : x >= y) => x = m
    OBVIOUS
  <1> QED BY <1>1, <1>2 DEF Max

\* Readings that are not none have a latest one.
LEMMA MaxIsMember ==
  ASSUME NEW S \in SUBSET Uplinks, S # {}
  PROVE  Max(S) \in S /\ \A y \in S : y <= Max(S)
  <1> DEFINE T == {MaxUplinks - x : x \in S}
  <1>1. T \subseteq Nat /\ T # {}
    <2>1. \A x \in Uplinks : MaxUplinks - x \in Nat
      BY BoundAssumption DEF Uplinks
    <2> QED BY <2>1
  <1>2. PICK t \in T : \A y \in T : ~ (<<y, t>> \in OpToRel(<, Nat))
    BY <1>1, NatLessThanWellFounded, WFMin
  <1>3. \A y \in T : ~ (y < t)
    BY <1>1, <1>2 DEF OpToRel
  <1>4. PICK x \in S : t = MaxUplinks - x
    OBVIOUS
  <1>5. \A y \in S : x >= y
    <2> SUFFICES ASSUME NEW y \in S PROVE x >= y
      OBVIOUS
    <2>1. ~ (MaxUplinks - y < MaxUplinks - x)
      BY <1>3, <1>4
    <2> QED BY <2>1, BoundAssumption DEF Uplinks
  <1>6. Max(S) \in S /\ \A y \in S : Max(S) >= y
    BY <1>5 DEF Max
  <1> QED BY <1>6 DEF Uplinks

---------------------------------------------------------------------------
(* Types.                                                                  *)

LEMMA InitTypeOK == Init => TypeOK
  BY BoundAssumption DEF Init, TypeOK, NoWork, SpaceStatus, DaemonSteps, ApiSteps, Uplinks,
     Sessions

\* A step that leaves everything but one reading's row alone, or ends it.
LEMMA RowTypes ==
  ASSUME TypeOK, NEW u \in Uplinks
  PROVE  /\ work[u] \in Rows
         /\ Done \in Rows
         /\ \A pc \in {"new", "done"} \cup DaemonSteps \cup ApiSteps :
              [work[u] EXCEPT !.pc = pc] \in Rows
         /\ \A row \in Rows : [work EXCEPT ![u] = row] \in [Uplinks -> Rows]
  <1>1. work \in [Uplinks -> Rows]
    BY DEF TypeOK, Rows
  <1>2. Done \in Rows
    <2>1. NoWork \in Rows
      BY BoundAssumption DEF NoWork, Rows, SpaceStatus
    <2> QED BY <2>1 DEF Done, Rows
  <1>3. work[u] \in Rows
    BY <1>1
  <1>4. \A pc \in {"new", "done"} \cup DaemonSteps \cup ApiSteps :
              [work[u] EXCEPT !.pc = pc] \in Rows
    BY <1>3 DEF Rows
  <1> QED BY <1>1, <1>2, <1>3, <1>4

LEMMA WorkTypes ==
  ASSUME TypeOK, NEW u \in Uplinks, Task(u) \/ Request(u)
  PROVE  work' \in [Uplinks -> Rows] /\ Only(u)
  <1>0. work \in [Uplinks -> Rows] /\ work[u] \in Rows
    BY DEF TypeOK, Rows
  <1>1. CASE \E pc \in DaemonSteps \cup ApiSteps : Go(u, pc)
    BY <1>0, <1>1 DEF Go, Rows, Only
  <1>2. CASE End(u)
    BY <1>0, <1>2, RowTypes DEF End, Only
  <1>3. CASE ReadHistory(u)
    BY <1>0, <1>3 DEF ReadHistory, Rows, DaemonSteps, Changed, Only
  <1>4. CASE ReadState(u)
    <2>1. Since(u) \in 0 .. MaxUplinks
      BY BoundAssumption DEF Since, TypeOK, Uplinks
    <2> QED BY <1>0, <1>4, <2>1 DEF ReadState, Rows, DaemonSteps, Only
  <1>5. CASE Notify(u)
    <2>1. space \in SpaceStatus
      BY DEF TypeOK
    <2>2. CASE work' = [work EXCEPT ![u].pc = "find", ![u].was = space]
      BY <1>0, <2>1, <2>2 DEF Rows, ApiSteps, Only
    <2> QED BY <1>2, <1>5, <2>2 DEF Notify
  <1>6. CASE Find(u)
    <2>1. Active \in SUBSET Uplinks
      BY DEF Active, Sessions
    <2>2. \A S \in SUBSET Uplinks : S # {} => Max(S) \in Uplinks
      BY MaxIsMember
    <2>3. (IF Active = {} THEN 0 ELSE Max(Active)) \in 0 .. MaxUplinks
      BY <2>1, <2>2, BoundAssumption DEF Uplinks
    <2> QED BY <1>0, <1>6, <2>3 DEF Find, Rows, ApiSteps, Only
  <1>7. CASE Exit(u)
    <2>1. CASE work' = [work EXCEPT ![u].pc = "close", ![u].paid = (session[work[u].found] = "PAID")]
      BY <1>0, <2>1 DEF Rows, ApiSteps, Only
    <2> QED BY <1>2, <1>7, <2>1 DEF Exit, Throw
  <1> QED
    BY <1>1, <1>2, <1>3, <1>4, <1>5, <1>6, <1>7
    DEF Task, Request, WriteState, WriteHistory, WriteSpace, Enter, Throw, Create, Entered,
        Close, Report, DaemonSteps, ApiSteps

\* Types of what a reading's step changes beside its row.
LEMMA StepTypes ==
  ASSUME TypeOK, ExitHasSession, NEW u \in Uplinks, Task(u) \/ Request(u)
  PROVE  TypeOK'
  <1>1. work' \in [Uplinks -> Rows]
    BY WorkTypes
  <1>2. CASE ReadHistory(u) \/ ReadState(u) \/ Notify(u) \/ Find(u)
    BY <1>1, <1>2
    DEF ReadHistory, ReadState, Notify, Find, TypeOK, Rows, sensor, daemon, api, notes, Uplinks
  <1>3. CASE WriteState(u) \/ WriteHistory(u)
    <2>1. work[u].since \in 0 .. MaxUplinks
      BY DEF TypeOK
    <2>2. state' \in [code : Codes \cup {"none"}, since : 0 .. MaxUplinks, last : 0 .. MaxUplinks]
          \/ UNCHANGED state
      <3>1. CASE WriteState(u)
        <4>1. code[u] \in Codes \cup {"none"} /\ u \in 0 .. MaxUplinks
          BY BoundAssumption DEF TypeOK, Uplinks
        <4> QED BY <2>1, <3>1, <4>1 DEF WriteState
      <3> QED BY <1>3, <3>1 DEF WriteHistory
    <2> QED
      BY <1>1, <1>3, <2>2
      DEF WriteState, WriteHistory, TypeOK, Rows, sensor, daemon, api, notes
  <1>4. CASE WriteSpace(u) \/ Entered(u) \/ Report(u)
    BY <1>1, <1>4
    DEF WriteSpace, Entered, Report, TypeOK, Rows, sensor, daemon, notes, Target, SpaceStatus
  <1>5. CASE Enter(u) \/ Exit(u)
    BY <1>1, <1>5 DEF Enter, Exit, Throw, TypeOK, Rows, sensor, daemon, api
  <1>6. CASE Create(u) \/ Close(u)
    <2>1. session' \in [Sessions -> {"none", "ACTIVE", "PAID", "CLOSED"}]
      BY <1>6 DEF Create, Close, TypeOK
    <2>2. exited' \in SUBSET Sessions
      BY <1>6 DEF Create, Close, TypeOK, ExitHasSession, At
    <2> QED
      BY <1>1, <1>6, <2>1, <2>2 DEF Create, Close, TypeOK, Rows, sensor, daemon, notes, SpaceStatus
  <1> QED
    BY <1>2, <1>3, <1>4, <1>5, <1>6 DEF Task, Request

\* Types of readings sent, payments and faults.
LEMMA OtherTypes ==
  ASSUME TypeOK,
         (\E c \in Codes : Send(c)) \/ (\E s \in Sessions : Pay(s)) \/ DaemonStops \/ ApiStops
  PROVE  TypeOK'
  <1>0. work \in [Uplinks -> Rows]
    BY DEF TypeOK, Rows
  <1>1. ASSUME NEW c \in Codes, Send(c) PROVE TypeOK'
    <2> DEFINE u == sent + 1
    <2>1. u \in Uplinks
      BY <1>1 DEF Send
    <2>2. work' \in [Uplinks -> Rows]
      BY <1>0, <1>1, <2>1, RowTypes DEF Send, Go, End, Rows, DaemonSteps
    <2>3. sent' \in 0 .. MaxUplinks /\ code' \in [Uplinks -> Codes \cup {"none"}]
      BY <1>1, <2>1 DEF Send, TypeOK, Uplinks
    <2>4. overlapped' \in SUBSET Uplinks /\ faults' \in Nat
      BY <1>1, <2>1 DEF Send, TypeOK, Fault, Busy
    <2> QED BY <1>1, <2>2, <2>3, <2>4 DEF Send, TypeOK, Rows, daemon, api
  <1>2. ASSUME NEW s \in Sessions, Pay(s) PROVE TypeOK'
    <2>1. session' \in [Sessions -> {"none", "ACTIVE", "PAID", "CLOSED"}]
          /\ paidEarly' \in SUBSET Sessions
      BY <1>2 DEF Pay, TypeOK
    <2> QED BY <1>2, <2>1 DEF Pay, TypeOK, sensor, daemon
  <1>3. ASSUME NEW us \in SUBSET Uplinks, Stop(us) PROVE work' \in [Uplinks -> Rows]
    <2>1. Done \in Rows
      BY RowTypes, <1>3 DEF Stop
    <2> QED BY <1>0, <1>3, <2>1 DEF Stop
  <1>4. ASSUME NEW us \in SUBSET Uplinks, Stop(us),
               \/ lost' = lost \cup us /\ UNCHANGED failed
               \/ failed' = failed \cup us /\ UNCHANGED lost
        PROVE  TypeOK'
    BY <1>3, <1>4 DEF Stop, TypeOK, Rows, sensor, daemon, api, Fault
  <1>5. CASE DaemonStops
    BY <1>4, <1>5 DEF DaemonStops
  <1>6. CASE ApiStops
    BY <1>4, <1>6 DEF ApiStops
  <1> QED BY <1>1, <1>2, <1>5, <1>6

LEMMA NextTypeOK == TypeOK /\ ExitHasSession /\ [Next]_vars => TypeOK'
  <1> SUFFICES ASSUME TypeOK, ExitHasSession, [Next]_vars PROVE TypeOK'
    OBVIOUS
  <1>1. CASE UNCHANGED vars
    BY <1>1 DEF vars, TypeOK
  <1> QED BY <1>1, StepTypes, OtherTypes DEF Next

---------------------------------------------------------------------------
(* What the rows of the readings at work are.                              *)

\* A reading that only goes on keeps what it has read.
LEMMA RowFacts ==
  ASSUME TypeOK, NEW u \in Uplinks
  PROVE  /\ \A pc : Go(u, pc) => /\ work'[u].pc = pc
                                /\ work'[u].record = work[u].record
                                /\ work'[u].since = work[u].since
                                /\ work'[u].was = work[u].was
                                /\ work'[u].found = work[u].found
         /\ End(u) => work'[u].pc = "done"
  <1>1. work \in [Uplinks -> Rows] /\ work[u] \in Rows
    BY DEF TypeOK, Rows
  <1>2. ASSUME NEW pc, Go(u, pc)
        PROVE  /\ work'[u].pc = pc
               /\ work'[u].record = work[u].record
               /\ work'[u].since = work[u].since
               /\ work'[u].was = work[u].was
               /\ work'[u].found = work[u].found
    BY <1>1, <1>2 DEF Go, Rows
  <1>3. ASSUME End(u) PROVE work'[u].pc = "done"
    BY <1>1, <1>3 DEF End, Done, NoWork
  <1> QED BY <1>2, <1>3

\* No step but a new reading puts one to work, and none empties the histories.
LEMMA BusyShrinks ==
  ASSUME TypeOK, (\E u \in Uplinks : Task(u) \/ Request(u)) \/ (\E s \in Sessions : Pay(s))
                 \/ DaemonStops \/ ApiStops
  PROVE  /\ Busy' \subseteq Busy
         /\ UNCHANGED <<sent, code, overlapped>>
         /\ lost \subseteq lost' /\ failed \subseteq failed'
  <1>1. ASSUME NEW u \in Uplinks, Task(u) \/ Request(u)
        PROVE  Busy' \subseteq Busy
    <2>1. u \in Busy
      BY <1>1 DEF Busy, At, Task, Request, ReadHistory, ReadState, WriteState, WriteHistory,
         Notify, Find, WriteSpace, Enter, Create, Entered, Exit, Close, Report
    <2> QED BY <1>1, <2>1, WorkTypes DEF Only, Busy
  <1>2. ASSUME NEW u \in Uplinks, Task(u) \/ Request(u)
        PROVE  /\ UNCHANGED <<sent, code, overlapped>>
               /\ lost \subseteq lost' /\ failed \subseteq failed'
    BY <1>2 DEF Task, Request, ReadHistory, ReadState, WriteState, WriteHistory,
         Notify, Find, WriteSpace, Enter, Throw, Create, Entered, Exit, Close, Report, sensor,
         notes
  <1>3. ASSUME NEW us \in SUBSET Uplinks, Stop(us) PROVE Busy' \subseteq Busy
    BY <1>3 DEF Stop, Busy, Done, NoWork
  <1>4. CASE DaemonStops
    BY <1>3, <1>4 DEF DaemonStops, Stop, sensor
  <1>5. CASE ApiStops
    BY <1>3, <1>5 DEF ApiStops, Stop, sensor
  <1>6. CASE \E s \in Sessions : Pay(s)
    BY <1>6 DEF Pay, Busy, sensor
  <1> QED BY <1>1, <1>2, <1>4, <1>5, <1>6

\* A reading that is sent while another is at work makes both overlapped.
LEMMA SendFacts ==
  ASSUME TypeOK, NEW c \in Codes, Send(c)
  PROVE  LET u == sent + 1 IN
         /\ u \in Uplinks /\ sent' = u /\ code' = [code EXCEPT ![u] = c]
         /\ work'[u].pc \in {"readHistory", "done"}
         /\ Only(u)
         /\ Busy' \subseteq Busy \cup {u}
         /\ overlapped \subseteq overlapped'
         /\ u \in Busy' /\ overlapped' = {} => Busy = {}
         /\ UNCHANGED <<history, state, space, told, lost, failed>>
  <1> DEFINE u == sent + 1
  <1>0. work \in [Uplinks -> Rows] /\ u \in Uplinks
    BY DEF TypeOK, Rows, Send
  <1>1. CASE Go(u, "readHistory") /\ overlapped' = IF Busy = {} THEN overlapped ELSE overlapped \cup Busy \cup {u}
    <2>1. work'[u].pc = "readHistory" /\ Only(u)
      BY <1>0, <1>1 DEF Go, Only, Rows
    <2> QED BY <1>0, <1>1, <2>1 DEF Send, Only, Busy, daemon, api
  <1>2. CASE End(u) /\ UNCHANGED overlapped
    <2>1. work'[u].pc = "done" /\ Only(u)
      BY <1>0, <1>2 DEF End, Only, Done, NoWork
    <2> QED BY <1>0, <1>2, <2>1 DEF Send, Only, Busy, daemon, api
  <1> QED BY <1>1, <1>2 DEF Send

LEMMA NextOneAtATime ==
  ASSUME TypeOK, OneAtATime, Next
  PROVE  OneAtATime'
  <1>1. CASE \E c \in Codes : Send(c)
    BY <1>1, SendFacts DEF OneAtATime
  <1>2. CASE ~ \E c \in Codes : Send(c)
    BY <1>2, BusyShrinks DEF OneAtATime, Next
  <1> QED BY <1>1, <1>2

LEMMA NextExitHasSession ==
  ASSUME TypeOK, ExitHasSession, Next
  PROVE  ExitHasSession'
  <1>1. ASSUME NEW c \in Codes, Send(c) PROVE ExitHasSession'
    BY <1>1, SendFacts DEF ExitHasSession, Only
  <1>2. ASSUME NEW u \in Uplinks, Task(u) \/ Request(u) PROVE ExitHasSession'
    <2> SUFFICES ASSUME work'[u].pc \in {"exit", "close"} PROVE work'[u].found \in Sessions
      BY <1>2, WorkTypes DEF ExitHasSession, Only
    <2>0. work \in [Uplinks -> Rows]
      BY DEF TypeOK, Rows
    <2>1. CASE Find(u)
      <3>1. work'[u].pc = "exit" => Active # {}
        BY <2>0, <2>1 DEF Find
      <3>2. work'[u].pc # "close"
        BY <2>0, <2>1 DEF Find
      <3>3. Active # {} => work'[u].found = Max(Active)
        BY <2>0, <2>1 DEF Find
      <3>4. Active \in SUBSET Uplinks
        BY DEF Active, Sessions
      <3> QED BY <3>1, <3>2, <3>3, <3>4, MaxIsMember DEF Sessions
    <2>2. CASE Exit(u)
      <3>1. work[u].found \in Sessions
        BY <2>2 DEF Exit, At, ExitHasSession
      <3>2. work'[u].found = work[u].found \/ work'[u].pc = "done"
        <4>1. CASE work' = [work EXCEPT ![u].pc = "close",
                                        ![u].paid = (session[work[u].found] = "PAID")]
          BY <2>0, <4>1
        <4> QED BY <2>2, <4>1, RowFacts DEF Exit, Throw
      <3> QED BY <3>1, <3>2
    <2>3. CASE ReadHistory(u) \/ ReadState(u)
      <3>1. work'[u].pc \in {"readState", "writeState"}
        BY <2>0, <2>3 DEF ReadHistory, ReadState, Rows
      <3> QED BY <3>1
    <2>4. CASE Notify(u)
      <3>1. CASE work' = [work EXCEPT ![u].pc = "find", ![u].was = space]
        BY <2>0, <3>1
      <3> QED BY <2>4, <3>1, RowFacts DEF Notify
    <2>5. CASE \E pc \in {"writeHistory", "notify", "create", "entered", "report"} : Go(u, pc)
      BY <2>5, RowFacts
    <2>6. CASE End(u)
      BY <2>6, RowFacts
    <2>7. CASE WriteState(u) \/ WriteHistory(u) \/ WriteSpace(u) \/ Enter(u) \/ Create(u)
               \/ Entered(u) \/ Close(u) \/ Report(u)
      <3>1. End(u) \/ \E pc \in {"writeHistory", "notify", "create", "entered", "report"} : Go(u, pc)
        BY <2>7
        DEF WriteState, WriteHistory, WriteSpace, Enter, Throw, Create, Entered, Close, Report
      <3> QED BY <2>5, <2>6, <3>1
    <2> QED
      BY <1>2, <2>1, <2>2, <2>3, <2>4, <2>7 DEF Task, Request
  <1>3. ASSUME NEW us \in SUBSET Uplinks, Stop(us) PROVE ExitHasSession'
    BY <1>3 DEF Stop, ExitHasSession, Done, NoWork
  <1>4. CASE DaemonStops \/ ApiStops
    BY <1>3, <1>4 DEF DaemonStops, ApiStops
  <1>5. ASSUME NEW s \in Sessions, Pay(s) PROVE ExitHasSession'
    BY <1>5 DEF Pay, ExitHasSession
  <1> QED BY <1>1, <1>2, <1>4, <1>5 DEF Next

\* Where each step of a reading takes it.
LEMMA PcAfter ==
  ASSUME TypeOK, NEW u \in Uplinks
  PROVE  /\ ReadHistory(u) => work'[u].pc = "readState" /\ work'[u].record = Changed(u)
         /\ ReadState(u) => /\ work'[u].pc = "writeState"
                            /\ work'[u].record = work[u].record
                            /\ work'[u].since = Since(u)
         /\ Notify(u) => \/ work'[u].pc = "find" /\ work'[u].was = space
                         \/ work'[u].pc = "done"
         /\ Find(u) => /\ work'[u].was = work[u].was
                       /\ \/ Occupied(code[u]) /\ work'[u].pc \in {"enter", "occupy"}
                          \/ ~Occupied(code[u]) /\ work'[u].pc \in {"clear", "exit"}
         /\ Exit(u) => \/ work'[u].pc = "close" /\ work'[u].was = work[u].was
                       \/ work'[u].pc = "done" /\ failed' # {}
  <1>0. work \in [Uplinks -> Rows]
    BY DEF TypeOK, Rows
  <1>1. ReadHistory(u) => work'[u].pc = "readState" /\ work'[u].record = Changed(u)
    BY <1>0 DEF ReadHistory, Rows
  <1>2. ReadState(u) => /\ work'[u].pc = "writeState"
                        /\ work'[u].record = work[u].record
                        /\ work'[u].since = Since(u)
    BY <1>0 DEF ReadState, Rows
  <1>3. Notify(u) => \/ work'[u].pc = "find" /\ work'[u].was = space
                     \/ work'[u].pc = "done"
    <2>1. CASE work' = [work EXCEPT ![u].pc = "find", ![u].was = space]
      BY <1>0, <2>1 DEF Rows
    <2> QED BY <2>1, RowFacts DEF Notify
  <1>4. Find(u) => work'[u].was = work[u].was
    BY <1>0 DEF Find, Rows
  <1>5. Find(u) => work'[u].pc = IF Occupied(code[u]) THEN (IF Active = {} THEN "enter" ELSE "occupy")
                                 ELSE (IF Active = {} THEN "clear" ELSE "exit")
    BY <1>0 DEF Find, Rows
  <1>6. Exit(u) => \/ work'[u].pc = "close" /\ work'[u].was = work[u].was
                   \/ work'[u].pc = "done" /\ failed' # {}
    <2>1. CASE work' = [work EXCEPT ![u].pc = "close",
                                    ![u].paid = (session[work[u].found] = "PAID")]
      BY <1>0, <2>1 DEF Rows
    <2> QED BY <2>1, RowFacts DEF Exit, Throw
  <1> QED BY <1>1, <1>2, <1>3, <1>4, <1>5, <1>6

LEMMA NextHistoryWasSent ==
  ASSUME TypeOK, HistoryWasSent, Next
  PROVE  HistoryWasSent'
  <1>1. ASSUME NEW c \in Codes, Send(c) PROVE HistoryWasSent'
    <2>1. 1 .. sent' = (1 .. sent) \cup {sent + 1}
      BY <1>1, SendFacts DEF TypeOK, Uplinks
    <2>2. \A v \in 1 .. sent' : code'[v] \in Codes
      <3>1. code' = [code EXCEPT ![sent + 1] = c] /\ sent + 1 \in Uplinks
        BY <1>1, SendFacts
      <3>2. \A v \in 1 .. sent : v \in Uplinks /\ v # sent + 1
        BY <3>1, BoundAssumption DEF TypeOK, Uplinks
      <3>3. code \in [Uplinks -> Codes \cup {"none"}]
        BY DEF TypeOK
      <3> QED BY <2>1, <3>1, <3>2, <3>3 DEF HistoryWasSent
    <2> QED BY <1>1, <2>1, <2>2, SendFacts DEF HistoryWasSent
  <1>2. ASSUME NEW u \in Uplinks, Task(u) \/ Request(u) PROVE history' \subseteq history \cup Busy
    BY <1>2
    DEF Task, Request, ReadHistory, ReadState, WriteState, WriteHistory, Notify, Find, WriteSpace,
        Enter, Create, Entered, Exit, Close, Report, daemon, Busy, At
  <1>3. CASE DaemonStops \/ ApiStops \/ \E s \in Sessions : Pay(s)
    BY <1>3, BusyShrinks DEF DaemonStops, ApiStops, Stop, Pay, daemon, HistoryWasSent
  <1> QED BY <1>1, <1>2, <1>3, BusyShrinks DEF Next, HistoryWasSent

\* While readings come one at a time, nobody is at work beside u.
LEMMA Alone ==
  ASSUME TypeOK, OneAtATime, overlapped = {}, NEW u \in Uplinks, Task(u) \/ Request(u)
  PROVE  /\ u \in Busy
         /\ \A v \in Uplinks \ {u} : work[v].pc \in {"new", "done"}
                                     /\ work'[v].pc \in {"new", "done"}
  <1>1. u \in Busy
    BY DEF Busy, At, Task, Request, ReadHistory, ReadState, WriteState, WriteHistory,
       Notify, Find, WriteSpace, Enter, Create, Entered, Exit, Close, Report
  <1> QED BY <1>1, WorkTypes DEF OneAtATime, Busy, Only

---------------------------------------------------------------------------
(* The daemon's tables.                                                    *)

LEMMA TaskKnowsStep ==
  ASSUME IInv, NEW u \in Uplinks, Task(u)
  PROVE  TaskKnows'
  <1> SUFFICES ASSUME overlapped' \cup lost' = {} PROVE TaskKnows'
    BY DEF TaskKnows
  <1>0. TypeOK /\ OneAtATime /\ HistoryWasSent /\ TaskKnows
    BY DEF IInv
  <1>1. UNCHANGED code /\ overlapped \cup lost = {}
    BY <1>0, BusyShrinks
  <1>2. /\ u \in Busy
        /\ \A v \in Uplinks \ {u} : work[v].pc \in {"new", "done"} /\ work'[v].pc \in {"new", "done"}
    BY <1>0, <1>1, Alone
  <1>3. u \in Nat /\ history \subseteq Nat /\ code[u] \in Codes /\ code[u] # "none"
    BY <1>0, <1>2, CodesAssumption DEF HistoryWasSent, Uplinks
  <1>4. ~At(u, "writeHistory") => StateOfNewest
    BY <1>0, <1>1, <1>2 DEF TaskKnows, At
  <1>5. CASE ReadHistory(u)
    <2>1. At(u, "readHistory") /\ work'[u].pc = "readState" /\ work'[u].record = Changed(u)
          /\ UNCHANGED <<history, state>>
      BY <1>0, <1>5, PcAfter DEF ReadHistory, daemon
    <2>2. StateOfNewest /\ \A h \in history : h < u
      BY <1>0, <1>1, <1>4, <2>1 DEF TaskKnows, At, DaemonSteps
    <2>3. Changed(u) <=> state.code # code[u]
      BY <1>3, <2>2 DEF StateOfNewest, Changed, Newest
    <2>4. StateOfNewest'
      BY <1>1, <2>1, <2>2 DEF StateOfNewest, Newest
    <2> QED BY <1>1, <1>2, <2>1, <2>2, <2>3, <2>4 DEF TaskKnows, At, DaemonSteps
  <1>6. CASE ReadState(u)
    <2>1. /\ At(u, "readState") /\ work'[u].pc = "writeState"
          /\ work'[u].record = work[u].record /\ work'[u].since = Since(u)
          /\ UNCHANGED <<history, state>>
      BY <1>0, <1>6, PcAfter DEF ReadState, daemon
    <2>2. StateOfNewest /\ (\A h \in history : h < u) /\ (work[u].record <=> state.code # code[u])
      BY <1>0, <1>1, <1>4, <2>1 DEF TaskKnows, At, DaemonSteps
    <2>3. StateOfNewest' /\ Since(u)' = Since(u)
      BY <1>1, <2>1, <2>2 DEF StateOfNewest, Newest, Since
    <2> QED BY <1>1, <1>2, <2>1, <2>2, <2>3 DEF TaskKnows, At, DaemonSteps
  <1>7. CASE WriteState(u)
    <2>1. /\ At(u, "writeState") /\ UNCHANGED history
          /\ state' = [code |-> code[u], since |-> work[u].since, last |-> u]
      BY <1>7 DEF WriteState
    <2>2. /\ StateOfNewest /\ (\A h \in history : h < u)
          /\ work[u].record <=> state.code # code[u]
          /\ work[u].since = Since(u)
      BY <1>0, <1>1, <1>4, <2>1 DEF TaskKnows, At, DaemonSteps
    <2>3. CASE work[u].record
      <3>1. work'[u].pc = "writeHistory"
        BY <1>0, <1>7, <2>3, RowFacts DEF WriteState
      <3>2. state'.code = code[u] /\ state'.since = u
        BY <2>1, <2>2, <2>3 DEF Since
      <3> QED BY <1>1, <1>2, <2>1, <2>2, <3>1, <3>2 DEF TaskKnows, At, DaemonSteps
    <2>4. CASE ~work[u].record
      <3>1. work'[u].pc = "done"
        BY <1>0, <1>7, <2>4, RowFacts DEF WriteState
      <3>2. state'.code = state.code /\ state'.since = state.since
        BY <2>1, <2>2, <2>4 DEF Since
      <3>3. StateOfNewest'
        BY <1>1, <2>1, <2>2, <3>2 DEF StateOfNewest, Newest
      <3> QED BY <1>2, <3>1, <3>3 DEF TaskKnows, At, DaemonSteps
    <2> QED BY <2>3, <2>4
  <1>8. CASE WriteHistory(u)
    <2>1. At(u, "writeHistory") /\ UNCHANGED state /\ history' = history \cup {u}
          /\ work'[u].pc = "notify"
      BY <1>0, <1>8, RowFacts DEF WriteHistory
    <2>2. state.code = code[u] /\ state.since = u /\ \A h \in history : h < u
      BY <1>0, <1>1, <2>1 DEF TaskKnows, At, DaemonSteps
    <2>3. Newest' = u
      BY <1>3, <2>1, <2>2, NewGreatest DEF Newest
    <2>4. StateOfNewest'
      BY <1>1, <2>1, <2>2, <2>3 DEF StateOfNewest
    <2> QED BY <1>2, <2>1, <2>4 DEF TaskKnows, At, DaemonSteps
  <1>9. CASE Notify(u)
    <2>1. At(u, "notify") /\ UNCHANGED <<history, state>> /\ work'[u].pc \in {"find", "done"}
      BY <1>0, <1>9, PcAfter DEF Notify, daemon
    <2>2. StateOfNewest'
      BY <1>1, <1>4, <2>1 DEF At, StateOfNewest, Newest
    <2> QED BY <1>2, <2>1, <2>2 DEF TaskKnows, At, DaemonSteps
  <1> QED BY <1>5, <1>6, <1>7, <1>8, <1>9 DEF Task

LEMMA NextTaskKnows ==
  ASSUME IInv, Next
  PROVE  TaskKnows'
  <1> SUFFICES ASSUME overlapped' \cup lost' = {} PROVE TaskKnows'
    BY DEF TaskKnows
  <1>0. TypeOK /\ OneAtATime /\ HistoryWasSent /\ TaskKnows
    BY DEF IInv
  <1>1. ASSUME NEW c \in Codes, Send(c) PROVE TaskKnows'
    <2> DEFINE u == sent + 1
    <2>1. /\ u \in Uplinks /\ code' = [code EXCEPT ![u] = c] /\ Only(u)
          /\ work'[u].pc \in {"readHistory", "done"} /\ UNCHANGED <<history, state>>
          /\ overlapped \cup lost = {}
      BY <1>0, <1>1, SendFacts
    <2>2. u \notin Busy /\ \A h \in history : h < u
      BY <1>0 DEF HistoryWasSent, TypeOK
    <2>3. \A v \in Uplinks \ {u} : code'[v] = code[v] /\ work'[v] = work[v]
      BY <1>0, <2>1 DEF Only, TypeOK
    <2>4. ~At(u, "writeHistory")
      BY <2>1, <2>2 DEF Busy, At
    <2>5. (\A v \in Uplinks : ~At(v, "writeHistory"))' => StateOfNewest'
      <3> SUFFICES ASSUME StateOfNewest PROVE StateOfNewest'
        BY <1>0, <2>1, <2>3, <2>4 DEF TaskKnows, At, DaemonSteps
      <3>1. history # {} => Newest \in Uplinks \ {u}
        BY <1>0, <2>2 DEF StateOfNewest, TypeOK
      <3> QED BY <2>1, <2>3, <3>1 DEF StateOfNewest, Newest
    <2> QED BY <1>0, <2>1, <2>2, <2>3, <2>5 DEF TaskKnows, At, Since, DaemonSteps
  <1>2. ASSUME NEW u \in Uplinks, Request(u) PROVE TaskKnows'
    <2>1. UNCHANGED <<code, history, state>> /\ overlapped \cup lost = {}
      BY <1>0, <1>2, BusyShrinks
      DEF Request, Find, WriteSpace, Enter, Create, Entered, Exit, Close, Report, daemon
    <2>2. \A v \in Uplinks \ {u} : work[v].pc \in {"new", "done"} /\ work'[v].pc \in {"new", "done"}
      BY <1>0, <1>2, <2>1, Alone
    <2>3. work[u].pc \in ApiSteps
      BY <1>2 DEF Request, Find, WriteSpace, Enter, Create, Entered, Exit, Close, Report, At,
         ApiSteps
    <2>4. work'[u].pc \in ApiSteps \cup {"done"}
      <3>1. CASE Find(u) \/ Exit(u)
        BY <1>0, <3>1, PcAfter DEF ApiSteps
      <3>2. ~(Find(u) \/ Exit(u)) => End(u) \/ \E pc \in ApiSteps : Go(u, pc)
        BY <1>2 DEF Request, WriteSpace, Enter, Throw, Create, Entered, Close, Report, ApiSteps
      <3> QED BY <1>0, <3>1, <3>2, RowFacts
    <2>5. StateOfNewest'
      BY <1>0, <2>1, <2>2, <2>3 DEF TaskKnows, At, ApiSteps, StateOfNewest, Newest
    <2> QED BY <2>2, <2>4, <2>5 DEF TaskKnows, At, ApiSteps, DaemonSteps
  <1>3. ASSUME NEW s \in Sessions, Pay(s) PROVE TaskKnows'
    BY <1>0, <1>3 DEF Pay, sensor, daemon, TaskKnows, StateOfNewest, Newest, Since, At
  <1>4. CASE DaemonStops
    BY <1>4 DEF DaemonStops, Stop
  <1>5. CASE ApiStops
    <2>1. UNCHANGED <<code, history, state, overlapped, lost>>
      BY <1>5 DEF ApiStops, Stop, sensor, daemon
    <2>2. \A v \in Uplinks : \/ work'[v] = work[v]
                             \/ work'[v].pc = "done" /\ work[v].pc \in ApiSteps
      BY <1>5 DEF ApiStops, Stop, Done, NoWork
    <2>3. \A v \in Uplinks : At(v, "writeHistory") => At(v, "writeHistory")'
      BY <2>2 DEF At, ApiSteps
    <2>4. StateOfNewest => StateOfNewest'
      BY <2>1 DEF StateOfNewest, Newest
    <2> QED BY <1>0, <2>1, <2>2, <2>3, <2>4 DEF TaskKnows, At, Since, DaemonSteps
  <1> QED BY <1>1, <1>2, <1>3, <1>4, <1>5, TaskKnowsStep DEF Next

---------------------------------------------------------------------------
(* The space, and what the cloud is told of it.                            *)

LEMMA RequestKnowsStep ==
  ASSUME IInv, NEW u \in Uplinks, Task(u) \/ Request(u)
  PROVE  RequestKnows'
  <1> SUFFICES ASSUME overlapped' \cup failed' = {} PROVE RequestKnows'
    BY DEF RequestKnows
  <1>0. TypeOK /\ OneAtATime /\ RequestKnows
    BY DEF IInv
  <1>1. UNCHANGED code /\ overlapped \cup failed = {}
    BY <1>0, BusyShrinks
  <1>2. \A v \in Uplinks \ {u} : work[v].pc \in {"new", "done"} /\ work'[v].pc \in {"new", "done"}
    BY <1>0, <1>1, Alone
  <1>3. ~At(u, "entered") /\ ~At(u, "report") => told = space
    BY <1>0, <1>1, <1>2 DEF RequestKnows, At
  <1>4. At(u, "report") => space = Target(code[u]) /\ told \in {space, work[u].was}
    BY <1>0, <1>1 DEF RequestKnows
  <1>5. /\ RequestFollowsCode(u)
        /\ work[u].pc \in ApiSteps \ {"entered", "report"} => work[u].was = space
        /\ At(u, "entered") => space = "OCCUPIED"
    BY <1>0, <1>1 DEF RequestKnows
  \* What is left to show of u alone.
  <1> DEFINE Good == /\ work'[u].pc \notin {"entered", "report"} => told' = space'
                     /\ RequestFollowsCode(u)'
                     /\ work'[u].pc \in ApiSteps \ {"entered", "report"} => work'[u].was = space'
                     /\ At(u, "entered")' => space' = "OCCUPIED"
                     /\ At(u, "report")' => /\ space' = Target(code[u])
                                            /\ told' \in {space', work'[u].was}
  <1>6. Good => RequestKnows'
    BY <1>1, <1>2 DEF RequestKnows, RequestFollowsCode, At, ApiSteps, Target, Occupied
  <1>7. ASSUME work'[u].pc \in {"new", "done"} \cup DaemonSteps, told' = space' PROVE Good
    BY <1>7 DEF DaemonSteps, ApiSteps, RequestFollowsCode, At
  <1>8. CASE Task(u)
    <2>1. ~At(u, "entered") /\ ~At(u, "report") /\ UNCHANGED <<space, told>>
      BY <1>8 DEF Task, ReadHistory, ReadState, WriteState, WriteHistory, Notify, At, api
    <2>2. ASSUME Notify(u), work'[u].pc = "find" PROVE Good
      BY <1>0, <1>3, <2>1, <2>2, PcAfter DEF RequestFollowsCode, At
    <2>3. ASSUME ~Notify(u) \/ work'[u].pc # "find" PROVE Good
      <3>1. work'[u].pc \in {"readState", "writeState", "done", "writeHistory", "notify"}
        BY <1>0, <1>8, <2>3, PcAfter, RowFacts DEF Task, WriteState, WriteHistory
      <3> QED BY <1>3, <1>7, <2>1, <3>1 DEF DaemonSteps
    <2> QED BY <1>6, <2>2, <2>3
  <1>9. CASE Find(u)
    <2>1. At(u, "find") /\ UNCHANGED <<space, told>>
      BY <1>9 DEF Find, api
    <2>2. work'[u].was = work[u].was /\ \/ Occupied(code[u]) /\ work'[u].pc \in {"enter", "occupy"}
                                        \/ ~Occupied(code[u]) /\ work'[u].pc \in {"clear", "exit"}
      BY <1>0, <1>9, PcAfter
    <2>3. Good
      BY <1>1, <1>3, <1>5, <2>1, <2>2 DEF RequestFollowsCode, At, ApiSteps
    <2> QED BY <1>6, <2>3
  <1>10. CASE WriteSpace(u)
    <2>1. /\ work[u].pc \in {"occupy", "clear"} /\ UNCHANGED told
          /\ space' = Target(code[u]) /\ work'[u].pc = "report" /\ work'[u].was = work[u].was
      BY <1>0, <1>10, RowFacts DEF WriteSpace, At
    <2>2. told' = work'[u].was
      BY <1>3, <1>5, <2>1 DEF At, ApiSteps
    <2>3. Good
      BY <2>1, <2>2 DEF RequestFollowsCode, At
    <2> QED BY <1>6, <2>3
  <1>11. CASE Enter(u)
    <2>1. At(u, "enter") /\ UNCHANGED <<space, told>>
      BY <1>11 DEF Enter, api
    <2>2. work'[u].pc = "create" /\ work'[u].was = work[u].was
      BY <1>0, <1>11, RowFacts DEF Enter, Throw
    <2>3. Good
      BY <1>1, <1>3, <1>5, <2>1, <2>2 DEF RequestFollowsCode, At, ApiSteps
    <2> QED BY <1>6, <2>3
  <1>12. CASE Create(u)
    <2>1. /\ At(u, "create") /\ space' = "OCCUPIED" /\ work'[u].pc = "entered"
      BY <1>0, <1>12, RowFacts DEF Create
    <2>2. Good
      BY <1>1, <1>5, <2>1 DEF RequestFollowsCode, At
    <2> QED BY <1>6, <2>2
  <1>13. CASE Entered(u)
    <2>1. /\ At(u, "entered") /\ UNCHANGED space /\ told' = "OCCUPIED" /\ work'[u].pc = "report"
      BY <1>0, <1>13, RowFacts DEF Entered
    <2>2. Good
      BY <1>5, <2>1 DEF RequestFollowsCode, At, Target
    <2> QED BY <1>6, <2>2
  <1>14. CASE Exit(u)
    <2>1. At(u, "exit") /\ UNCHANGED <<space, told>>
      BY <1>14 DEF Exit, api
    <2>2. work'[u].pc = "close" /\ work'[u].was = work[u].was
      BY <1>0, <1>14, PcAfter
    <2>3. Good
      BY <1>1, <1>3, <1>5, <2>1, <2>2 DEF RequestFollowsCode, At, ApiSteps
    <2> QED BY <1>6, <2>3
  <1>15. CASE Close(u)
    <2>1. At(u, "close") /\ space' = "EMPTY" /\ told' = "EMPTY" /\ work'[u].pc = "report"
      BY <1>0, <1>15, RowFacts DEF Close
    <2>2. Good
      BY <1>5, <2>1 DEF RequestFollowsCode, At, Target
    <2> QED BY <1>6, <2>2
  <1>16. CASE Report(u)
    <2>1. /\ At(u, "report") /\ UNCHANGED space /\ work'[u].pc = "done"
          /\ told' = IF ToReport(u) THEN Target(code[u]) ELSE told
      BY <1>0, <1>16, RowFacts DEF Report
    <2>2. told' = space'
      BY <1>4, <2>1 DEF ToReport
    <2> QED BY <1>6, <1>7, <2>1, <2>2
  <1> QED
    BY <1>8, <1>9, <1>10, <1>11, <1>12, <1>13, <1>14, <1>15, <1>16 DEF Request

LEMMA NextRequestKnows ==
  ASSUME IInv, Next
  PROVE  RequestKnows'
  <1> SUFFICES ASSUME overlapped' \cup failed' = {} PROVE RequestKnows'
    BY DEF RequestKnows
  <1>0. TypeOK /\ HistoryWasSent /\ RequestKnows
    BY DEF IInv
  <1>1. ASSUME NEW c \in Codes, Send(c) PROVE RequestKnows'
    <2> DEFINE u == sent + 1
    <2>1. /\ u \in Uplinks /\ code' = [code EXCEPT ![u] = c] /\ Only(u)
          /\ work'[u].pc \in {"readHistory", "done"} /\ UNCHANGED <<space, told>>
          /\ overlapped \cup failed = {}
      BY <1>0, <1>1, SendFacts
    <2>2. u \notin Busy
      BY <1>0 DEF HistoryWasSent, TypeOK
    <2>3. \A v \in Uplinks \ {u} : code'[v] = code[v] /\ work'[v] = work[v]
      BY <1>0, <2>1 DEF Only, TypeOK
    <2>4. work[u].pc \notin {"entered", "report"}
      BY <2>1, <2>2 DEF Busy
    <2>5. (\A v \in Uplinks : work[v].pc \notin {"entered", "report"})' => told' = space'
      BY <1>0, <2>1, <2>3, <2>4 DEF RequestKnows
    <2>6. ASSUME NEW v \in Uplinks \ {u}
          PROVE  /\ RequestFollowsCode(v)'
                 /\ work'[v].pc \in ApiSteps \ {"entered", "report"} => work'[v].was = space'
                 /\ At(v, "entered")' => space' = "OCCUPIED"
                 /\ At(v, "report")' => space' = Target(code'[v]) /\ told' \in {space', work'[v].was}
      BY <1>0, <2>1, <2>3, <2>6 DEF RequestKnows, RequestFollowsCode, At
    <2> QED
      BY <2>1, <2>5, <2>6 DEF RequestKnows, RequestFollowsCode, At, ApiSteps
  <1>2. ASSUME NEW s \in Sessions, Pay(s) PROVE RequestKnows'
    BY <1>0, <1>2 DEF Pay, sensor, RequestKnows, RequestFollowsCode, At
  <1>3. CASE DaemonStops
    <2>1. UNCHANGED <<code, space, told, overlapped, failed>>
      BY <1>3 DEF DaemonStops, Stop, sensor, api
    <2>2. \A v \in Uplinks : \/ work'[v] = work[v]
                             \/ work'[v].pc = "done" /\ work[v].pc \in DaemonSteps
      BY <1>3 DEF DaemonStops, Stop, Done, NoWork
    <2>3. (\A v \in Uplinks : work[v].pc \notin {"entered", "report"})' => told' = space'
      BY <1>0, <2>1, <2>2 DEF RequestKnows, DaemonSteps
    <2>4. ASSUME NEW v \in Uplinks
          PROVE  /\ RequestFollowsCode(v)'
                 /\ work'[v].pc \in ApiSteps \ {"entered", "report"} => work'[v].was = space'
                 /\ At(v, "entered")' => space' = "OCCUPIED"
                 /\ At(v, "report")' => space' = Target(code'[v]) /\ told' \in {space', work'[v].was}
      <3>1. CASE work'[v] = work[v]
        BY <1>0, <2>1, <3>1 DEF RequestKnows, RequestFollowsCode, At
      <3>2. CASE work'[v].pc = "done"
        BY <3>2 DEF RequestFollowsCode, At, ApiSteps
      <3> QED BY <2>2, <3>1, <3>2
    <2> QED BY <2>1, <2>3, <2>4 DEF RequestKnows
  <1>4. CASE ApiStops
    BY <1>4 DEF ApiStops, Stop
  <1> QED BY <1>1, <1>2, <1>3, <1>4, RequestKnowsStep DEF Next

---------------------------------------------------------------------------
(* The space and the sessions follow the newest reading.                   *)

\* Where each step of a reading starts and ends.
LEMMA StepShape ==
  ASSUME TypeOK, NEW u \in Uplinks
  PROVE  /\ ReadHistory(u) => At(u, "readHistory") /\ At(u, "readState")'
         /\ ReadState(u) => At(u, "readState") /\ At(u, "writeState")'
         /\ WriteState(u) => At(u, "writeState") /\ (At(u, "writeHistory")' \/ At(u, "done")')
         /\ WriteHistory(u) => At(u, "writeHistory") /\ At(u, "notify")'
         /\ Notify(u) => /\ At(u, "notify") /\ (At(u, "find")' \/ At(u, "done")')
                         /\ Occupied(code[u]) \/ Empty(code[u]) => At(u, "find")'
         /\ Find(u) =>
              /\ At(u, "find")
              /\ Occupied(code[u]) => IF Active = {} THEN At(u, "enter")' ELSE At(u, "occupy")'
              /\ ~Occupied(code[u]) => IF Active = {} THEN At(u, "clear")' ELSE At(u, "exit")'
              /\ Active # {} => work'[u].found = Max(Active)
         /\ WriteSpace(u) => work[u].pc \in {"occupy", "clear"} /\ At(u, "report")'
         /\ Enter(u) => /\ At(u, "enter")
                        /\ \/ Active = {} /\ At(u, "create")'
                           \/ At(u, "done")' /\ u \in failed'
         /\ Create(u) => At(u, "create") /\ At(u, "entered")'
         /\ Entered(u) => At(u, "entered") /\ At(u, "report")'
         /\ Exit(u) => /\ At(u, "exit")
                       /\ \/ At(u, "close")' /\ work'[u].found = work[u].found
                          \/ At(u, "done")' /\ u \in failed'
         /\ Close(u) => At(u, "close") /\ At(u, "report")'
         /\ Report(u) => At(u, "report") /\ At(u, "done")'
  <1>0. work \in [Uplinks -> Rows]
    BY DEF TypeOK, Rows
  <1>1. ReadHistory(u) => At(u, "readHistory") /\ At(u, "readState")'
    BY PcAfter DEF ReadHistory, At
  <1>2. ReadState(u) => At(u, "readState") /\ At(u, "writeState")'
    BY PcAfter DEF ReadState, At
  <1>3. WriteState(u) => At(u, "writeState") /\ (At(u, "writeHistory")' \/ At(u, "done")')
    BY RowFacts DEF WriteState, At
  <1>4. WriteHistory(u) => At(u, "writeHistory") /\ At(u, "notify")'
    BY RowFacts DEF WriteHistory, At
  <1>5. Notify(u) => /\ At(u, "notify") /\ (At(u, "find")' \/ At(u, "done")')
                     /\ Occupied(code[u]) \/ Empty(code[u]) => At(u, "find")'
    <2> SUFFICES ASSUME Notify(u) PROVE
          /\ At(u, "notify") /\ (At(u, "find")' \/ At(u, "done")')
          /\ Occupied(code[u]) \/ Empty(code[u]) => At(u, "find")'
      OBVIOUS
    <2>1. CASE Occupied(code[u]) \/ Empty(code[u])
      <3>1. work' = [work EXCEPT ![u].pc = "find", ![u].was = space]
        BY <2>1 DEF Notify
      <3>2. work'[u].pc = "find"
        BY <1>0, <3>1 DEF Rows
      <3> QED BY <3>2 DEF Notify, At
    <2> QED BY <2>1, PcAfter DEF Notify, At
  <1>6. Find(u) =>
          /\ At(u, "find")
          /\ work'[u].pc = IF Occupied(code[u]) THEN (IF Active = {} THEN "enter" ELSE "occupy")
                                                ELSE (IF Active = {} THEN "clear" ELSE "exit")
          /\ work'[u].found = IF Active = {} THEN 0 ELSE Max(Active)
    BY <1>0 DEF Find, Rows, At
  <1>7. WriteSpace(u) => work[u].pc \in {"occupy", "clear"} /\ At(u, "report")'
    BY RowFacts DEF WriteSpace, At
  <1>8. Enter(u) => /\ At(u, "enter")
                    /\ \/ Active = {} /\ At(u, "create")'
                       \/ At(u, "done")' /\ u \in failed'
    <2>1. Go(u, "create") => At(u, "create")'
      BY RowFacts DEF At
    <2>2. Throw(u) => At(u, "done")' /\ u \in failed'
      BY RowFacts DEF At, Throw
    <2> QED BY <2>1, <2>2 DEF Enter
  <1>9. Exit(u) => /\ At(u, "exit")
                   /\ \/ At(u, "close")' /\ work'[u].found = work[u].found
                      \/ At(u, "done")' /\ u \in failed'
    <2>1. CASE work' = [work EXCEPT ![u].pc = "close",
                                    ![u].paid = (session[work[u].found] = "PAID")]
      <3>1. work'[u].pc = "close" /\ work'[u].found = work[u].found
        BY <1>0, <2>1 DEF Rows
      <3> QED BY <3>1 DEF At, Exit
    <2> QED BY <2>1, RowFacts DEF Exit, Throw, At
  <1>10. Create(u) => At(u, "create") /\ At(u, "entered")'
    BY RowFacts DEF Create, At
  <1>11. Entered(u) => At(u, "entered") /\ At(u, "report")'
    BY RowFacts DEF Entered, At
  <1>12. Close(u) => At(u, "close") /\ At(u, "report")'
    BY RowFacts DEF Close, At
  <1>13. Report(u) => At(u, "report") /\ At(u, "done")'
    BY RowFacts DEF Report, At
  <1>14. Find(u) =>
              /\ At(u, "find")
              /\ Occupied(code[u]) => IF Active = {} THEN At(u, "enter")' ELSE At(u, "occupy")'
              /\ ~Occupied(code[u]) => IF Active = {} THEN At(u, "clear")' ELSE At(u, "exit")'
              /\ Active # {} => work'[u].found = Max(Active)
    BY <1>6 DEF At
  <1> QED BY <1>1, <1>2, <1>3, <1>4, <1>5, <1>7, <1>8, <1>9, <1>10, <1>11, <1>12, <1>13, <1>14

\* Readings at the daemon, at the API, and what either writes.
LEMMA Sides ==
  ASSUME TypeOK, NEW u \in Uplinks
  PROVE  /\ Task(u) => /\ work[u].pc \in DaemonSteps
                       /\ UNCHANGED <<space, session, exited, paidEarly, failed>>
                       /\ \/ /\ At(u, "writeHistory") /\ At(u, "notify")'
                             /\ history' = history \cup {u}
                          \/ /\ work[u].pc \in DaemonSteps \ {"notify"} /\ UNCHANGED history
                             /\ work'[u].pc \in {"readState", "writeState", "writeHistory", "done"}
                          \/ Notify(u) /\ UNCHANGED history
         /\ Request(u) => /\ work[u].pc \in ApiSteps
                          /\ work'[u].pc \in ApiSteps \cup {"done"}
                          /\ UNCHANGED <<history, paidEarly>>
         /\ Task(u) \/ Request(u) =>
              /\ Only(u) /\ u \in Busy /\ UNCHANGED <<code, sent, overlapped>>
              /\ lost \subseteq lost' /\ failed \subseteq failed'
  <1>1. ASSUME Task(u)
        PROVE  UNCHANGED <<space, session, exited, paidEarly, failed>>
    BY <1>1 DEF Task, ReadHistory, ReadState, WriteState, WriteHistory, Notify, api, notes
  <1>2. ASSUME Task(u)
        PROVE  \/ /\ At(u, "writeHistory") /\ At(u, "notify")'
                  /\ history' = history \cup {u}
               \/ /\ work[u].pc \in DaemonSteps \ {"notify"} /\ UNCHANGED history
                  /\ work'[u].pc \in {"readState", "writeState", "writeHistory", "done"}
               \/ Notify(u) /\ UNCHANGED history
    <2>1. CASE ReadHistory(u) \/ ReadState(u) \/ WriteState(u)
      BY <2>1, StepShape DEF ReadHistory, ReadState, WriteState, daemon, DaemonSteps, At
    <2>2. CASE WriteHistory(u)
      BY <2>2, StepShape DEF WriteHistory
    <2>3. CASE Notify(u)
      BY <2>3 DEF Notify, daemon
    <2> QED BY <1>2, <2>1, <2>2, <2>3 DEF Task
  <1>3. ASSUME Task(u) PROVE work[u].pc \in DaemonSteps
    BY <1>2, <1>3, StepShape DEF At, DaemonSteps
  <1>4. ASSUME Request(u)
        PROVE  work[u].pc \in ApiSteps /\ work'[u].pc \in ApiSteps \cup {"done"}
    <2>1. CASE Find(u)
      BY <2>1, StepShape DEF At, ApiSteps
    <2>2. CASE WriteSpace(u) \/ Enter(u) \/ Create(u) \/ Entered(u)
      BY <2>2, StepShape DEF At, ApiSteps
    <2>3. CASE Exit(u) \/ Close(u) \/ Report(u)
      BY <2>3, StepShape DEF At, ApiSteps
    <2> QED BY <1>4, <2>1, <2>2, <2>3 DEF Request
  <1>5. ASSUME Request(u) PROVE UNCHANGED <<history, paidEarly>>
    BY <1>5 DEF Request, Find, WriteSpace, Enter, Create, Entered, Exit, Close, Report, daemon,
                notes
  <1>6. ASSUME Task(u) \/ Request(u) PROVE Only(u) /\ u \in Busy
    BY <1>3, <1>4, <1>6, WorkTypes DEF Busy, DaemonSteps, ApiSteps
  <1>7. ASSUME Task(u) \/ Request(u)
        PROVE  /\ UNCHANGED <<code, sent, overlapped>>
               /\ lost \subseteq lost' /\ failed \subseteq failed'
    BY <1>7, BusyShrinks
  <1> QED BY <1>1, <1>2, <1>3, <1>4, <1>5, <1>6, <1>7

\* Of the codes only Unknown is neither occupied nor empty.
LEMMA CodeFacts ==
  ASSUME NEW c \in Codes, c # "Unknown"
  PROVE  Occupied(c) \/ Empty(c)
  BY CodesAssumption DEF Occupied, Empty

\* A reading sent beside another is overlapped.
LEMMA SendOverlaps ==
  ASSUME TypeOK, NEW c \in Codes, Send(c), sent + 1 \in Busy', Busy # {}
  PROVE  sent + 1 \in overlapped'
  <1>0. work \in [Uplinks -> Rows] /\ sent + 1 \in Uplinks
    BY DEF TypeOK, Rows, Send
  <1>1. ~End(sent + 1)
    <2> SUFFICES ASSUME End(sent + 1) PROVE FALSE
      OBVIOUS
    <2>1. work'[sent + 1].pc = "done"
      BY <1>0, RowFacts
    <2> QED BY <2>1 DEF Busy
  <1> QED BY <1>1 DEF Send

\* What ends with Stop ends, and the rest stays.
LEMMA StopFacts ==
  ASSUME TypeOK, DaemonStops \/ ApiStops
  PROVE  /\ UNCHANGED <<code, sent, history, overlapped, space, session, exited, paidEarly>>
         /\ lost \subseteq lost' /\ failed \subseteq failed'
         /\ \A v \in Uplinks : \/ work'[v] = work[v]
                               \/ /\ v \in Busy
                                  /\ At(v, "done")' /\ v \in lost' \cup failed'
                                  /\ At(v, "done")' /\ (work[v].pc \in ApiSteps \/ v \in lost')
  <1>1. CASE DaemonStops
    <2>1. PICK us : Stop(us) /\ lost' = lost \cup us /\ UNCHANGED failed
                    /\ \A v \in us : v \in Uplinks /\ work[v].pc \in DaemonSteps
      BY <1>1 DEF DaemonStops
    <2> QED BY <2>1 DEF Stop, sensor, daemon, api, At, Done, NoWork, Busy, DaemonSteps
  <1>2. CASE ApiStops
    <2>1. PICK us : Stop(us) /\ failed' = failed \cup us /\ UNCHANGED lost
                    /\ \A v \in us : v \in Uplinks /\ work[v].pc \in ApiSteps
      BY <1>2 DEF ApiStops
    <2> QED BY <2>1 DEF Stop, sensor, daemon, api, At, Done, NoWork, Busy, ApiSteps
  <1> QED BY <1>1, <1>2

\* A reading stays where it fits.
LEMMA NextPlacesFit ==
  ASSUME IInv, PlacesFit, Next
  PROVE  PlacesFit'
  <1>0. TypeOK /\ HistoryWasSent
    BY DEF IInv
  <1>1. ASSUME NEW u \in Uplinks, Task(u) \/ Request(u) PROVE PlacesFit'
    <2>1. /\ Only(u) /\ u \in Busy /\ UNCHANGED <<code, sent, overlapped>>
          /\ Busy' \subseteq Busy
      BY <1>0, <1>1, Sides, BusyShrinks
    <2>2. /\ work'[u].pc \in {"notify"} \cup ApiSteps => u \in history'
          /\ u \in history' => work'[u].pc \in {"notify", "done"} \cup ApiSteps
          /\ history' \subseteq history \cup {u} /\ history \subseteq history'
      <3>1. CASE Request(u)
        BY <1>0, <3>1, Sides DEF PlacesFit
      <3>2. CASE Task(u) /\ ~Notify(u)
        <4>1. CASE history' = history \cup {u} /\ At(u, "notify")'
          BY <4>1 DEF At
        <4>2. CASE /\ work[u].pc \in DaemonSteps \ {"notify"} /\ UNCHANGED history
                   /\ work'[u].pc \in {"readState", "writeState", "writeHistory", "done"}
          BY <4>2 DEF PlacesFit, DaemonSteps, ApiSteps
        <4> QED BY <1>0, <3>2, <4>1, <4>2, Sides
      <3>3. CASE Notify(u)
        BY <1>0, <3>3, StepShape DEF PlacesFit, ApiSteps, At, Notify, daemon
      <3> QED BY <1>1, <3>1, <3>2, <3>3
    <2>3. RequestFollowsCode(u)'
      <3> USE DEF RequestFollowsCode, At
      <3>1. CASE Task(u)
        <4>1. work'[u].pc \in {"readState", "writeState", "writeHistory", "notify", "find", "done"}
          BY <1>0, <3>1, Sides, StepShape
        <4> QED BY <4>1
      <3>2. CASE Find(u) \/ WriteSpace(u) \/ Entered(u) \/ Close(u) \/ Report(u)
        BY <1>0, <2>1, <3>2, StepShape
      <3>3. CASE Enter(u) \/ Create(u) \/ Exit(u)
        BY <1>0, <2>1, <3>3, StepShape DEF PlacesFit
      <3> QED BY <1>1, <3>1, <3>2, <3>3 DEF Request
    <2>4. \A v \in Uplinks : RequestFollowsCode(v)'
      BY <2>1, <2>3 DEF PlacesFit, RequestFollowsCode, Only
    <2>5. \A v \in Uplinks : v > sent' => At(v, "new")'
      <3>1. u \in 1 .. sent
        BY <1>0, <2>1 DEF HistoryWasSent
      <3> QED BY <1>0, <2>1, <3>1 DEF PlacesFit, Only, At, TypeOK
    <2>6. history' \subseteq Uplinks
      BY <1>0, <2>2 DEF TypeOK
    <2> QED BY <2>1, <2>2, <2>4, <2>5, <2>6 DEF PlacesFit, Only
  <1>2. ASSUME NEW c \in Codes, Send(c) PROVE PlacesFit'
    <2> DEFINE u == sent + 1
    <2>1. /\ u \in Uplinks /\ sent' = u /\ code' = [code EXCEPT ![u] = c]
          /\ work'[u].pc \in {"readHistory", "done"}
          /\ Only(u)
          /\ Busy' \subseteq Busy \cup {u}
          /\ overlapped \subseteq overlapped'
          /\ UNCHANGED history
      BY <1>0, <1>2, SendFacts
    <2>2. /\ \A v \in Busy \cup history : v \in Nat /\ v < u
          /\ u \notin history
      BY <1>0 DEF HistoryWasSent, TypeOK
    <2>3. \A v \in Uplinks \ {u} : code'[v] = code[v] /\ work'[v] = work[v]
      BY <1>0, <2>1 DEF Only, TypeOK
    <2>4. \A g \in Busy' : \A v \in Busy' \cup history : v > g => v \in overlapped'
      <3> SUFFICES ASSUME NEW g \in Busy', NEW v \in Busy' \cup history, v > g
                   PROVE  v \in overlapped'
        OBVIOUS
      <3>1. CASE g = u
        BY <2>1, <2>2, <3>1, <1>0 DEF TypeOK
      <3>2. CASE g \in Busy /\ v \in Busy \cup history
        BY <2>1, <3>2 DEF PlacesFit
      <3>3. CASE g \in Busy /\ v = u
        <4>1. v \in Busy'
          BY <2>2, <3>3
        <4> QED BY <1>0, <1>2, <3>3, <4>1, SendOverlaps
      <3> QED BY <2>1, <3>1, <3>2, <3>3
    <2>5. \A v \in Uplinks : RequestFollowsCode(v)'
      BY <2>1, <2>3 DEF PlacesFit, RequestFollowsCode
    <2>6. \A v \in Uplinks : v > sent' => At(v, "new")'
      BY <1>0, <2>1, <2>3 DEF PlacesFit, At, TypeOK, Uplinks
    <2>7. \A v \in Uplinks : work'[v].pc \in {"notify"} \cup ApiSteps => v \in history'
      BY <2>1, <2>3 DEF PlacesFit, ApiSteps
    <2>8. \A v \in history' : work'[v].pc \in {"notify", "done"} \cup ApiSteps
      BY <1>0, <2>1, <2>2, <2>3 DEF PlacesFit, TypeOK
    <2> QED BY <2>1, <2>4, <2>5, <2>6, <2>7, <2>8 DEF PlacesFit
  <1>3. CASE DaemonStops \/ ApiStops
    <2>1. /\ UNCHANGED <<code, sent, history, overlapped>>
          /\ \A v \in Uplinks : work'[v] = work[v] \/ (v \in Busy /\ At(v, "done")')
      BY <1>0, <1>3, StopFacts
    <2>2. Busy' \subseteq Busy /\ history \subseteq Uplinks /\ Busy \subseteq 1 .. sent
      BY <1>0, <1>3, BusyShrinks DEF TypeOK, HistoryWasSent
    <2>3. \A v \in Uplinks : v > sent => At(v, "new")'
      BY <1>0, <2>1, <2>2 DEF PlacesFit, At, TypeOK
    <2> QED BY <2>1, <2>2, <2>3 DEF PlacesFit, RequestFollowsCode, At, ApiSteps
  <1>4. ASSUME NEW s \in Sessions, Pay(s) PROVE PlacesFit'
    BY <1>4 DEF Pay, sensor, daemon, PlacesFit, RequestFollowsCode, At, Busy
  <1> QED BY <1>1, <1>2, <1>3, <1>4 DEF Next

\* A step of another reading beside the decisive one is not one at the API.
LEMMA OthersAtDaemon ==
  ASSUME TypeOK, PlacesFit, NEW n \in Uplinks, Decisive(n),
         NEW u \in Uplinks, u # n, Request(u)
  PROVE  FALSE
  <1>1. u \in Busy /\ work[u].pc \in ApiSteps
    BY Sides
  <1>2. u \in history /\ n \in history
    BY <1>1 DEF PlacesFit, Decisive
  <1>3. u \in Nat /\ n \in Nat /\ u <= n
    BY <1>2 DEF Decisive, Uplinks
  <1>4. n \in overlapped
    BY <1>1, <1>2, <1>3 DEF PlacesFit
  <1> QED BY <1>4 DEF Decisive

\* A decisive reading was so before a step, unless the step gave it its row.
LEMMA DecisiveBefore ==
  ASSUME NEW n \in history, Decisive(n)', code'[n] = code[n], history \subseteq history',
         overlapped \subseteq overlapped', lost \subseteq lost', failed \subseteq failed'
  PROVE  Decisive(n)
  BY DEF Decisive

\* The decisive reading at a step of any: it has just got its row, or it steps at
\* the API, or it stands by while another is at the daemon.
LEMMA DecisiveSteps ==
  ASSUME IInv, PlacesFit, NEW n \in Uplinks, Decisive(n)', NEW u \in Uplinks,
         Task(u) \/ Request(u)
  PROVE  \/ n = u /\ work'[n].pc \in {"notify", "find"}
         \/ n = u /\ Request(u) /\ Decisive(n)
         \/ /\ n # u /\ Task(u) /\ Decisive(n) /\ work'[n] = work[n]
            /\ UNCHANGED <<space, session, exited, paidEarly>>
  <1>0. TypeOK /\ HistoryWasSent
    BY DEF IInv
  <1>1. /\ Only(u) /\ UNCHANGED <<code, sent, overlapped>>
        /\ lost \subseteq lost' /\ failed \subseteq failed'
        /\ n \in history' /\ history' \subseteq history \cup {u} /\ history \subseteq history'
    BY <1>0, Sides DEF Decisive
  <1>2. n \in history => Decisive(n)
    BY <1>1, DecisiveBefore
  <1>3. code[n] \in Codes /\ code[n] # "Unknown"
    <2>1. n \in 1 .. sent
      BY <1>0, <1>1, Sides DEF HistoryWasSent
    <2> QED BY <1>0, <1>1, <2>1 DEF HistoryWasSent, Decisive
  <1>4. CASE n # u
    <2>1. Decisive(n) /\ work'[n] = work[n]
      BY <1>1, <1>2, <1>4 DEF Only
    <2>2. Task(u)
      BY <1>0, <1>4, <2>1, OthersAtDaemon
    <2> QED BY <1>0, <1>4, <2>1, <2>2, Sides
  <1>5. CASE n = u /\ Task(u)
    <2>1. CASE Notify(u)
      BY <1>0, <1>3, <1>5, <2>1, CodeFacts, StepShape DEF At
    <2>2. CASE work[u].pc \in DaemonSteps \ {"notify"} /\ UNCHANGED history
      BY <1>1, <1>5, <2>2 DEF PlacesFit, DaemonSteps, ApiSteps
    <2>3. CASE At(u, "notify")'
      BY <1>5, <2>3 DEF At
    <2> QED BY <1>0, <1>5, <2>1, <2>2, <2>3, Sides
  <1>6. CASE n = u /\ Request(u)
    <2>1. n \in history
      BY <1>0, <1>1, <1>6, Sides
    <2> QED BY <1>2, <1>6, <2>1
  <1> QED BY <1>4, <1>5, <1>6

\* Sending, paying and stopping leave the decisive reading where it was.
LEMMA DecisiveStands ==
  ASSUME IInv, NEW n \in Uplinks, Decisive(n)',
         (\E c \in Codes : Send(c)) \/ (\E s \in Sessions : Pay(s)) \/ DaemonStops \/ ApiStops
  PROVE  Decisive(n) /\ work'[n] = work[n] /\ code'[n] = code[n] /\ UNCHANGED space
  <1>0. TypeOK /\ HistoryWasSent
    BY DEF IInv
  <1>1. ASSUME NEW c \in Codes, Send(c)
        PROVE  Decisive(n) /\ work'[n] = work[n] /\ code'[n] = code[n] /\ UNCHANGED space
    <2>1. /\ code' = [code EXCEPT ![sent + 1] = c] /\ Only(sent + 1)
          /\ overlapped \subseteq overlapped' /\ UNCHANGED <<history, lost, failed, space>>
      BY <1>0, <1>1, SendFacts
    <2>2. n \in history /\ n # sent + 1
      BY <1>0, <2>1 DEF Decisive, HistoryWasSent, TypeOK
    <2>3. work'[n] = work[n] /\ code'[n] = code[n]
      BY <1>0, <2>1, <2>2 DEF Only, TypeOK
    <2> QED BY <2>1, <2>2, <2>3, DecisiveBefore
  <1>2. ASSUME NEW s \in Sessions, Pay(s)
        PROVE  Decisive(n) /\ work'[n] = work[n] /\ code'[n] = code[n] /\ UNCHANGED space
    BY <1>2 DEF Pay, Decisive, sensor, daemon
  <1>3. CASE DaemonStops \/ ApiStops
    <2>1. /\ UNCHANGED <<code, history, overlapped, space>>
          /\ lost \subseteq lost' /\ failed \subseteq failed'
          /\ work'[n] = work[n] \/ n \in lost' \cup failed'
      BY <1>0, <1>3, StopFacts
    <2> QED BY <2>1 DEF Decisive
  <1> QED BY <1>1, <1>2, <1>3

LEMMA NextSpaceKnown ==
  ASSUME IInv, PlacesFit, SpaceKnown, Next
  PROVE  SpaceKnown'
  <1> SUFFICES ASSUME NEW n \in Uplinks, Decisive(n)', work'[n].pc \in {"entered", "report", "done"}
               PROVE  space' = Target(code'[n])
    BY DEF SpaceKnown, Target, Occupied
  <1>0. TypeOK
    BY DEF IInv
  <1>1. ASSUME NEW u \in Uplinks, Task(u) \/ Request(u) PROVE space' = Target(code'[n])
    <2>0. UNCHANGED code
      BY <1>0, <1>1, Sides
    <2>1. CASE Decisive(n) /\ work'[n] = work[n] /\ UNCHANGED space
      BY <2>0, <2>1 DEF SpaceKnown
    <2>2. CASE n = u /\ Request(u) /\ Decisive(n)
      <3>0. u \notin failed' /\ RequestFollowsCode(u)
        BY <2>2 DEF Decisive, PlacesFit
      <3>1. CASE Find(u) \/ Enter(u) \/ Exit(u)
        BY <1>0, <2>2, <3>0, <3>1, StepShape DEF At
      <3>2. CASE WriteSpace(u)
        BY <2>0, <2>2, <3>2 DEF WriteSpace
      <3>3. CASE Create(u)
        BY <2>0, <2>2, <3>0, <3>3 DEF Create, RequestFollowsCode, At, Target
      <3>4. CASE Close(u)
        BY <2>0, <2>2, <3>0, <3>4 DEF Close, RequestFollowsCode, At, Target
      <3>5. CASE Entered(u) \/ Report(u)
        <4>1. work[n].pc \in {"entered", "report"} /\ UNCHANGED space
          BY <2>2, <3>5 DEF Entered, Report, At
        <4> QED BY <2>0, <2>2, <4>1 DEF SpaceKnown
      <3> QED BY <2>2, <3>1, <3>2, <3>3, <3>4, <3>5 DEF Request
    <2> QED BY <1>1, <2>1, <2>2, DecisiveSteps
  <1>2. CASE (\E c \in Codes : Send(c)) \/ (\E s \in Sessions : Pay(s)) \/ DaemonStops \/ ApiStops
    <2>1. Decisive(n) /\ work'[n] = work[n] /\ code'[n] = code[n] /\ UNCHANGED space
      BY <1>2, DecisiveStands
    <2> QED BY <2>1 DEF SpaceKnown
  <1> QED BY <1>1, <1>2 DEF Next

\* What a step of a reading does to the sessions.
LEMMA SessionSteps ==
  ASSUME TypeOK, NEW u \in Uplinks, Task(u) \/ Request(u)
  PROVE  \/ Create(u) /\ session' = [session EXCEPT ![u] = "ACTIVE"] /\ UNCHANGED exited
         \/ /\ Close(u) /\ exited' = exited \cup {work[u].found}
            /\ \E end \in {"PAID", "CLOSED"} :
                 session' = [session EXCEPT ![work[u].found] = end]
         \/ ~Create(u) /\ ~Close(u) /\ UNCHANGED <<session, exited>>
  <1>1. CASE Create(u)
    BY <1>1 DEF Create
  <1>2. CASE Close(u)
    BY <1>2 DEF Close
  <1>3. CASE ~Create(u) /\ ~Close(u)
    <2>1. CASE Task(u)
      BY <1>3, <2>1, Sides
    <2>2. CASE Request(u)
      BY <1>3, <2>2 DEF Request, Find, WriteSpace, Enter, Entered, Exit, Report, api
    <2> QED BY <1>3, <2>1, <2>2
  <1> QED BY <1>1, <1>2, <1>3

\* Steps that lead to the making or the end of a session.
LEMMA StepsToSession ==
  ASSUME TypeOK, NEW u \in Uplinks, Task(u) \/ Request(u)
  PROVE  /\ work'[u].pc \in {"new", "find", "enter", "create"} \cup DaemonSteps
            => /\ work[u].pc \in {"find", "enter"} \cup DaemonSteps
               /\ ~Create(u) /\ ~Close(u)
         /\ At(u, "create")' => Enter(u) /\ Active = {}
         /\ work'[u].pc \in {"exit", "close"} =>
              \/ Find(u) /\ Active # {} /\ work'[u].found = Max(Active)
              \/ Exit(u) /\ work[u].pc = "exit" /\ work'[u].found = work[u].found
  <1> USE DEF At
  <1>1. CASE Task(u)
    <2>1. work[u].pc \in DaemonSteps
      BY <1>1, Sides
    <2>2. ~Create(u) /\ ~Close(u)
      BY <2>1, StepShape DEF DaemonSteps
    <2>3. work'[u].pc \notin {"create", "exit", "close"}
      BY <1>1, Sides, StepShape
    <2> QED BY <2>1, <2>2, <2>3
  <1>2. CASE Find(u)
    <2>1. work[u].pc = "find" /\ ~Create(u) /\ ~Close(u)
      BY <1>2, StepShape
    <2>2. work'[u].pc \in {"exit", "close"} => Active # {} /\ work'[u].found = Max(Active)
      BY <1>2, StepShape
    <2>3. work'[u].pc # "create"
      BY <1>2, StepShape
    <2> QED BY <1>2, <2>1, <2>2, <2>3
  <1>3. CASE Enter(u) \/ Exit(u)
    <2>1. work[u].pc \in {"enter", "exit"} /\ ~Create(u) /\ ~Close(u)
      BY <1>3, StepShape
    <2> QED BY <1>3, <2>1, StepShape DEF DaemonSteps
  <1>4. CASE WriteSpace(u) \/ Create(u) \/ Entered(u) \/ Close(u) \/ Report(u)
    <2>1. work'[u].pc \in {"report", "entered", "done"}
      BY <1>4, StepShape
    <2> QED BY <2>1 DEF DaemonSteps
  <1> QED BY <1>1, <1>2, <1>3, <1>4 DEF Request

\* Sessions begin once and end for good, at every step.
LEMMA NextSessionsRemember ==
  ASSUME IInv, PlacesFit, SessionsRemember, Next
  PROVE  SessionsRemember'
  <1> DEFINE Early == {"new", "find", "enter", "create"} \cup DaemonSteps
  <1>0. /\ TypeOK /\ HistoryWasSent /\ Sessions = Uplinks
        /\ session \in [Sessions -> {"none", "ACTIVE", "PAID", "CLOSED"}]
    BY DEF IInv, TypeOK, Sessions
  <1>1. ASSUME NEW u \in Uplinks, Task(u) \/ Request(u) PROVE SessionsRemember'
    <2>1. Only(u)
      BY <1>0, <1>1, Sides
    <2>2. work'[u].pc \in Early => work[u].pc \in Early \ {"new"} /\ ~Create(u) /\ ~Close(u)
      BY <1>0, <1>1, StepsToSession DEF DaemonSteps
    <2>3. work'[u].pc \in {"exit", "close"} => session[work'[u].found] # "none"
      <3>1. CASE Active # {} /\ work'[u].found = Max(Active)
        <4>1. Max(Active) \in Active
          BY <1>0, <3>1, MaxIsMember DEF Active
        <4> QED BY <3>1, <4>1 DEF Active
      <3>2. CASE work[u].pc = "exit" /\ work'[u].found = work[u].found
        BY <3>2 DEF SessionsRemember
      <3> QED BY <1>0, <1>1, <3>1, <3>2, StepsToSession
    <2>4. CASE Create(u) /\ session' = [session EXCEPT ![u] = "ACTIVE"] /\ UNCHANGED exited
      <3>1. session[u] = "none"
        BY <1>0, <2>4, StepShape DEF SessionsRemember, At
      <3>2. u \notin exited
        BY <3>1 DEF SessionsRemember
      <3>3. \A v \in Uplinks : session'[v] = IF v = u THEN "ACTIVE" ELSE session[v]
        BY <1>0, <2>4
      <3>4. \A s \in exited : session'[s] = session[s]
        BY <1>0, <3>2, <3>3 DEF TypeOK
      <3>5. work'[u].pc = "entered"
        BY <1>0, <2>4, StepShape DEF At
      <3>6. \A s : session'[s] = "none" => session[s] = "none"
        BY <1>0, <2>4
      <3> QED BY <2>1, <2>4, <3>3, <3>4, <3>5, <3>6 DEF SessionsRemember, Only, DaemonSteps
    <2>5. CASE /\ Close(u) /\ exited' = exited \cup {work[u].found}
               /\ \E end \in {"PAID", "CLOSED"} :
                    session' = [session EXCEPT ![work[u].found] = end]
      <3>1. PICK end \in {"PAID", "CLOSED"} : session' = [session EXCEPT ![work[u].found] = end]
        BY <2>5
      <3>2. work[u].pc = "close" /\ work'[u].pc = "report"
        BY <1>0, <2>5, StepShape DEF At
      <3>3. session[work[u].found] # "none" /\ work[u].found \in Uplinks
        BY <1>0, <3>2 DEF SessionsRemember, IInv, ExitHasSession
      <3>4. \A v \in Uplinks : session'[v] = IF v = work[u].found THEN end ELSE session[v]
        BY <1>0, <3>1
      <3>5. \A s \in exited' : session'[s] \in {"PAID", "CLOSED"}
        BY <1>0, <2>5, <3>3, <3>4 DEF SessionsRemember, TypeOK
      <3>6. \A v \in Uplinks : session[v] = "none" => session'[v] = "none"
        BY <3>3, <3>4
      <3>7. \A v \in Uplinks : session[v] # "none" => session'[v] # "none"
        BY <3>4
      <3>8. \A v \in Uplinks : work[v].pc \in {"exit", "close"} => work[v].found \in Uplinks
        BY <1>0 DEF IInv, ExitHasSession
      <3> QED BY <2>1, <3>2, <3>5, <3>6, <3>7, <3>8 DEF SessionsRemember, Only, DaemonSteps
    <2>6. CASE ~Create(u) /\ ~Close(u) /\ UNCHANGED <<session, exited>>
      BY <2>1, <2>2, <2>3, <2>6 DEF SessionsRemember, Only
    <2> QED BY <1>0, <1>1, <2>4, <2>5, <2>6, SessionSteps
  <1>2. ASSUME NEW c \in Codes, Send(c) PROVE SessionsRemember'
    <2>1. /\ sent + 1 \in Uplinks /\ Only(sent + 1)
          /\ work'[sent + 1].pc \in {"readHistory", "done"}
      BY <1>0, <1>2, SendFacts
    <2>2. work[sent + 1].pc = "new"
      BY <1>0, <2>1 DEF PlacesFit, At, TypeOK
    <2>3. UNCHANGED <<session, exited>>
      BY <1>2 DEF Send, api
    <2> QED BY <2>1, <2>2, <2>3 DEF SessionsRemember, Only
  <1>3. CASE DaemonStops \/ ApiStops
    <2>1. /\ UNCHANGED <<session, exited>>
          /\ \A v \in Uplinks : work'[v] = work[v] \/ work'[v].pc = "done"
      BY <1>0, <1>3, StopFacts DEF At
    <2> QED BY <2>1 DEF SessionsRemember, DaemonSteps
  <1>4. ASSUME NEW s \in Sessions, Pay(s) PROVE SessionsRemember'
    <2>1. /\ session[s] \in {"ACTIVE", "CLOSED"} /\ UNCHANGED <<work, exited>>
          /\ session' = [session EXCEPT ![s] = "PAID"]
      BY <1>4 DEF Pay
    <2>2. \A v \in Uplinks : session'[v] = IF v = s THEN "PAID" ELSE session[v]
      BY <1>0, <2>1
    <2>3. \A v \in Uplinks : session[v] = "none" <=> session'[v] = "none"
      BY <2>1, <2>2
    <2>4. \A v \in Uplinks : work[v].pc \in {"exit", "close"} => work[v].found \in Uplinks
      BY <1>0 DEF IInv, ExitHasSession
    <2>5. \A t \in exited : session'[t] \in {"PAID", "CLOSED"}
      BY <1>0, <2>2 DEF SessionsRemember, TypeOK
    <2> QED BY <2>1, <2>3, <2>4, <2>5 DEF SessionsRemember
  <1> QED BY <1>1, <1>2, <1>3, <1>4 DEF Next

\* The sessions that are ACTIVE after a step of a reading worked on alone.
LEMMA ActiveAfter ==
  ASSUME TypeOK, SessionsKnown, overlapped = {}, NEW u \in Uplinks, Task(u) \/ Request(u)
  PROVE  /\ Create(u) => Active = {} /\ Active' = {u}
         /\ Close(u) => Active' = {}
         /\ ~Create(u) /\ ~Close(u) => Active' = Active
  <1>0. Sessions = Uplinks /\ session \in [Sessions -> {"none", "ACTIVE", "PAID", "CLOSED"}]
    BY DEF TypeOK, Sessions
  <1>1. CASE Create(u) /\ session' = [session EXCEPT ![u] = "ACTIVE"]
    <2>1. Active = {} /\ At(u, "create")
      BY <1>1, StepShape DEF SessionsKnown
    <2> QED BY <1>0, <1>1, <2>1 DEF Active, Close, At
  <1>2. CASE /\ Close(u)
             /\ \E end \in {"PAID", "CLOSED"} :
                  session' = [session EXCEPT ![work[u].found] = end]
    <2>1. At(u, "close")
      BY <1>2, StepShape
    <2>2. Active \subseteq {work[u].found}
      BY <2>1 DEF SessionsKnown, At
    <2> QED BY <1>0, <1>2, <2>1, <2>2 DEF Active, Create, At
  <1>3. CASE ~Create(u) /\ ~Close(u) /\ UNCHANGED session
    BY <1>3 DEF Active
  <1> QED BY <1>1, <1>2, <1>3, SessionSteps

\* While readings come one at a time, what one has found of the sessions holds.
LEMMA NextSessionsKnown ==
  ASSUME IInv, SessionsKnown, Next
  PROVE  SessionsKnown'
  <1> SUFFICES ASSUME overlapped' = {} PROVE SessionsKnown'
    BY DEF SessionsKnown
  <1>0. TypeOK /\ OneAtATime /\ Sessions = Uplinks
    BY DEF IInv, Sessions
  <1>1. ASSUME NEW u \in Uplinks, Task(u) \/ Request(u) PROVE SessionsKnown'
    <2>1. overlapped = {}
      BY <1>0, <1>1, Sides
    <2>2. \A v \in Uplinks \ {u} : work'[v].pc \in {"new", "done"}
      BY <1>0, <1>1, <2>1, Alone
    <2>3. /\ Create(u) => Active' = {u}
          /\ Close(u) => Active' = {}
          /\ ~Create(u) /\ ~Close(u) => Active' = Active
      BY <1>0, <1>1, <2>1, ActiveAfter
    <2>4. \A s, t \in Active' : s = t
      BY <2>1, <2>3 DEF SessionsKnown
    <2>5. At(u, "create")' => Active' = {}
      <3> SUFFICES ASSUME At(u, "create")' PROVE Active' = {}
        OBVIOUS
      <3>1. Enter(u) /\ Active = {}
        BY <1>0, <1>1, StepsToSession
      <3>2. ~Create(u) /\ ~Close(u)
        BY <1>0, <3>1, StepShape DEF At
      <3> QED BY <2>3, <3>1, <3>2
    <2>6. work'[u].pc \in {"exit", "close"} => Active' \subseteq {work'[u].found}
      <3> SUFFICES ASSUME work'[u].pc \in {"exit", "close"}
                   PROVE  Active' \subseteq {work'[u].found}
        OBVIOUS
      <3>1. \/ Find(u) /\ Active # {} /\ work'[u].found = Max(Active)
            \/ Exit(u) /\ work[u].pc = "exit" /\ work'[u].found = work[u].found
        BY <1>0, <1>1, StepsToSession
      <3>2. ~Create(u) /\ ~Close(u)
        BY <1>0, <3>1, StepShape DEF At
      <3>3. CASE Active # {} /\ work'[u].found = Max(Active)
        <4>1. Max(Active) \in Active
          BY <1>0, <3>3, MaxIsMember DEF Active
        <4> QED BY <2>1, <2>3, <3>2, <3>3, <4>1 DEF SessionsKnown
      <3>4. CASE work[u].pc = "exit" /\ work'[u].found = work[u].found
        BY <2>1, <2>3, <3>2, <3>4 DEF SessionsKnown
      <3> QED BY <3>1, <3>3, <3>4
    <2> QED BY <2>2, <2>4, <2>5, <2>6 DEF SessionsKnown, At
  <1>2. ASSUME NEW c \in Codes, Send(c) PROVE SessionsKnown'
    <2>0. /\ Only(sent + 1) /\ work'[sent + 1].pc \in {"readHistory", "done"}
          /\ overlapped \subseteq overlapped'
      BY <1>0, <1>2, SendFacts
    <2>1. /\ Only(sent + 1) /\ work'[sent + 1].pc \in {"readHistory", "done"}
          /\ overlapped = {} /\ UNCHANGED session
      BY <1>2, <2>0 DEF Send, api
    <2>2. Active' = Active
      BY <2>1 DEF Active
    <2> QED BY <2>1, <2>2 DEF SessionsKnown, Only, At
  <1>3. CASE DaemonStops \/ ApiStops
    <2>1. /\ UNCHANGED <<session, overlapped>>
          /\ \A v \in Uplinks : work'[v] = work[v] \/ work'[v].pc = "done"
      BY <1>0, <1>3, StopFacts DEF At
    <2>2. Active' = Active
      BY <2>1 DEF Active
    <2> QED BY <2>1, <2>2 DEF SessionsKnown, At
  <1>4. ASSUME NEW s \in Sessions, Pay(s) PROVE SessionsKnown'
    <2>1. Active' \subseteq Active /\ UNCHANGED <<work, overlapped>>
      BY <1>0, <1>4 DEF Pay, Active, TypeOK
    <2> QED BY <2>1 DEF SessionsKnown, At
  <1> QED BY <1>1, <1>2, <1>3, <1>4 DEF Next

\* Once the newest reading's request has written, the sessions follow it.
LEMMA NextSessionsFollow ==
  ASSUME IInv, FollowInv, Next
  PROVE  SessionsFollow'
  <1> SUFFICES ASSUME overlapped' = {}, NEW n \in Uplinks, Decisive(n)'
               PROVE  /\ Occupied(code'[n]) /\ work'[n].pc \in {"occupy", "entered", "report", "done"}
                         => Active' # {} \/ paidEarly' # {}
                      /\ ~Occupied(code'[n]) /\ work'[n].pc \in {"clear", "report", "done"}
                         => Active' = {}
    BY DEF SessionsFollow, Occupied
  <1> DEFINE Goal == /\ Occupied(code'[n]) /\ work'[n].pc \in {"occupy", "entered", "report", "done"}
                        => Active' # {} \/ paidEarly' # {}
                     /\ ~Occupied(code'[n]) /\ work'[n].pc \in {"clear", "report", "done"}
                        => Active' = {}
  <1>0. /\ TypeOK /\ Sessions = Uplinks /\ PlacesFit /\ SessionsRemember /\ SessionsKnown
        /\ SessionsFollow
    BY DEF IInv, Sessions, FollowInv
  <1>1. ASSUME NEW u \in Uplinks, Task(u) \/ Request(u) PROVE Goal
    <2>1. UNCHANGED code /\ overlapped = {}
      BY <1>0, <1>1, Sides
    <2>2. CASE work'[n].pc \in {"notify", "find"}
      BY <2>2
    <2>3. CASE Decisive(n) /\ work'[n] = work[n] /\ UNCHANGED <<session, paidEarly>>
      BY <1>0, <2>1, <2>3 DEF SessionsFollow, Active
    <2>4. CASE n = u /\ Request(u) /\ Decisive(n)
      <3>0. u \notin failed' /\ RequestFollowsCode(u) /\ UNCHANGED paidEarly
        BY <1>0, <2>4, Sides DEF Decisive, PlacesFit
      <3>1. /\ Create(u) => Active' = {u}
            /\ Close(u) => Active' = {}
            /\ ~Create(u) /\ ~Close(u) => Active' = Active
        BY <1>0, <1>1, <2>1, ActiveAfter
      <3>2. CASE Create(u)
        <4>1. work[u].pc = "create" /\ Occupied(code[u])
          BY <1>0, <3>0, <3>2, StepShape DEF At, RequestFollowsCode
        <4> QED BY <2>1, <2>4, <3>1, <3>2, <4>1
      <3>3. CASE Close(u)
        <4>1. work[u].pc = "close" /\ ~Occupied(code[u])
          BY <1>0, <3>0, <3>3, StepShape DEF At, RequestFollowsCode
        <4> QED BY <2>1, <2>4, <3>1, <3>3, <4>1
      <3>4. CASE Find(u)
        <4>1. Active' = Active
          BY <1>0, <3>1, <3>4, StepShape DEF At
        <4>2. /\ Occupied(code[u]) => work'[u].pc = IF Active = {} THEN "enter" ELSE "occupy"
              /\ ~Occupied(code[u]) => work'[u].pc = IF Active = {} THEN "clear" ELSE "exit"
          BY <1>0, <3>4, StepShape DEF At
        <4> QED BY <2>1, <2>4, <4>1, <4>2
      <3>5. CASE Enter(u) \/ Exit(u)
        <4>1. work'[u].pc \in {"create", "close"}
          BY <1>0, <3>0, <3>5, StepShape DEF At
        <4> QED BY <2>4, <4>1
      <3>6. CASE WriteSpace(u) \/ Entered(u) \/ Report(u)
        <4>1. /\ work[u].pc \in {"occupy", "clear", "entered", "report"}
              /\ ~Create(u) /\ ~Close(u)
          BY <1>0, <3>6, StepShape DEF At
        <4>2. Active' = Active
          BY <3>1, <4>1
        <4>3. /\ Occupied(code[u]) => work[u].pc # "clear"
              /\ ~Occupied(code[u]) => work[u].pc \in {"clear", "report"}
          BY <3>0, <4>1 DEF RequestFollowsCode
        <4> QED BY <1>0, <2>1, <2>4, <3>0, <4>1, <4>2, <4>3 DEF SessionsFollow
      <3> QED BY <2>4, <3>2, <3>3, <3>4, <3>5, <3>6 DEF Request
    <2> QED BY <1>0, <1>1, <2>2, <2>3, <2>4, DecisiveSteps
  <1>2. CASE (\E c \in Codes : Send(c)) \/ (\E s \in Sessions : Pay(s)) \/ DaemonStops \/ ApiStops
    <2>1. Decisive(n) /\ work'[n] = work[n] /\ code'[n] = code[n]
      BY <1>2, DecisiveStands
    <2>2. overlapped = {}
      BY <1>0, <1>2, BusyShrinks, SendFacts
    <2>3. CASE ~ \E s \in Sessions : Pay(s)
      <3>1. UNCHANGED <<session, paidEarly>>
        <4>1. CASE \E c \in Codes : Send(c)
          BY <4>1 DEF Send, api
        <4> QED BY <1>0, <1>2, <2>3, <4>1, StopFacts
      <3>2. Active' = Active
        BY <3>1 DEF Active
      <3> QED BY <1>0, <2>1, <2>2, <3>1, <3>2 DEF SessionsFollow
    <2>4. ASSUME NEW s \in Sessions, Pay(s) PROVE Goal
      <3>1. /\ Active' = Active \ {s}
            /\ paidEarly' = IF s \in exited THEN paidEarly ELSE paidEarly \cup {s}
        BY <1>0, <2>4 DEF Pay, Active, TypeOK
      <3>2. s \in Active => s \notin exited
        BY <1>0 DEF SessionsRemember, Active
      <3>3. Active # {} \/ paidEarly # {} => Active' # {} \/ paidEarly' # {}
        BY <3>1, <3>2
      <3> QED BY <1>0, <2>1, <2>2, <3>1, <3>3 DEF SessionsFollow
    <2> QED BY <2>3, <2>4
  <1> QED BY <1>1, <1>2 DEF Next

---------------------------------------------------------------------------
LEMMA InitIInv == Init => IInv
  BY InitTypeOK
  DEF Init, IInv, ExitHasSession, OneAtATime, HistoryWasSent, TaskKnows, StateOfNewest,
      RequestKnows, RequestFollowsCode, Busy, At, NoWork, DaemonSteps, ApiSteps

\* IInv holds at first and every step keeps it.
THEOREM SpecIInv == Spec => []IInv
  <1>1. IInv /\ [Next]_vars => IInv'
    <2> SUFFICES ASSUME IInv, [Next]_vars PROVE IInv'
      OBVIOUS
    <2>1. TypeOK'
      BY NextTypeOK DEF IInv
    <2>2. CASE Next
      BY <2>1, <2>2, NextExitHasSession, NextOneAtATime, NextHistoryWasSent, NextTaskKnows,
         NextRequestKnows
      DEF IInv
    <2>3. CASE UNCHANGED vars
      BY <2>1, <2>3
      DEF vars, IInv, ExitHasSession, OneAtATime, HistoryWasSent, TaskKnows, StateOfNewest,
          Newest, Since, RequestKnows, RequestFollowsCode, Busy, At
    <2> QED BY <2>2, <2>3
  <1> QED BY InitIInv, <1>1, PTL DEF Spec

\* Type correctness of the daemon's tables, the API's and the work under way.
THEOREM SpecTypeOK == Spec => []TypeOK
  <1>1. IInv => TypeOK
    BY DEF IInv
  <1> QED BY SpecIInv, <1>1, PTL

\* However many readings come and whatever the API does with them, parking_state
\* and parking_sensor_data agree between readings that came one at a time, unless
\* insert_parking_sensor ended half-way.
THEOREM SpecStateAgreesWithHistory == Spec => []StateAgreesWithHistory
  <1>1. IInv => StateAgreesWithHistory
    BY DEF IInv, TaskKnows, StateOfNewest, StateAgreesWithHistory, Busy, At
  <1> QED BY SpecIInv, <1>1, PTL

\* However many readings come, and whatever is lost on the way to the API, the
\* cloud has been told what the space shows, unless requests ran side by side or
\* one of them failed.
THEOREM SpecCloudIsTold == Spec => []CloudIsTold
  <1>1. IInv => CloudIsTold
    BY DEF IInv, RequestKnows, CloudIsTold, Busy
  <1> QED BY SpecIInv, <1>1, PTL

\* What FollowInv says holds at first, and every step keeps it.
THEOREM SpecFollowInv == Spec => []FollowInv
  <1>1. Init => FollowInv
    BY DEF Init, FollowInv, PlacesFit, SpaceKnown, SessionsRemember, SessionsKnown, SessionsFollow,
           Decisive, Active, RequestFollowsCode, Busy, At, NoWork, DaemonSteps, ApiSteps, Sessions
  <1>2. IInv /\ FollowInv /\ [Next]_vars => FollowInv'
    <2> SUFFICES ASSUME IInv, FollowInv, [Next]_vars PROVE FollowInv'
      OBVIOUS
    <2>1. PlacesFit /\ SpaceKnown /\ SessionsRemember /\ SessionsKnown
      BY DEF FollowInv
    <2>2. CASE Next
      <3>1. PlacesFit' /\ SpaceKnown' /\ SessionsRemember' /\ SessionsKnown'
        BY <2>1, <2>2, NextPlacesFit, NextSpaceKnown, NextSessionsRemember, NextSessionsKnown
      <3> QED BY <2>2, <3>1, NextSessionsFollow DEF FollowInv
    <2>3. CASE UNCHANGED vars
      BY <2>3 DEF vars, FollowInv, PlacesFit, SpaceKnown, SessionsRemember, SessionsKnown,
                  SessionsFollow, Decisive, Active, RequestFollowsCode, Busy, At
    <2> QED BY <2>2, <2>3
  <1> QED BY <1>1, <1>2, SpecIInv, PTL DEF Spec

\* A newest reading worked on to its end is decisive.
LEMMA HandledIsDecisive ==
  ASSUME IInv, FollowInv, NewestHandled, code[Newest] # "Unknown"
  PROVE  Newest \in Uplinks /\ Decisive(Newest) /\ work[Newest].pc = "done"
  <1>1. history \in SUBSET Uplinks /\ history # {} /\ Busy = {}
    BY DEF IInv, TypeOK, NewestHandled
  <1>2. Newest \in history /\ \A h \in history : h <= Newest
    BY <1>1, MaxIsMember DEF Newest
  <1>3. Decisive(Newest)
    BY <1>2 DEF Decisive, NewestHandled
  <1>4. work[Newest].pc = "done"
    BY <1>1, <1>2 DEF FollowInv, PlacesFit, Busy, ApiSteps
  <1> QED BY <1>1, <1>2, <1>3, <1>4

\* Whatever was lost, failed or overlapped before it, the newest recorded reading
\* decides what the space shows, if it was worked on alone and to its end.
THEOREM SpecSpaceFollowsSensor == Spec => []SpaceFollowsSensor
  <1>1. IInv /\ FollowInv => SpaceFollowsSensor
    BY HandledIsDecisive DEF SpaceFollowsSensor, FollowInv, SpaceKnown
  <1> QED BY <1>1, SpecIInv, SpecFollowInv, PTL

\* Readings that come one at a time leave at most one session ACTIVE: none after one
\* that says empty, and one after one that says occupied unless it was paid early.
THEOREM SpecSessionsFollowSensor == Spec => []SessionsFollowSensor
  <1>1. IInv /\ FollowInv => SessionsFollowSensor
    <2> SUFFICES ASSUME IInv, FollowInv, NewestHandled, overlapped = {}, code[Newest] # "Unknown"
                 PROVE  IF Occupied(code[Newest])
                        THEN Cardinality(Active) <= 1 /\ (Active = {} => paidEarly # {})
                        ELSE Active = {}
      BY DEF SessionsFollowSensor
    <2>1. Newest \in Uplinks /\ Decisive(Newest) /\ work[Newest].pc = "done"
      BY HandledIsDecisive
    <2>2. Occupied(code[Newest]) => (Active = {} => paidEarly # {})
      BY <2>1 DEF FollowInv, SessionsFollow
    <2>3. ~Occupied(code[Newest]) => Active = {}
      BY <2>1 DEF FollowInv, SessionsFollow
    <2>4. Active = {} \/ \E s : Active = {s}
      BY DEF FollowInv, SessionsKnown
    <2>5. Cardinality(Active) = 0 \/ Cardinality(Active) = 1
      BY <2>4, FS_EmptySet, FS_Singleton, Zenon
    <2>6. Cardinality(Active) <= 1
      BY <2>5
    <2> QED BY <2>2, <2>3, <2>6
  <1> QED BY <1>1, SpecIInv, SpecFollowInv, PTL
=============================================================================
