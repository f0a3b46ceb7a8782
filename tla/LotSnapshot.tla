----------------------------- MODULE LotSnapshot -----------------------------
(***************************************************************************)
(* The configuration of a parking lot, kept on the cloud and copied to the *)
(* edge.  Every change an administrator makes ends with a snapshot of the  *)
(* whole lot, published in the transaction of the change; the edge's pull  *)
(* worker applies the snapshots oldest first and acknowledges each.        *)
(*                                                                         *)
(* A space stands for whatever a snapshot lists with an id and a unique    *)
(* code (sections, spaces, fee policies, discount programs: they are       *)
(* matched alike); one sensor is assigned to a space, and mode stands for  *)
(* the columns of the lot's own row.  Ids are given in the order of        *)
(* creation, which is the order a snapshot lists its spaces in.  The lot   *)
(* came from the edge, so its first spaces have the same ids and codes on  *)
(* both sides.                                                             *)
(***************************************************************************)
EXTENDS Naturals, FiniteSets, Sequences, Functions

CONSTANTS
  Admins,           \* transactions of administrators, one at a time each
  Codes, Modes,
  AtFirst,          \* the codes of the first spaces, a sequence
  MaxSpaces,        \* bound on the ids of spaces
  MaxChanges,       \* bound on the changes made
  MaxLotFaults,     \* bound on faults
  Nothing

ASSUME CodesAssumption ==
  /\ AtFirst \in Seq(Codes)
  /\ IsInjective(AtFirst)
  /\ Len(AtFirst) \in 1..MaxSpaces
ASSUME ModesAssumption == Modes # {}
ASSUME BoundsAssumption == {MaxSpaces, MaxChanges, MaxLotFaults} \subseteq Nat
ASSUME NothingAssumption == Nothing \notin Codes \cup Modes

VARIABLES
  lot,              \* cloud: the committed configuration
  made,             \* cloud: how many spaces were ever created
  change,           \* cloud: the statement an open transaction has made, or Nothing
  message,          \* cloud: the snapshot an open transaction has written, or 0
  sent,             \* cloud: the snapshots in creation order, with their rows
  applying,         \* edge worker: "idle", "apply", "spaces" or "ack"
  listed,           \* edge worker: what is left of the pulled list
  snapshot,         \* edge worker: the snapshot it is at, or 0
  rows,             \* edge: the code of every space row, Nothing where there is none
  active,           \* edge: the rows with isActive
  edgeSensor,       \* edge: the row the sensor is assigned to, or 0
  edgeMode,         \* edge: the columns of the lot's row
  lotFaults,        \* how many faults have happened
  retired,          \* history: codes of spaces the cloud has removed
  slips             \* history: what has happened that may part the two sides

cloudLot   == <<lot, made, change, message, sent>>
lotWorker  == <<applying, listed, snapshot>>
edgeLot    == <<rows, active, edgeSensor, edgeMode>>
lotHistory == <<retired, slips>>
lotVars    == <<lot, made, change, message, sent, applying, listed, snapshot, rows,
                active, edgeSensor, edgeMode, lotFaults, retired, slips>>

Spaces == 1..MaxSpaces

\* The codes of a lot's spaces, Nothing where there is no such space.
Lot == [codes : [Spaces -> Codes \cup {Nothing}], sensor : {0} \cup Spaces, mode : Modes]

\* PARKING_LOT_OPERATION_SNAPSHOT_FROM_CLOUD and its outbox row; "open" until
\* the transaction that wrote the two commits.
Snapshots == [lot : Lot, status : {"open", "PENDING", "ACKED"}]

\* overlapped: a snapshot was written beside another that was not committed.
\* passed: a run went on to a younger snapshot after one it had to give up.
\* untold: the cloud's lot was written without a snapshot.
\* reused: a space was given the code of a removed one.
Slips == {"overlapped", "passed", "untold", "reused"}

Change ==
       [kind : {"add", "rename"}, space : Spaces, code : Codes]
  \cup [kind : {"remove"}, space : Spaces]
  \cup [kind : {"assign"}, space : {0} \cup Spaces]
  \cup [kind : {"mode"}, mode : Modes]

LotTypeOK ==
  /\ lot \in Lot
  /\ made \in Spaces
  /\ change \in [Admins -> Change \cup {Nothing}]
  /\ message \in [Admins -> 0..Len(sent)]
  /\ sent \in Seq(Snapshots)
  /\ applying \in {"idle", "apply", "spaces", "ack"}
  /\ listed \subseteq DOMAIN sent
  /\ snapshot \in 0..Len(sent)
  /\ rows \in [Spaces -> Codes \cup {Nothing}]
  /\ active \in SUBSET {r \in Spaces : rows[r] # Nothing}
  /\ edgeSensor \in {0} \cup Spaces
  /\ edgeMode \in Modes
  /\ lotFaults \in 0..MaxLotFaults
  /\ retired \in SUBSET Codes
  /\ slips \in SUBSET Slips

FirstMode == CHOOSE m \in Modes : TRUE

\* The codes with those of the first spaces written over them.
FirstOver(codes) ==
  [s \in Spaces |-> IF s \in DOMAIN AtFirst THEN AtFirst[s] ELSE codes[s]]

FirstLot ==
  [codes |-> FirstOver([s \in Spaces |-> Nothing]), sensor |-> 0, mode |-> FirstMode]

LotInit ==
  /\ lot = FirstLot
  /\ made = Len(AtFirst)
  /\ change = [t \in Admins |-> Nothing]
  /\ message = [t \in Admins |-> 0]
  /\ sent = << >>
  /\ applying = "idle"
  /\ listed = {}
  /\ snapshot = 0
  /\ rows = FirstLot.codes
  /\ active = DOMAIN AtFirst
  /\ edgeSensor = 0
  /\ edgeMode = FirstMode
  /\ lotFaults = 0
  /\ retired = {}
  /\ slips = {}

LotFault == lotFaults < MaxLotFaults /\ lotFaults' = lotFaults + 1

---------------------------------------------------------------------------
(* Changes on the cloud.                                                   *)

Ids(l) == {s \in Spaces : l.codes[s] # Nothing}
Held(l) == {l.codes[s] : s \in Ids(l)}
CodeOf(l, s) == l.codes[s]

\* The lot with the change's statements carried out.
After(c, l) ==
  CASE c.kind \in {"add", "rename"} -> [l EXCEPT !.codes[c.space] = c.code]
    [] c.kind = "remove" -> [l EXCEPT !.codes[c.space] = Nothing,
                                      !.sensor = IF @ = c.space THEN 0 ELSE @]
    [] c.kind = "assign" -> [l EXCEPT !.sensor = c.space]
    [] c.kind = "mode"   -> [l EXCEPT !.mode = c.mode]

\* The changes that may be asked for; codes are unique in a section.
Possible(l) ==
       [kind : {"add"}, space : {made + 1} \cap Spaces, code : Codes \ Held(l)]
  \cup [kind : {"rename"}, space : Ids(l), code : Codes \ Held(l)]
  \cup [kind : {"remove"}, space : Ids(l)]
  \cup [kind : {"assign"}, space : ({0} \cup Ids(l)) \ {l.sensor}]
  \cup [kind : {"mode"}, mode : Modes \ {l.mode}]

\* The rows and unique keys a change's statements lock until the commit.
Locks(c) ==
  CASE c.kind = "add"    -> {<<"code", c.code>>}
    [] c.kind = "rename" -> {<<"space", c.space>>, <<"code", c.code>>,
                             <<"code", CodeOf(lot, c.space)>>}
    [] c.kind = "remove" -> {<<"space", c.space>>, <<"code", CodeOf(lot, c.space)>>}
                            \cup {<<"sensor", 0>> : s \in {lot.sensor} \cap {c.space}}
    [] c.kind = "assign" -> {<<"sensor", 0>>, <<"space", c.space>>}
    [] c.kind = "mode"   -> {<<"lot", 0>>}

Open == {t \in Admins : change[t] # Nothing}
Locked == UNION {Locks(change[t]) : t \in Open}

\* The first statements of a transaction: one that would touch what another
\* has locked waits.
MakeChange(t) ==
  /\ change[t] = Nothing
  /\ Len(sent) + Cardinality({u \in Open : message[u] = 0}) < MaxChanges
  /\ \E c \in Possible(lot) :
       /\ Locks(c) \cap Locked = {}
       /\ change' = [change EXCEPT ![t] = c]
       /\ made' = IF c.kind = "add" THEN c.space ELSE made
       /\ slips' = IF c.kind \in {"add", "rename"} /\ c.code \in retired
                   THEN slips \cup {"reused"} ELSE slips
  /\ UNCHANGED <<lot, message, sent, lotWorker, edgeLot, lotFaults, retired>>

\* Slip, for the mutation runs: the lot is read outside the transaction.
PublishWithoutChange(t) ==
  /\ change[t] # Nothing
  /\ message[t] = 0
  /\ sent' = Append(sent, [lot |-> lot, status |-> "open"])
  /\ message' = [message EXCEPT ![t] = Len(sent) + 1]
  /\ slips' = slips
  /\ UNCHANGED <<lot, made, change, lotWorker, edgeLot, lotFaults, retired>>

\* enqueueParkingLotOperationSnapshotSync: what is committed and what the
\* transaction itself has written, never what another has open.  Its queries
\* and its inserts are one step: only of another snapshot written meanwhile
\* could they see a part, and such snapshots are told apart by "overlapped".
Publish(t) ==
  /\ change[t] # Nothing
  /\ message[t] = 0
  /\ sent' = Append(sent, [lot |-> After(change[t], lot), status |-> "open"])
  /\ message' = [message EXCEPT ![t] = Len(sent) + 1]
  /\ slips' = IF \E u \in Admins : message[u] # 0
              THEN slips \cup {"overlapped"} ELSE slips
  /\ UNCHANGED <<lot, made, change, lotWorker, edgeLot, lotFaults, retired>>

\* The change and its message become visible together.
Commit(t) ==
  /\ message[t] # 0
  /\ lot' = After(change[t], lot)
  /\ sent' = [sent EXCEPT ![message[t]].status = "PENDING"]
  /\ retired' = IF change[t].kind = "remove"
                THEN retired \cup {CodeOf(lot, change[t].space)} ELSE retired
  /\ change' = [change EXCEPT ![t] = Nothing]
  /\ message' = [message EXCEPT ![t] = 0]
  /\ UNCHANGED <<made, lotWorker, edgeLot, lotFaults, slips>>

\* The items of PARKING_LOT_CREATED are written in turn, each by its id: a code
\* that a later space still holds throws.
Restorable(l) == \A s \in DOMAIN AtFirst, q \in Ids(l) : q > s => l.codes[q] # AtFirst[s]

\* The edge's message about the lot's creation is carried out once more, as its
\* first handling stopped before it was marked: the lot is written over with
\* what it was at first, and no snapshot tells the edge.
Recreated ==
  /\ LotFault
  /\ Locked \cap (({"space"} \X DOMAIN AtFirst) \cup ({"code"} \X Codes)
                \cup {<<"lot", 0>>}) = {}
  /\ Restorable(lot)
  /\ lot' = [lot EXCEPT !.codes = FirstOver(@), !.mode = FirstMode]
  /\ lot' # lot
  /\ slips' = slips \cup {"untold"}
  /\ UNCHANGED <<made, change, message, sent, lotWorker, edgeLot, retired>>

---------------------------------------------------------------------------
(* The edge: the pull worker and the two transactions of an apply.         *)

Pending == {i \in DOMAIN sent : sent[i].status = "PENDING"}

Oldest(S) == {i \in S : \A j \in S : i <= j}

StartLotRun ==
  /\ applying = "idle"
  /\ Pending # {}
  /\ applying' = "apply"
  /\ listed' = Pending
  /\ UNCHANGED <<cloudLot, snapshot, edgeLot, lotFaults, lotHistory>>

\* applyParkingLotConfigurationFromCloud commits the lot's own row.
ApplyLot ==
  /\ applying = "apply"
  /\ \E i \in Oldest(listed) :
       /\ snapshot' = i
       /\ listed' = listed \ {i}
       /\ edgeMode' = sent[i].lot.mode
  /\ applying' = "spaces"
  /\ UNCHANGED <<cloudLot, rows, active, edgeSensor, lotFaults, lotHistory>>

\* Slip, for the mutation runs: a space is looked up by its code alone.
UpsertByCode(e, s, c) ==
  LET found == {r \in Spaces : e.rows[r] = c}
      at    == IF found = {} THEN {s} ELSE found
  IN  {[rows    |-> [e.rows EXCEPT ![r] = c],
        kept    |-> [e.kept EXCEPT ![s] = r],
        refused |-> e.refused \/ (found = {} /\ e.rows[r] # Nothing)] : r \in at}

\* One space of a snapshot: findFirst returns any row with its id or its code,
\* which takes the code; without one a row is created.  A code that another
\* row holds breaks the unique key and with it the transaction.
Upsert(e, s, c) ==
  LET found == {r \in Spaces : e.rows[r] # Nothing /\ (r = s \/ e.rows[r] = c)}
      at    == IF found = {} THEN {s} ELSE found
  IN  {[rows    |-> [e.rows EXCEPT ![r] = c],
        kept    |-> [e.kept EXCEPT ![s] = r],
        refused |-> e.refused \/ \E q \in Spaces \ {r} : e.rows[q] = c] : r \in at}

\* Where the transaction begins: kept will be the map of the snapshot's ids to
\* the rows they are saved in.
Begun == [rows |-> rows, kept |-> [s \in Spaces |-> 0], refused |-> FALSE]

\* What the n-th space of l makes of the outcomes es of those before it.
OneSpace(l, es, n) ==
  IF n \in Ids(l) THEN UNION {Upsert(e, n, l.codes[n]) : e \in es} ELSE es

\* What may become of the edge's rows by the spaces of l, oldest first.
Outcomes(l) ==
  LET upTo[n \in 0..MaxSpaces] ==
        IF n = 0 THEN {Begun} ELSE OneSpace(l, upTo[n - 1], n)
  IN  upTo[MaxSpaces]

\* Slip, for the mutation runs: rows the snapshot lacks stay active.
ApplySpacesOnTop ==
  /\ applying = "spaces"
  /\ LET l == sent[snapshot].lot
     IN  \E e \in Outcomes(l) :
           /\ ~e.refused
           /\ rows' = e.rows
           /\ active' = active \cup {e.kept[s] : s \in Ids(l)}
           /\ edgeSensor' = IF l.sensor = 0 THEN 0 ELSE e.kept[l.sensor]
  /\ applying' = "ack"
  /\ UNCHANGED <<cloudLot, listed, snapshot, edgeMode, lotFaults, lotHistory>>

\* applyParkingLotOperationSnapshotFromCloud: rows the snapshot does not lead
\* to are deactivated, never deleted; the sensor follows the map.
ApplySpaces ==
  /\ applying = "spaces"
  /\ LET l == sent[snapshot].lot
     IN  \E e \in Outcomes(l) :
           /\ ~e.refused
           /\ rows' = e.rows
           /\ active' = {e.kept[s] : s \in Ids(l)}
           /\ edgeSensor' = IF l.sensor = 0 THEN 0 ELSE e.kept[l.sensor]
  /\ applying' = "ack"
  /\ UNCHANGED <<cloudLot, listed, snapshot, edgeMode, lotFaults, lotHistory>>

Ack ==
  /\ applying = "ack"
  /\ sent' = [sent EXCEPT ![snapshot].status = "ACKED"]
  /\ applying' = "apply"
  /\ snapshot' = 0
  /\ UNCHANGED <<lot, made, change, message, listed, edgeLot, lotFaults, lotHistory>>

\* The error is logged and the run goes on with the next snapshot.
GiveUp ==
  /\ applying' = "apply"
  /\ snapshot' = 0
  /\ slips' = IF listed = {} THEN slips ELSE slips \cup {"passed"}
  /\ UNCHANGED <<cloudLot, listed, edgeLot, retired>>

Refused ==
  /\ applying = "spaces"
  /\ \E e \in Outcomes(sent[snapshot].lot) : e.refused
  /\ GiveUp
  /\ UNCHANGED lotFaults

\* A transaction fails, or the request with the ack is lost.
Fails ==
  /\ applying \in {"spaces", "ack"}
  /\ GiveUp
  /\ LotFault

EndLotRun ==
  /\ applying = "apply"
  /\ listed = {}
  /\ applying' = "idle"
  /\ UNCHANGED <<cloudLot, listed, snapshot, edgeLot, lotFaults, lotHistory>>

LotEdgeRestart ==
  /\ applying # "idle"
  /\ applying' = "idle"
  /\ listed' = {}
  /\ snapshot' = 0
  /\ LotFault
  /\ UNCHANGED <<cloudLot, edgeLot, lotHistory>>

---------------------------------------------------------------------------
LotNext ==
  \/ \E t \in Admins : MakeChange(t) \/ Publish(t) \/ Commit(t)
  \/ Recreated
  \/ StartLotRun \/ ApplyLot \/ ApplySpaces \/ Refused \/ Ack \/ EndLotRun
  \/ Fails \/ LotEdgeRestart

\* A transaction that has begun comes to its end; the interval timer starts the
\* runs and a run goes on.
LotFairness ==
  /\ \A t \in Admins : WF_lotVars(Publish(t)) /\ WF_lotVars(Commit(t))
  /\ WF_lotVars(StartLotRun)
  /\ WF_lotVars(ApplyLot)
  /\ WF_lotVars(ApplySpaces \/ Refused)
  /\ WF_lotVars(Ack)
  /\ WF_lotVars(EndLotRun)

LotSpec == LotInit /\ [][LotNext]_lotVars /\ LotFairness

---------------------------------------------------------------------------
(* Properties.                                                             *)

\* Nothing is open on the cloud and every snapshot is acknowledged.
Quiet == Open = {} /\ \A i \in DOMAIN sent : sent[i].status = "ACKED"

\* No snapshot was written beside another, none was passed by a younger one, and
\* the cloud's lot was not written without one.
InOrder == slips \cap {"overlapped", "passed", "untold"} = {}

RunsOn(l) ==
  /\ edgeMode = l.mode
  /\ {rows[r] : r \in active} \subseteq Held(l)
  /\ IF l.sensor = 0 THEN edgeSensor = 0 ELSE edgeSensor \in active

SameSpaces(l) ==
  /\ active = Ids(l)
  /\ \A s \in active : rows[s] = CodeOf(l, s)
  /\ edgeSensor = l.sensor

\* Once every snapshot is acknowledged the edge runs the lot the cloud shows:
\* its row, no code that is not a space's, and a sensor where there is one.
\* Snapshots carry no version that is compared, so this needs that they came in
\* order.  The edge may run on fewer codes than the cloud: where the code of a
\* removed space was used again, a snapshot can lead two of its spaces to one
\* row.
ConfigurationAgrees == Quiet /\ InOrder => RunsOn(lot)

\* A space has one id on both sides, which the edge's messages are about: the
\* edge's active rows and its sensor's row are the cloud's own.  Rows are never
\* deleted on the edge, so this needs that no code of a removed space is given
\* to another.
IdsAgree == Quiet /\ slips = {} => SameSpaces(lot)

\* A snapshot is acknowledged in the end, errors and restarts
\* notwithstanding, unless it meets an edge whose rows are not the cloud's:
\* there its codes may be refused, and are refused again in every run.
SnapshotsLeave ==
  \A i \in 1..MaxChanges :
    (i \in Pending) ~> (i \in DOMAIN sent \ Pending \/ slips # {})

---------------------------------------------------------------------------
(* The inductive invariant of the proofs.                                  *)

LotAt(i) == IF i = 0 THEN FirstLot ELSE sent[i].lot

\* A lot's codes are distinct, and the next lot gives a space no code that was
\* another's.
Follows(l1, l2) ==
  \A s \in Ids(l2), q \in Ids(l1) : q # s => l1.codes[q] # l2.codes[s]

Sound(l) == Follows(l, l) /\ l.sensor \in {0} \cup Ids(l)

\* What open changes are about is there, each has its own, and the codes they
\* give are free.
ChangesHold ==
  /\ \A t \in Open :
       /\ change[t].kind \in {"rename", "remove"} => change[t].space \in Ids(lot)
       /\ change[t].kind = "assign" => change[t].space \in {0} \cup Ids(lot)
       /\ change[t].kind \in {"add", "rename"} => change[t].code \notin Held(lot)
  /\ \A t, u \in Open : t # u =>
       /\ {change[t].kind, change[u].kind} \subseteq {"rename", "remove", "assign"} =>
            change[t].space # change[u].space
       /\ {change[t].kind, change[u].kind} \subseteq {"add", "rename"} =>
            change[t].code # change[u].code

LotsAreSound == Sound(lot) /\ \A i \in DOMAIN sent : Sound(sent[i].lot)

\* A snapshot is open while its transaction is, and is of one transaction.
MessagesAreOpen ==
  /\ \A t \in Admins : message[t] # 0 =>
       t \in Open /\ message[t] \in DOMAIN sent /\ sent[message[t]].status = "open"
  /\ \A t, u \in Admins : message[t] # 0 /\ message[t] = message[u] => t = u
  /\ \A i \in DOMAIN sent : sent[i].status = "open" => \E t \in Admins : message[t] = i

\* The worker is about rows that are pending.
WorkIsPending ==
  /\ listed \subseteq Pending
  /\ applying = "idle" => listed = {}
  /\ IF applying \in {"spaces", "ack"} THEN snapshot \in Pending \ listed ELSE snapshot = 0

\* The last snapshot is the only one that may be open, and has the lot as it is
\* or will be with the change committed.
LastIsLot ==
  /\ \A t \in Admins : message[t] # 0 =>
       /\ message[t] = Len(sent)
       /\ lot = LotAt(Len(sent) - 1)
       /\ sent[Len(sent)].lot = After(change[t], lot)
  /\ \A t, u \in Admins : message[t] # 0 /\ message[u] # 0 => t = u
  /\ (\A t \in Admins : message[t] = 0) => lot = LotAt(Len(sent))

LotsFollow == \A i \in DOMAIN sent : Follows(LotAt(i - 1), LotAt(i))

AckedInOrder ==
  \A i, j \in DOMAIN sent : i < j /\ sent[j].status = "ACKED" => sent[i].status = "ACKED"

\* What a run leaves behind it is acknowledged.
RunInOrder ==
  /\ \A j \in DOMAIN sent : j < snapshot => sent[j].status = "ACKED"
  /\ \A i \in listed, j \in DOMAIN sent :
       j < i => j \in listed \cup {snapshot} \/ sent[j].status = "ACKED"

AllAcked == \A i \in DOMAIN sent : sent[i].status = "ACKED"

\* The edge runs on the snapshot it is about to acknowledge, and on the last
\* when all are.
EdgeRunsOn ==
  /\ applying = "spaces" => edgeMode = sent[snapshot].lot.mode
  /\ applying = "ack" => RunsOn(sent[snapshot].lot)
  /\ AllAcked => RunsOn(LotAt(Len(sent)))

ChannelInOrder ==
  InOrder => LastIsLot /\ LotsFollow /\ AckedInOrder /\ RunInOrder /\ EdgeRunsOn

\* The codes of the spaces the i-th change removed.
Gone(i) == {LotAt(i - 1).codes[s] : s \in Ids(LotAt(i - 1)) \ Ids(LotAt(i))}

\* Codes of removed spaces are recorded, and are neither held nor given again.
GoneStaysGone ==
  /\ retired \cap Held(lot) = {}
  /\ \A t \in Open : change[t].kind \in {"add", "rename"} => change[t].code \notin retired
  /\ \A i \in DOMAIN sent : sent[i].status # "open" => Gone(i) \subseteq retired
  /\ \A i, j \in DOMAIN sent : i <= j => Gone(i) \cap Held(LotAt(j)) = {}

\* The edge's rows are those of the k-th lot, and of spaces that are gone.
RowsOf(k) ==
  \A s \in Spaces :
    IF s \in Ids(LotAt(k)) THEN rows[s] = LotAt(k).codes[s]
    ELSE rows[s] = Nothing \/ \E i \in 1..k : rows[s] \in Gone(i)

AckedUpTo(k) ==
  \A j \in DOMAIN sent : /\ j < k => sent[j].status = "ACKED"
                         /\ j > k => sent[j].status # "ACKED"

\* The edge is at the last snapshot it has acknowledged, or at the next.
EdgeHasSpaces ==
  /\ \E k \in 0..Len(sent) : RowsOf(k) /\ AckedUpTo(k)
  /\ applying = "ack" => RowsOf(snapshot) /\ SameSpaces(sent[snapshot].lot)
  /\ AllAcked => SameSpaces(LotAt(Len(sent)))

SpacesInOrder == slips = {} => GoneStaysGone /\ EdgeHasSpaces

LotIInv ==
  /\ LotTypeOK /\ ChangesHold /\ LotsAreSound /\ MessagesAreOpen /\ WorkIsPending
  /\ ChannelInOrder /\ SpacesInOrder
=============================================================================
