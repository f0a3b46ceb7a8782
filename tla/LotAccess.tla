------------------------------ MODULE LotAccess ------------------------------
(***************************************************************************)
(* A manager asks for access to a parking lot.  The request may be made on *)
(* the lot's edge node or on the cloud, each with a database of its own.   *)
(* One made on the edge is pushed to the cloud, where an administrator     *)
(* reviews it; the verdict is pulled back by the edge.  ApprovalService    *)
(* holds what a site does on its own, SyncService the two handlers that    *)
(* carry a request up and a verdict down.                                  *)
(*                                                                         *)
(* One manager and one lot.  The channels are those of EdgeCloudPush and   *)
(* EdgeSyncPull, reduced to what the requests can tell: a push in flight   *)
(* at a time, handlers that outlive their caller, an inbox; single-flight  *)
(* pulls in the order of the rows, whose acknowledgement may be lost.      *)
(***************************************************************************)
EXTENDS Naturals, FiniteSets, Sequences

CONSTANTS
  MaxRequests,      \* bound on the requests made, on both sites together
  Slots,            \* calls that may be under way at once, people's and handlers'
  MaxAccessFaults   \* bound on lost answers, stopped calls and restarts

ASSUME SlotsAssumption == IsFiniteSet(Slots)
ASSUME BoundAssumption == MaxRequests \in Nat /\ MaxAccessFaults \in Nat

Requests  == 1 .. MaxRequests
Sites     == {"EDGE", "CLOUD"}
Verdicts  == {"APPROVED", "REJECTED"}
NoRequest == 0

VARIABLES
  status,           \* each site: ApprovalRequest.status, NONE when it has no row
  granted,          \* sites with the manager's row in ManagerParkingLot
  link,             \* cloud: requestData.edgeApprovalRequestId of a row, or NoRequest
  outbox,           \* edge: outbox row of the request's event
  inbox,            \* cloud: requests whose event is PROCESSED
  answers,          \* cloud: the rows of its outbox for this edge, oldest first
  acked,            \* cloud: which of them are ACKED, by position
  run,              \* edge pull worker: the positions it has still to apply
  ackDue,           \* edge pull worker: the position it applied last, or NoRequest
  task,             \* what is under way in each slot
  accessFaults,
  overruled,        \* history: requests decided one way, then the other
  replaced,         \* history: edge requests whose link was overwritten
  late              \* history: cloud rows linked when they were decided already

requestRows   == <<status, granted, link>>
channels      == <<outbox, inbox, answers, acked>>
puller        == <<run, ackDue>>
accessHistory == <<overruled, replaced, late>>
accessVars    == <<status, granted, link, outbox, inbox, answers, acked, run, ackDue,
                   task, accessFaults, overruled, replaced, late>>

Tasks ==
  [step : {"idle"}]
    \cup [step : {"look"}, site : Sites, old : BOOLEAN]
    \cup [step : {"ask"}, site : Sites, old : BOOLEAN,
          found : Requests \cup {NoRequest}]
    \cup [step : {"duplicate", "finish"}, of : Requests, called : BOOLEAN]
    \cup [step : {"write"}, of : Requests, called : BOOLEAN,
          found : Requests \cup {NoRequest}]
    \cup [step : {"review"}, site : Sites, of : Requests,
          seen : Verdicts \cup {"PENDING"}, to : Requests \cup {NoRequest}]

Idle == [step |-> "idle"]

\* The event of a review: the row, its verdict and the edge request it is for.
Reviews == [of : Requests, verdict : Verdicts, to : Requests]

AccessTypeOK ==
  /\ status \in [Sites -> [Requests -> Verdicts \cup {"NONE", "PENDING"}]]
  /\ granted \subseteq Sites
  /\ link \in [Requests -> Requests \cup {NoRequest}]
  /\ outbox \in [Requests -> {"NONE", "PENDING", "ACKED"}]
  /\ inbox \subseteq Requests
  /\ answers \in Seq(Reviews)
  /\ acked \subseteq DOMAIN answers
  /\ run \subseteq DOMAIN answers
  /\ ackDue \in DOMAIN answers \cup {NoRequest}
  /\ task \in [Slots -> Tasks]
  /\ accessFaults \in 0 .. MaxAccessFaults
  /\ overruled \subseteq Sites \X Requests
  /\ replaced \subseteq Requests
  /\ late \subseteq Requests

AccessInit ==
  /\ status = [site \in Sites |-> [r \in Requests |-> "NONE"]]
  /\ granted = {}
  /\ link = [r \in Requests |-> NoRequest]
  /\ outbox = [r \in Requests |-> "NONE"]
  /\ inbox = {}
  /\ answers = << >>
  /\ acked = {}
  /\ run = {}
  /\ ackDue = NoRequest
  /\ task = [s \in Slots |-> Idle]
  /\ accessFaults = 0
  /\ overruled = {}
  /\ replaced = {}
  /\ late = {}

AccessFault == accessFaults < MaxAccessFaults /\ accessFaults' = accessFaults + 1

Free(s) == task[s].step = "idle"

Becomes(s, t) == task' = [task EXCEPT ![s] = t]

PendingAt(site) == {r \in Requests : status[site][r] = "PENDING"}

DecidedAt(site) == {r \in Requests : status[site][r] \in Verdicts}

\* approvalRequest.findFirst without an order: any of them, or none.
AnyOf(S) == IF S = {} THEN {NoRequest} ELSE S

---------------------------------------------------------------------------
(* Asking: createManagerLotAccessRequest and, where `old`, the route it    *)
(* replaced, createParkingLotRequest, which makes no event for the cloud;  *)
(* on the cloud the two do the same.                                       *)

Made == {r \in Requests : \E site \in Sites : status[site][r] # "NONE"}

Asking == {s \in Slots : task[s].step \in {"look", "ask"}}

\* A manager who has the lot gets no further.
Ask(s, site, old) ==
  /\ Free(s)
  /\ Cardinality(Made) + Cardinality(Asking) < MaxRequests
  /\ site \notin granted
  /\ Becomes(s, [step |-> "look", site |-> site, old |-> old])
  /\ UNCHANGED <<requestRows, channels, puller, accessFaults, accessHistory>>

\* The look for a PENDING request.  The old route refuses a second one; on the
\* cloud the other has nothing left to do either.
Look(s) ==
  LET t == task[s] IN
  /\ t.step = "look"
  /\ \E r \in AnyOf(PendingAt(t.site)) :
       Becomes(s, IF r # NoRequest /\ (t.old \/ t.site = "CLOUD")
                  THEN Idle
                  ELSE [step |-> "ask", site |-> t.site, old |-> t.old, found |-> r])
  /\ UNCHANGED <<requestRows, channels, puller, accessFaults, accessHistory>>

\* The transaction: the row found or a new one, whose id no site has used, and
\* on the edge, by ensureManagerLotAccessEdgeSync, its event and outbox row.
MakeRequest(s) ==
  LET t == task[s]
      r == IF t.found = NoRequest THEN Cardinality(Made) + 1 ELSE t.found
  IN
  /\ t.step = "ask"
  /\ status' = IF t.found = NoRequest
               THEN [status EXCEPT ![t.site][r] = "PENDING"]
               ELSE status
  /\ outbox' = IF t.site = "EDGE" /\ ~t.old /\ outbox[r] = "NONE"
               THEN [outbox EXCEPT ![r] = "PENDING"]
               ELSE outbox
  /\ Becomes(s, Idle)
  /\ UNCHANGED <<granted, link, inbox, answers, acked, puller, accessFaults,
                 accessHistory>>

---------------------------------------------------------------------------
(* The request goes up: applyEdgeManagerLotAccessRequest.                  *)

Called ==
  {s \in Slots : task[s].step \in {"duplicate", "write", "finish"} /\ task[s].called}

\* Slip, for the mutation runs: the inbox row is PROCESSED from the start.
ReceiveMarksFirst(s, e) ==
  /\ Free(s)
  /\ Called = {}
  /\ outbox[e] = "PENDING"
  /\ inbox' = inbox \cup {e}
  /\ IF e \in inbox
     THEN /\ outbox' = [outbox EXCEPT ![e] = "ACKED"]
          /\ UNCHANGED task
     ELSE /\ Becomes(s, [step |-> IF "CLOUD" \in granted \/ status["CLOUD"][e] # "NONE"
                                  THEN "finish" ELSE "duplicate",
                         of |-> e, called |-> TRUE])
          /\ UNCHANGED outbox
  /\ UNCHANGED <<requestRows, answers, acked, puller, accessFaults, accessHistory>>

\* The push worker posts an event when its last call has ended.  A PROCESSED
\* one is answered at once; a manager who has the lot on the cloud, or a row
\* of that id, needs no more; else the handler looks for a duplicate.
Receive(s, e) ==
  /\ Free(s)
  /\ Called = {}
  /\ outbox[e] = "PENDING"
  /\ IF e \in inbox
     THEN /\ outbox' = [outbox EXCEPT ![e] = "ACKED"]
          /\ UNCHANGED task
     ELSE /\ Becomes(s, [step |-> IF "CLOUD" \in granted \/ status["CLOUD"][e] # "NONE"
                                  THEN "finish" ELSE "duplicate",
                         of |-> e, called |-> TRUE])
          /\ UNCHANGED outbox
  /\ UNCHANGED <<requestRows, inbox, answers, acked, puller, accessFaults,
                 accessHistory>>

FindDuplicate(s) ==
  LET t == task[s] IN
  /\ t.step = "duplicate"
  /\ \E r \in AnyOf(PendingAt("CLOUD")) :
       Becomes(s, [step |-> "write", of |-> t.of, called |-> t.called, found |-> r])
  /\ UNCHANGED <<requestRows, channels, puller, accessFaults, accessHistory>>

Finishing(t) == [step |-> "finish", of |-> t.of, called |-> t.called]

\* The duplicate answers this edge request from now on, whatever it answered.
LinkDuplicate(s) ==
  LET t == task[s] IN
  /\ t.step = "write"
  /\ t.found # NoRequest
  /\ link' = [link EXCEPT ![t.found] = t.of]
  /\ replaced' = replaced \cup ({link[t.found]} \ {NoRequest, t.of})
  /\ late' = IF t.found \in DecidedAt("CLOUD") THEN late \cup {t.found} ELSE late
  /\ Becomes(s, Finishing(t))
  /\ UNCHANGED <<status, granted, channels, puller, accessFaults, overruled>>

\* approvalRequest.create with the edge's id: a second create of it throws.
InsertRequest(s) ==
  LET t == task[s] IN
  /\ t.step = "write"
  /\ t.found = NoRequest
  /\ IF status["CLOUD"][t.of] = "NONE"
     THEN /\ status' = [status EXCEPT !["CLOUD"][t.of] = "PENDING"]
          /\ link' = [link EXCEPT ![t.of] = t.of]
          /\ Becomes(s, Finishing(t))
     ELSE /\ Becomes(s, Idle)
          /\ UNCHANGED <<status, link>>
  /\ UNCHANGED <<granted, channels, puller, accessFaults, accessHistory>>

\* The inbox row becomes PROCESSED and the caller, if it still waits, its ACKED.
Finish(s) ==
  LET t == task[s] IN
  /\ t.step = "finish"
  /\ inbox' = inbox \cup {t.of}
  /\ outbox' = IF t.called THEN [outbox EXCEPT ![t.of] = "ACKED"] ELSE outbox
  /\ Becomes(s, Idle)
  /\ UNCHANGED <<requestRows, answers, acked, puller, accessFaults, accessHistory>>

\* The edge gives up waiting, restarts or loses the answer.
CallerGone(s) ==
  /\ s \in Called
  /\ AccessFault
  /\ task' = [task EXCEPT ![s].called = FALSE]
  /\ UNCHANGED <<requestRows, channels, puller, accessHistory>>
---------------------------------------------------------------------------
(* The review.                                                             *)

\* review reads the request; nothing keeps an edge's administrator from it.  To
\* review a decided one again has an effect on the cloud only.
StartReview(s, site, r) ==
  /\ Free(s)
  /\ r \in PendingAt(site) \/ (site = "CLOUD" /\ r \in DecidedAt(site))
  /\ Becomes(s, [step |-> "review", site |-> site, of |-> r,
                 seen |-> status[site][r], to |-> link[r]])
  /\ UNCHANGED <<requestRows, channels, puller, accessFaults, accessHistory>>

\* Slip, for the mutation runs: one message for a row, whatever its verdict.
AnswerOnce(site, r, verdict, to) ==
  answers' = IF \/ site = "EDGE"
             \/ to = NoRequest
             \/ \E p \in DOMAIN answers : answers[p].of = r
          THEN answers
          ELSE Append(answers, [of |-> r, verdict |-> verdict, to |-> to])

\* enqueueManagerLotReviewToEdge: once for a row and a verdict, and only for a
\* row that answers an edge request.
Answer(site, r, verdict, to) ==
  answers' = IF \/ site = "EDGE"
             \/ to = NoRequest
             \/ \E p \in DOMAIN answers :
                  answers[p].of = r /\ answers[p].verdict = verdict
          THEN answers
          ELSE Append(answers, [of |-> r, verdict |-> verdict, to |-> to])

\* Slip, for the mutation runs: access comes with every verdict.
DecideAndLetIn(site, r, verdict) ==
  /\ status' = [status EXCEPT ![site][r] = verdict]
  /\ granted' = granted \cup {site}
  /\ overruled' = IF status[site][r] \in Verdicts \ {verdict}
                  THEN overruled \cup {<<site, r>>}
                  ELSE overruled

\* A verdict is written over whatever the row holds; APPROVED gives access,
\* REJECTED takes none away.
Decide(site, r, verdict) ==
  /\ status' = [status EXCEPT ![site][r] = verdict]
  /\ granted' = IF verdict = "APPROVED" THEN granted \cup {site} ELSE granted
  /\ overruled' = IF status[site][r] \in Verdicts \ {verdict}
                  THEN overruled \cup {<<site, r>>}
                  ELSE overruled

\* Slip, for the mutation runs: the answer goes to the link read before.
ReviewAsRead(s) ==
  LET t == task[s] IN
  /\ t.step = "review"
  /\ t.seen = "PENDING"
  /\ \E verdict \in Verdicts :
       /\ Decide(t.site, t.of, verdict)
       /\ Answer(t.site, t.of, verdict, t.to)
  /\ Becomes(s, Idle)
  /\ UNCHANGED <<link, outbox, inbox, acked, puller, accessFaults, replaced, late>>

\* The transaction of a review that saw the request PENDING; what the verdict
\* is makes no difference before.
Review(s) ==
  LET t == task[s] IN
  /\ t.step = "review"
  /\ t.seen = "PENDING"
  /\ \E verdict \in Verdicts :
       /\ Decide(t.site, t.of, verdict)
       /\ Answer(t.site, t.of, verdict, link[t.of])
  /\ Becomes(s, Idle)
  /\ UNCHANGED <<link, outbox, inbox, acked, puller, accessFaults, replaced, late>>

\* Of a request already reviewed the answer is sent again, as it was read.
Resend(s) ==
  LET t == task[s] IN
  /\ t.step = "review"
  /\ t.seen \in Verdicts
  /\ Answer(t.site, t.of, t.seen, t.to)
  /\ Becomes(s, Idle)
  /\ UNCHANGED <<requestRows, outbox, inbox, acked, puller, accessFaults,
                 accessHistory>>

---------------------------------------------------------------------------
(* The verdict comes down: the pull worker's run, and                      *)
(* applyManagerLotAccessReviewFromCloud for each message.                  *)

Unacked == {p \in DOMAIN answers : p \notin acked}

NextOf(S) == {p \in S : \A q \in S : p <= q}

StartPull ==
  /\ run = {}
  /\ ackDue = NoRequest
  /\ Unacked # {}
  /\ run' = Unacked
  /\ UNCHANGED <<requestRows, channels, ackDue, task, accessFaults, accessHistory>>

ApplyVerdict ==
  /\ ackDue = NoRequest
  /\ \E p \in NextOf(run) :
       /\ Decide("EDGE", answers[p].to, answers[p].verdict)
       /\ ackDue' = p
       /\ run' = run \ {p}
  /\ UNCHANGED <<link, channels, task, accessFaults, replaced, late>>

\* An apply that throws leaves its message to a later run.
VerdictThrows ==
  /\ ackDue = NoRequest
  /\ \E p \in NextOf(run) : run' = run \ {p}
  /\ AccessFault
  /\ UNCHANGED <<requestRows, channels, ackDue, task, accessHistory>>

AckVerdict ==
  /\ ackDue # NoRequest
  /\ acked' = acked \cup {ackDue}
  /\ ackDue' = NoRequest
  /\ UNCHANGED <<requestRows, outbox, inbox, answers, run, task, accessFaults,
                 accessHistory>>

\* The acknowledgement does not arrive: the run goes on with the next message.
AckLost ==
  /\ ackDue # NoRequest
  /\ ackDue' = NoRequest
  /\ AccessFault
  /\ UNCHANGED <<requestRows, channels, run, task, accessHistory>>

\* The edge restarts: the run is forgotten.
PullRestart ==
  /\ run # {} \/ ackDue # NoRequest
  /\ run' = {}
  /\ ackDue' = NoRequest
  /\ AccessFault
  /\ UNCHANGED <<requestRows, channels, task, accessHistory>>

\* A call throws, or its process stops: what it committed stays.
Stop(s) ==
  /\ ~Free(s)
  /\ AccessFault
  /\ Becomes(s, Idle)
  /\ UNCHANGED <<requestRows, channels, puller, accessHistory>>

---------------------------------------------------------------------------
Call(s) ==
  \/ \E site \in Sites : Ask(s, site, FALSE)
  \/ Ask(s, "EDGE", TRUE)
  \/ \E site \in Sites, r \in Requests : StartReview(s, site, r)
  \/ \E e \in Requests : Receive(s, e)

Step(s) ==
  \/ Look(s) \/ MakeRequest(s)
  \/ FindDuplicate(s) \/ LinkDuplicate(s) \/ InsertRequest(s) \/ Finish(s)
  \/ Review(s) \/ Resend(s)

AccessNext ==
  \/ \E s \in Slots : Call(s) \/ Step(s) \/ CallerGone(s) \/ Stop(s)
  \/ StartPull \/ ApplyVerdict \/ AckVerdict
  \/ VerdictThrows
  \/ AckLost
  \/ PullRestart

AccessSpec == AccessInit /\ [][AccessNext]_accessVars

---------------------------------------------------------------------------
(* Properties.                                                             *)

Known(e) ==
  \/ status["CLOUD"][e] # "NONE"
  \/ \E r \in Requests : link[r] = e
  \/ "CLOUD" \in granted
  \/ e \in replaced

\* A request the edge has off its hands is known to the cloud: it has a row
\* there or answers for one, unless the manager has the lot on the cloud or a
\* second request of the edge took its place.  Retries, overlapping handlers
\* and a handler that stopped half-way lose none.
AckedRequestKnown ==
  \A e \in Requests : outbox[e] = "ACKED" => Known(e)

\* A site lets the manager in exactly where it shows a request of theirs as
\* approved.  Only a request decided both ways leaves access behind without
\* an approval: neither review nor the edge's handler takes access away.
AccessFollowsVerdict ==
  \A site \in Sites :
    LET approved == \E r \in Requests : status[site][r] = "APPROVED"
    IN /\ approved => site \in granted
       /\ site \in granted =>
            approved \/ \E r \in Requests : <<site, r>> \in overruled

\* When nothing is on its way down, the edge shows of each request what the
\* cloud decided last, however often its messages came; unless the edge has
\* held both verdicts for it, or the cloud's row was linked anew after its
\* review: then two requests of the edge may have had a verdict each of the one.
VerdictsAgree ==
  Unacked = {} =>
    \A p \in DOMAIN answers :
      LET m == answers[p] IN
      \/ status["EDGE"][m.to] = status["CLOUD"][m.of]
      \/ <<"EDGE", m.to>> \in overruled
      \/ m.of \in late

\* What the cloud decides about a request of the edge is shown there or still
\* on its way, whatever is lost and however often the worker stops: no request
\* stays open on the edge whose answer is known, unless the cloud's row was
\* linked to it after its review.
AnswerOwed ==
  \A r \in DecidedAt("CLOUD") \ late :
    link[r] # NoRequest =>
      \/ link[r] \in DecidedAt("EDGE")
      \/ \E p \in Unacked : answers[p].to = link[r]
---------------------------------------------------------------------------
(* The inductive invariant of the proofs.                                  *)

\* Ids are given in turn, and there is one left for every call that asks.
IdsInTurn ==
  /\ Made = 1 .. Cardinality(Made)
  /\ Cardinality(Made) + Cardinality(Asking) <= MaxRequests

HasRow(site, r) == status[site][r] # "NONE"

\* What links, events and messages are about are requests of the edge, and what
\* is linked to one is a row of the cloud.
RequestsExist ==
  /\ \A r \in Requests :
       /\ outbox[r] # "NONE" => HasRow("EDGE", r)
       /\ link[r] # NoRequest => HasRow("CLOUD", r) /\ HasRow("EDGE", link[r])
  /\ \A p \in DOMAIN answers : HasRow("EDGE", answers[p].to)

\* What a call has read is still there when it writes.
CallsAreFounded ==
  \A s \in Slots :
    LET t == task[s] IN
    /\ t.step = "ask" /\ t.found # NoRequest => HasRow(t.site, t.found)
    /\ t.step \in {"duplicate", "write", "finish"} => HasRow("EDGE", t.of)
    /\ t.step = "write" /\ t.found # NoRequest => HasRow("CLOUD", t.found)
    /\ t.step = "review" =>
         /\ HasRow(t.site, t.of)
         /\ t.to # NoRequest => HasRow("EDGE", t.to)
         /\ t.seen \in Verdicts => t.site = "CLOUD" /\ t.of \in DecidedAt("CLOUD")

\* A handler that has done its work, and all that follows from it, leaves the
\* request known to the cloud.
HandledIsKnown ==
  /\ \A e \in inbox : Known(e)
  /\ \A e \in Requests : outbox[e] = "ACKED" => Known(e)
  /\ \A s \in Slots : task[s].step = "finish" => Known(task[s].of)

\* A message is about a decided row, and goes to the request the row is linked
\* to; so does one about to be sent again.
AnswersFollowLinks ==
  /\ \A p \in DOMAIN answers :
       LET m == answers[p] IN
       m.of \in DecidedAt("CLOUD") /\ (m.of \notin late => m.to = link[m.of])
  /\ \A s \in Slots :
       LET t == task[s] IN
       t.step = "review" /\ t.seen \in Verdicts /\ t.of \notin late => t.to = link[t.of]

\* The last verdict of a row that answers for a request has its message.
LastVerdictSent ==
  \A r \in DecidedAt("CLOUD") \ late :
    link[r] # NoRequest =>
      \E p \in DOMAIN answers :
        answers[p].of = r /\ answers[p].verdict = status["CLOUD"][r]

\* The edge has carried out what it has acknowledged or is about to.
AckedIsShown ==
  \A p \in acked \cup ({ackDue} \ {NoRequest}) :
    LET m == answers[p] IN
    /\ m.to \in DecidedAt("EDGE")
    /\ status["EDGE"][m.to] = m.verdict \/ <<"EDGE", m.to>> \in overruled

AccessIInv ==
  /\ AccessTypeOK /\ IdsInTurn /\ RequestsExist /\ CallsAreFounded
  /\ HandledIsKnown /\ AccessFollowsVerdict
  /\ AnswersFollowLinks /\ LastVerdictSent /\ AckedIsShown
=============================================================================
