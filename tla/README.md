# A TLA+ model of kosmos-edge

kosmos-edge runs parking lots. A lot has an *edge*: a machine with its own
database, the LoRaWAN gateway software, the Rust sensor and display daemons and the
NestJS API in edge mode. One *cloud* runs the same API in cloud mode and is the authority
over invoices and payments. Edge and cloud keep separate databases and exchange
messages through an outbox table on each side. This directory models the parts of
the system whose correctness depends on the order of concurrent steps, on crashes
and on lost messages.

## 1. Inventory

Paths are relative to `apps/api/src/` unless they start with `apps/`, `edge/` or
`packages/`. The full list with a status per component is `PROJECT.json`,
`components`.

| component | state | operations | interacts with | modules |
|---|---|---|---|---|
| edge push worker, `modules/sync/edge-cloud-push-worker.service.ts` | `running`; edge tables `DomainEvent`, `SyncOutbox` | `runOnce`: bootstrap rows, load due rows, POST one at a time, mark ACKED or PENDING with a delay | cloud `POST /sync/edge/push` | `EdgeCloudPush` |
| edge pull worker, `modules/sync/edge-sync-worker.service.ts` | `running` | `runOnce`: pull, apply, acknowledge | cloud `GET /sync/edge/pull`, `POST /sync/edge/ack` | `EdgeSyncPull` |
| `SyncService`, `modules/sync/sync.service.ts` | cloud `SyncInbox`, `SyncOutbox`, `SyncCursor`, sessions, spaces, invoices, boards, requests | `pushFromEdge`, `processEdgeEvent` (8 event kinds), `pullForEdge`, `ackFromEdge`, `applyCloudMessageOnEdge` | both workers, invoices, display, approvals | both channels; `CloudSession`, `InvoicePayment`, `DisplayCommands`, `LotAccess`, `LotSnapshot` for what messages do |
| outbox writers, `common/sync/` | `DomainEvent` with `SyncOutbox` | `enqueueEdgeParkingSessionSync`, `enqueueEdgeUnpaidExitSync`, space status | occupancy link, session engine, manual operations | `EdgeCloudPush`, `SpaceSession`, `CloudSession` |
| occupancy link, `modules/devices/occupancy/` | `ParkingSpace.status`, `ParkingSession` | entry and exit by sensor | sensor daemon, invoices, writers | `SpaceSession` |
| session engine, `modules/sessions/` | `ParkingSession` | entry, register, exit, exitBySpace | operators, ingest, invoices, writers | `SpaceSession`, `SensorReports` |
| manual operations, `modules/parking-sessions/` | the same, `Invoice` | manualEntry, manualExit, recordManualPayment | operators | `SpaceSession` (edge), `InvoiceCheckout`, `InvoicePayment` (cloud) |
| sensor ingest, `modules/sensor-ingest/`, sensor events, `modules/devices/` | the same, `SensorDevice` | handleOccupied, handleEmpty | sensor daemon | `SensorReports`, the row of an unpaid exit in `EdgeCloudPush` |
| sensor daemon, `edge/sensor-daemon/` | its PostgreSQL tables | uplink task, change detection, report | MQTT, API | `SensorReports` |
| invoices, `modules/invoices/` | `Invoice`, `PaymentTransaction` | ensureInvoice, additional fee, applyPayment | sessions, cloud-to-edge messages | `InvoicePayment` |
| Toss and other payments, `modules/payments/` | `Payment`, `Invoice`, `ParkingSession.status` | prepare, confirm, webhook, give up, refund | Toss over HTTP, coupons | `InvoiceCheckout`, `InvoicePayment` |
| member app, `modules/mobile/` | `Invoice`, `ParkingSession` | finalize-invoice, coupon reservation | fees, coupons, payments | `InvoiceCheckout` |
| billing and fees, `modules/billing/`, `modules/fees/` | policies, `Invoice` | fee calculation, the bill at a manual exit | invoices, coupons | `InvoiceCheckout`; the calculation itself is not modelled |
| coupons, `modules/tenants/` | `TenantCoupon` | issue, reserve, release, expire, use | member app, payments | `InvoiceCheckout` |
| display, `modules/display/`, `edge/display-daemon/` | `DisplayBoard`, `DisplayCommand`, the panel | command, publish, jobs, result | sync | `DisplayCommands` |
| approvals, `modules/approval/` | `ApprovalRequest`, `ManagerParkingLot` | ask, review, carry up, answer | sync | `LotAccess` |
| edge nodes, `modules/edge-nodes/` | `EdgeNode`, `EdgeNodeKey` | issue, revoke, authenticate | both workers' API key | not modelled |
| lots, sections, spaces, `modules/facilities/` | configuration, its snapshots for the edge | CRUD, snapshot after each change | sync | `LotSnapshot` |
| the rest of the API, `apps/web`, `apps/android`, `edge/chirpstack` (vendored) | | CRUD, queries, screens | | not modelled |

What is hard in this code:

- **No locks.** Handlers read a row, await something and write the row. Two
  requests about one space, one invoice, one inbox row interleave.
- **At-least-once delivery.** A push or an ack whose answer is lost is repeated; the
  first handler may still be running.
- **Several writes per operation.** Event and row, event effect and inbox status,
  session and space, command and board are partly in one transaction and partly not;
  a restart falls in between.
- **Order.** Retried messages are overtaken, requests of the sensor daemon come in any
  order, a message repeated late overwrites a newer one.
- **Bounded queries.** Each run reads a fixed number of rows; rows that are never
  finished take up the places.
- **Two authorities.** A board is set, a lot-access request reviewed, a session paid on
  either site; each site overwrites the other's row when a message comes. The edge keeps
  a copy of the lot's configuration in rows it matches by id or by code.

What makes each part correct:

- *channels*: nothing is acknowledged that was not carried out; an acknowledgement is
  final; an effect is not repeated more often than failures explain; every message
  that can be delivered is, in the end;
- *space and sessions on the edge*: one ACTIVE session per space; space and session agree;
  every entry and exit is reported once; a session that has left does not come back;
- *sessions on the cloud*: whatever order events come in, an exit is final, none is lost,
  the space shows the newest event, and every visit that ended is closed there in the end;
- *sensor*: the daemon's state, the space and the sessions follow the newest reading, and
  the cloud is told;
- *checkout*: money Toss took is booked, once, and with the amount it took; a payment is
  a success only if money was taken; the coupon's discount and the coupon's use go
  together; a session that was closed stays closed;
- *payments*: the paid amount is the money recorded, on invoice and session alike, and a
  payment reported again is not recorded again;
- *display*: the panel shows what was asked for last, cloud and edge agree on the board,
  every command is answered;
- *lot configuration*: the edge runs the lot the cloud shows, with the cloud's ids, and every
  snapshot is taken in the end;
- *lot access*: no request and no verdict is lost between the sites, and a manager is let
  in exactly where a request of theirs is approved.

`PROJECT.json`, `hazards`, lists the places in the code where each can go wrong,
with the properties that look at it.

## 2. Modules

| module | models |
|---|---|
| `EventDelivery` | abstract: what both channels promise. An item is recorded, then delivered, then acknowledged. |
| `EdgeCloudPush` | the push worker, `pushFromEdge` and the inbox of `processEdgeEvent` |
| `EdgeSyncPull` | the pull worker, `pullForEdge`, the apply of invoice messages, `ackFromEdge`, the cloud's message writers |
| `SpaceSession` | one space of the edge: occupancy link, session engine, manual operations, payments that come from the cloud |
| `CloudSession` | the cloud's handlers of entry, exit, unpaid exit and space status, and payments of the same sessions |
| `SensorReports` | a sensor's uplinks in the daemon and the API's ingest |
| `InvoiceCheckout` | one session's invoice on the cloud, its coupon and its Toss payments: finalize, manual exit, prepare, confirm, webhook, give up |
| `InvoicePayment` | the other ways money is recorded for an invoice: payment link, member, collector, the confirms that do not ask Toss, the edge's payment, refund, cancellation |
| `DisplayCommands` | a display board from the operator over both outboxes and the daemon to the panel and back |
| `LotAccess` | a manager's requests for a lot on both sites, their way up, the review, the verdict's way down |
| `LotSnapshot` | a lot's configuration on the cloud, the snapshot every change publishes, and its apply on the edge |
| `MC...` | the values TLC needs: model values, small sets, symmetry |
| `..._proofs` | theorems and proofs about the module of the same name; `PulledMessages_proofs` about the three modules of what an edge pulls: `EdgeSyncPull`, `LotAccess`, `LotSnapshot` |

How they fit together. Both channels are shown to implement `EventDelivery` (`Delivery ==
INSTANCE EventDelivery WITH ...`). The other modules about messages keep of the channels
what their properties can tell: `CloudSession` takes from `EdgeCloudPush` that one event is
pushed at a time, that a failed one is passed by younger ones, that a handler outlives its
caller and that every event is pushed again until it is done (`EventuallyAcked` there is the
strong fairness of `Deliver` here); `DisplayCommands`, `LotAccess` and `LotSnapshot` take from `EdgeSyncPull`
that runs are single-flight, in the order of the rows, and that an ack may be lost after the
apply. `SpaceSession` and `SensorReports` write the events `CloudSession` applies. The two have one space in
view from its two entrances: `SpaceSession` the occupancy link with operators beside it,
`SensorReports` the daemon's endpoint, `SensorEventsService.ingest`, which goes through the session
engine.

Definitions named after "Slips, for the mutation runs" are deliberate small bugs. No
specification uses them; they show that each property notices one.

### EdgeCloudPush

`recorded`, `outbox`, `createdAt`, `retryCount` and `waiting` are the edge's tables
(`waiting` is `nextRetryAt` in the future). `phase`, `todo` and `awaited` are the
locals of `runOnce` together with `running`. `reqPc` and `reqEvent` are the handlers on
the cloud; a slot keeps running when its caller has given up. `inbox` is
`SyncInbox.status`, `applied` counts the commits of an event's effect: what the
event does to the cloud's tables is in `CloudSession`, `InvoicePayment`,
`DisplayCommands`, `LotAccess` and `LotSnapshot`.

Every await is the boundary of an action. `StartRun` does the bootstrap's query,
`BootstrapNext` one turn of its loop, `LoadPending` the second query, `Post` ..
`PushAcked | PushRejected | PushTimedOut` one row. On the cloud `ReceiveNew |
ReceiveProcessed` is the upsert and the status test, `Apply` the switch,
`MarkInboxProcessed | MarkInboxFailed` the last write. The insert-or-update of the inbox
row is one step because the database makes it one.

### EdgeSyncPull

`row` follows a message from the moment its writer has the invoice's amounts
(`read`) over the event and the row to `ACKED`; `holds` is the message whose amounts
the edge's session shows. A message that is read is numbered then, so the larger of
two messages about a session is the newer one. `acking` are ack requests the cloud
has, with or without somebody waiting. An *orphan* is a message whose session the
edge does not know (`LOCAL_SESSION_NOT_FOUND`) or whose type it ignores: it is skipped
and stays PENDING. `overlapped`, `handed` and `again` are history.

### SpaceSession

`pc[h]` is the await at which a request stands, `found`, `readPaid` and `readExit` what
it has read. Sensor requests write the space first (`SensorReport`,
`occupancy-event.service.ts:38`), look up the ACTIVE session (`FindActive`) and go on
to one of the four ends of `handleOccupancyChanged`. The operator's entry and exit join
at `Create` and `Bill`. By hand, `ManualEntry` joins at `Create`; `ManualExit` reads the
session and goes through `Dismiss` (the transaction that closes it), `Finalize` (the bill),
`Collect` (the collected amount), `Refresh` and `Tell` (the event), each an await at which
it may fail or be cut off. Sensor and hand may meet on one space: a lot's mode is not
asked for by the sensor's path. Applying a paid invoice is one step, since what it writes does
not depend on the status it read; a partly paid one reads and writes back the status
in two. `peak`, `overlapped`, `staleExit` are history.

An exit time is named after the slot whose request took it from the clock: an event's key
contains the exit time, so two exits that read a session without one make two
events, and one that read it with one repeats the event that is there. `exitReports` are the
keys.

Not in the module: `GRACE_PERIOD`, which no code of these services writes; a collector's
payment of a parked session (`InvoicePayment`); sessions of several spaces (no statement
here touches two spaces).

### CloudSession

`Feed` is the edge's list of events about the visits of one space, oldest first; each has a
kind, a time and the status the edge reports. `session` has the cloud's status, exit time and
the time of the last applied event (`edgeLastSessionEventAt`), `task[h]` is what a handler has read
and its await, `payer` a payment of one session on the cloud.

| actions | code |
|---|---|
| `Deliver`, `Mark`, `Throw`, `Clash`, `TimeOut`, `Restart` | the inbox around `processEdgeEvent`, and how it fails |
| `ReadSession`, `ApplySession`, `Reread`, `AddInvoice` | entry and exit: read, compare times, write session and space, then the paid invoice |
| `ApplyUnpaid` | the unpaid exit |
| `ApplySpace` | a space's status, written without a look at the time |
| `PayRead`, `PayWrite` | a payment that reads the status and writes it later |

`overlapped` are sessions two of whose writers ran at once, `inverted` says an event came after
a younger one. Left out: whether a lot or space of an event exists, partial amounts.

### SensorReports

An uplink is named by its place in the order. `work[u]` is first the daemon's task (`ReadHistory`,
`ReadState`, `WriteState`, `WriteHistory`, `Notify`: `main.rs`, `db.rs`) and then the API's request
(`Find`, `WriteSpace`, `Enter` / `Create` / `Entered` or `Exit` / `Close`, `Report`). `history` and
`state` are the daemon's two tables; the state is written first, and a task that ends in
between leaves them apart. `Notify` is not repeated. `told` is the space as the newest event for
the cloud shows it. The sensor's other fields (battery, firmware, gateway) are constant, so an
uplink is a change exactly when its code is new; telemetry is left out. A session that was paid
while parked is never exited by this path, which looks for ACTIVE ones: `paidEarly` names them.

### InvoiceCheckout

One session, one coupon of its member, one parking-fee invoice. `session`, `exited`,
`linked` are `ParkingSession.status`, `exitTime` and `primaryInvoiceId`; `invoice` is the row with
its amounts and whether its metadata names the coupon; `payments` are the `Payment` rows by
order id; `coupon` is `TenantCoupon.status`, with `LAPSED` for a reservation past its
`reservationExpiresAt`. `taken` is Toss's side: the orders whose money it took. `task[r]` is
what a request has read and at which await it stands. `fee` is what the parking costs
by now. `mishaps` is history: which overlaps have happened.

| actions | code |
|---|---|
| `Reserve`, `ReserveTx`, `ReleaseByMember`, `Lapse`, `CleanUp`, `ReleaseCoupon`, `AskForCoupon`, `CouponHolds`, `PriceIt`, `Complete`, `Release` | `tenant-coupons.service.ts:801-1300` |
| `Finalize` .. `Link` | `mobile-parking.service.ts:837-1382` |
| `ManualExit`, `Close`, `KeepPaid` | `parking-sessions.service.ts:1022-1273` |
| `BillRead` .. `BillLink` | `billing.service.ts:137-441` |
| `Prepare` .. `Create` | `payments.service.ts:1457-1546` |
| `Confirm`, `AssertPaid`, `Toss...`, `Refused`, `Approved` | `payments.service.ts:815-1100` |
| `Webhook`, `HookTx`, `GiveUp`, `Abandon` | `payments.service.ts:1235-1446` |

Reductions. Expired reservations are released and the coupon is asked for in one
step: what a second clean-up finds, the first has released. The reads of `manualExit`, all before
its first write, are one step; a collected amount is not given. The fee is one
number that grows to `MaxFee`, the coupon takes off `Discount`; how either is
calculated is left to the fee module. The fee is read when the coupon is asked for,
an await after the exit time was fixed. An additional-fee invoice is issued and left alone.
`GRACE_PERIOD` counts as `ACTIVE`. Toss is external: it approves an order once, may refuse any
request, and its answer may be lost after it took the money (a fault). It repeats webhooks
as often as it likes, found by `orderId`.

### InvoicePayment

One issued invoice without a coupon, its session, and requests of eight kinds, each used once.
`booked[r]` is the money request `r` has recorded, on whatever row the code uses
(`PaymentTransaction`, `Payment`, metadata of a manual payment).

| kind | actions | code |
|---|---|---|
| `link`, `member` | `AskLink`, `AskMember`, `EnsureRead`, `EnsureWrite`, `Record`, `ApplyRead`, `ApplyWrite`, `SessionRead`, `SessionWrite` | `mockPayInvoice`, `mockCompleteSessionPayment` and what they call of `invoices.service.ts`: `ensureInvoiceForSession`, `createPaymentTransaction`, `applyPayment` |
| `desk` | `AskDesk`, `Desk` | `recordManualPayment` |
| `confirm`, `toss` | `AskConfirm`, `AskToss`, `TossRead`, `Confirm` | `confirm`, `tossConfirm`, `confirmTossPayment` |
| `edge` | `AskEdge`, `EdgeRead`, `EdgeWrite` | `createCloudInvoiceForEdgePaidExit` of `sync.service.ts` |
| `refund`, `canceled` | `Refund`, `Cancel` | `refund`, the webhook with `CANCELED` |

The session has left unpaid, or is parked and registered. The invoice is there from the start, so
the unique key of `Invoice.sessionId` plays no part; `payInvoice` and `forceCloseInvoice`
are not modelled.

### DisplayCommands

The cloud's rows (`command`, `status`, `board`, `note`), its outbox (`messages`, `waiting`), the pull
run (`todo`), the edge's copies, the daemon's loop (`daemon`, `panel`), the reports at work (`post`)
and the edge's outbox (`results`, `unsent`, `backoff`).

| actions | code |
|---|---|
| `Ask`, `ReadBoard`, `SendBoard`, `WriteBoard`, `Preview`, `Create`, `SendCommand` | the operator's requests of `display.service.ts`, one action per statement |
| `StartRun`, `Apply` | pull and apply on the edge, `sync.service.ts`: a command is created once, a configuration overwrites |
| `Fetch`, `Execute`, `Report` | the daemon's poll, its packets and its reports |
| `WriteStatus`, `WriteNote`, `WriteResult` | `reportJobResult`: three statements |
| `TakeResult` | the result on the cloud |

Power stands for brightness too, which goes the same way; a text is named by the mode it
was rendered for. One board, one edge that serves it, one daemon. Left out: disabled boards,
`updateBoard`, modules of a board, commands made on the edge. `JobLimit` (10) and the pull's
limit are not reached.

### LotAccess

One manager, one lot. `status` and `granted` are each site's rows, `link` what the cloud's row says
of the edge's request it answers, `outbox` / `inbox` the way up, `answers` / `acked` / `run` /
`ackDue` the way down, `task` the calls under way.

| actions | code |
|---|---|
| `Ask`, `Look`, `MakeRequest` | `approval.service.ts`, the two routes to ask: look for access, look for a pending request, then create, on the edge with its event. The older route refuses a second request and makes no event. |
| `Receive`, `FindDuplicate`, `LinkDuplicate`, `InsertRequest`, `Finish` | the handler on the cloud, `sync.service.ts:2900-3105` |
| `StartReview`, `Review`, `Resend` | `review`: read, then verdict, access and, on the cloud, the answer |
| `StartPull`, `ApplyVerdict`, `VerdictThrows`, `AckVerdict`, `AckLost`, `PullRestart` | the pull of a verdict |
| `CallerGone`, `Stop` | a push given up, a call that ends half-way |

Left out: registrations, requests for sections, the approval that creates a lot, access given on
`lots.service.ts` by hand, and a review of a request that is decided already on the edge, which
changes nothing.

### LotSnapshot

`lot` is the cloud's committed configuration, `change` and `message` what an administrator's open
transaction has written, `sent` the snapshots in the order of their rows. `applying`, `listed`,
`snapshot` are the pull worker's run, `rows`, `active`, `edgeSensor`, `edgeMode` the edge's tables.

| actions | code |
|---|---|
| `MakeChange`, `Publish`, `Commit` | a transaction of `spaces.service.ts`, `sections.service.ts`, `device-mapping.service.ts` or `lots.service.ts`: its statements, the snapshot of the whole lot it ends with (`enqueueParkingLotOperationSnapshotSync`), its commit |
| `Recreated` | `applyEdgeParkingLotCreated` carried out a second time |
| `StartLotRun`, `Ack`, `EndLotRun`, `Fails`, `LotEdgeRestart` | the pull worker |
| `ApplyLot` | the first transaction of an apply, `applyParkingLotConfigurationFromCloud` |
| `ApplySpaces`, `Refused` | the second one: `Upsert` per item, deactivation of the rest, the sensor; or the unique key ends it |

Sections, spaces, fee policies and discount programs are listed, matched and deactivated alike, so one
of the lists stands for all; one sensor, one edge. A lot's `codes` are a function of the ids, which
are given in the order of creation. `Upsert` is nondeterministic where `findFirst` has two rows to
choose from; `Outcomes` carries the list out, `OneSpace` after `OneSpace`. `Locks` are the rows and keys for which PostgreSQL
lets a second transaction wait; otherwise it reads what is committed (READ COMMITTED). Left out: the
move of a space to another lot, import from a spreadsheet, changes made on the edge itself,
which the next snapshot writes over.

## 3. Runs

| run | checks | bounds |
|---|---|---|
| `push` | `RepeatsCostSlips`, `DeliversEvents`, `EventuallyAcked` | 3 events (one without a row, one the cloud refuses), 2 request slots, 1 fault, bootstrap of 3, push of 2 |
| `push_starved` | violates `SyncRequiredReachesCloud` | 3 events, bootstrap of 2, no fault |
| `pull` | `NewestAmountsShown`, `NoneSkipped`, `DeliversMessages`, `EventuallyAcked` | 4 messages, 2 sessions, one orphan, pull of 2, 2 faults |
| `space` | `ActiveWithinPeak`, `ExitReportedOnce`, `EntryReportOwed`, `SpaceShowsSessions`, `ExitedIsNotActive` | 2 requests, 2 sessions, 1 fault |
| `cloud_session` | `ExitedStaysClosed`, `SpaceShowsNewest`, `EventuallyClosed` | 2 visits, 6 events, 2 handlers, 1 fault |
| `sensor` | `SpaceFollowsSensor`, `SessionsFollowSensor`, `CloudIsTold` | 4 codes, 3 uplinks, 2 worked on at a time, 2 faults |
| `checkout` | `DiscountCostsCoupon`, `CouponBuysDiscount`, `OneCharge`, `PaidMatchesTaken`, `MoneyIsBooked`, `ClosedHasExit` | 2 requests, 2 payments, a fee of 1 or 2, a discount of 1, 2 faults after which requests come one at a time |
| `checkout_reissued` | violates `PaidInvoiceUnchanged` | 1 request, 1 payment, no fault |
| `payments` | `PaidWithinMoney`, `LonelyMoneyKept`, `QuietBooksAgree` | 3 requests of any of 8 kinds, 2 at a time, 1 stop, a fee of 2 then 4, an edge payment of 3 |
| `display` | `PanelShowsNewest`, `LastSentIsShown`, `BoardsAgree`, `CloudAgrees`, `CommandsAnswered`, `MessagesLeave` | 2 requests, 2 reports at a time, 1 fault |
| `lot_access` | `AckedRequestKnown`, `AccessFollowsVerdict`, `VerdictsAgree`, `AnswerOwed` | 2 requests, 2 calls at once, 1 fault |
| `lot_snapshot` | `ConfigurationAgrees`, `IdsAgree`, `SnapshotsLeave` | 2 spaces and room for 1 more, 3 codes, 3 changes, 2 transactions at once, 1 fault |

A type invariant that is proved for every value of the constants is not checked again
by a run. The same goes for the inductive invariants and for
`StateAgreesWithHistory`, `EdgePaymentOnce`, `AckedWasApplied`, `AckedIsFinal`, `SuccessWasTaken` and
`AckedExitWasApplied`, which section 4 proves.

Why the bounds are enough.

- *Push*: two slots are one awaited handler and one its caller has left, the smallest case in
  which handlers of one event overlap; the push limit cuts three rows off. One fault is enough for
  what the run asks; that more change nothing in safety is proved. `retryCount` saturates at `RetryCap`: the
  properties only ask whether it is 0, and the delay it sets is arbitrary in the model.
- *Pull*: a pull of 2 out of 4 needs several runs, one session has two messages to confuse, the
  orphan stays in front of them, two faults let a loss follow a loss.
- *Space*: an overlap needs two requests, a second car two sessions.
- *Cloud session*: the feed has one visit that leaves unpaid and one that leaves paid, with a
  report of the space between; an overlap needs two handlers, and a fault puts a handler
  beside its successor or an event after a younger one.
- *Sensor*: three uplinks are the least in which a lost one is followed by a repaired one and the
  one before is seen; each of the four codes leads to another branch.
- *Checkout*: every overlap the code is exposed to is one of two requests; two payments are a
  stale and a new one; a fee of 1 is free with the coupon, a fee of 2 is not, and their difference
  is an invoice priced anew. The state constraint `FaultsComeAlone` lets faults happen at any
  point of a run, but from the first of them on at most one request is at work: what faults do
  and what overlaps do is explored each in full, their product is not.
- *Payments*: three requests let one run alone after two that overlapped. The edge's payment of 3
  pays the earlier price in full and the later one in part; with a later fee of 3 a
  lower price written last would not yet cost a later payment its money.
- *Display*: two commands are what can be swapped or repeated; two reports what overlaps.
- *Lot access*: two requests are one from each site or two of the edge that claim one row
  of the cloud. What larger instances could add is settled by the proofs of all four properties.
- *Lot snapshot*: two transactions are what overlaps; a third change is the one that meets an edge
  the first two have left behind; the third code is what makes a swap of two codes possible.
  The two invariants are proved for any number of each; the bounds limit `SnapshotsLeave` only.

`MaxFaults` and `MaxStops` bound losses, restarts and errors; `MaxSessions`, `MaxUplinks`,
`MaxRequests`, `MaxOrders` bound arrivals, so no request under way is blocked by a bound.

What the properties say of failures. Some wishes are false in this code, so
properties name what it takes to break them. A history variable records each such event, and
each excuse a property has is one it fails without:

- an effect repeats only for a fault that hit a handler at work (`RepeatsCostSlips`; lost requests
  and lost answers repeat nothing); a session shows old amounts only if one of its messages was
  handed over twice or its writers overlapped;
- a space has extra ACTIVE sessions only for entries that overlapped before their create; space
  and sessions disagree only after an overlap, a fault or an exit of a session that is not the
  newest; an exit by hand is unreported only after a fault;
- on the cloud, an exited session is reopened only if two of its writers ran at once, and the
  space is behind only if an event came after a younger one or beside another;
- a sensor's space is wrong only until the next change that is handled alone and to its end;
- in the checkout the names are `couponMoved` (the
  reservation began or ended while a request went by what it had been told of it), `rivals` (two
  confirms at work), `reissued` (a paid invoice written again), `repriced` (the invoice
  written while somebody, a webhook included, was paying it) and `exitOverlapped` (a manual exit during a finalize);
- in the payments `overlapped`, `broken` (stopped half-way), `beyond` (a payment recorded above
  what was unpaid), `short` (a prepared payment confirmed after the price rose), `undone`, and a price written
  beside another request (`PricedAlone`);
- on a board, `slips`: `swapped`, `late`, `overtaken` (orders changed), `failed`, `deaf` (the panel
  took nothing), `unreported`, `left`, `halfway` (reports lost), `overlapped`, `stopped`
  (requests), `unacked`;
- for lot access `overruled` (decided both ways), `replaced` (a link overwritten by a second
  request) and `late` (a row linked after its review);
- for a lot's configuration `overlapped` (a snapshot written beside another open one), `passed` (a run
  went on to a younger snapshot after one it gave up), `untold` (the creation repeated) and
  `reused` (a removed space's code given to another). None of them is healed by a later
  snapshot for certain: with the edge's rows behind, the codes of a later snapshot may meet
  the unique key in every run, or two of its spaces may be saved in one row.

Runs that do not check for deadlock are those of systems that may stop: a closed and paid session, a
feed, a sensor or an operator that has used up its bound.

### Findings

Checked by a run:

- `push_starved`: the bootstrap reads the *earliest* events, those long acknowledged
  included (`edge-cloud-push-worker.service.ts:261`). After as many events as its limit
  (100 by default) an event recorded without a row is never pushed. The unpaid exit of
  `sensor-ingest.service.ts:550` is recorded so, and says `syncRequired: true`.
- `checkout_reissued`: a coupon that covers the whole fee makes the invoice PAID with nothing
  paid and leaves the session ACTIVE. The next finalize finds neither a reservation nor a paid
  amount and issues the same invoice at the full price
  (`mobile-parking.service.ts:1299`); the coupon is used up. `billing.service.ts:188` and
  `parking-sessions.service.ts:1120` say that a paid invoice cannot be changed.

Seen while modelling; the passing properties carry them as their excuses:

- Two entries that overlap both find no ACTIVE session; the comment at
  `occupancy-link.service.ts:58` allows only one. `SerialOneActiveSession` proves the condition under
  which it is right.
- The comment at `occupancy-link.service.ts:183` says that a failed fee calculation leaves
  ACTIVE / OCCUPIED; the caller has already written EMPTY (`occupancy-event.service.ts:38`).
- A manual exit whose collected amount is refused after its transaction
  (`parking-sessions.service.ts:1274`) stays unreported, and cannot be repeated.
- Two collectors that overlap take more than the invoice's amount, which
  `parking-sessions.service.ts:680` refuses one at a time; a prepared payment confirmed later settles an
  invoice that has grown; a member whose invoice has nothing unpaid is charged its whole amount
  again (`payments.service.ts:2007`, `invoices.service.ts:1556`).
- Of two requests that price an invoice anew, the one that read the fee earlier may write last
  (`invoices.service.ts:1294`), while a payment goes by the higher price: the invoice then has more
  unpaid than its amount, and a payment of it counts in part.
- The confirm checks payment and reservation before Toss and writes by id afterwards
  (`payments.service.ts:993`). If the reservation ends in between, a payment cancelled because its
  "Coupon reservation was released before payment completion" (`tenant-coupons.service.ts:1280`)
  becomes a success at the discounted price, and the member keeps the coupon: `couponMoved`
  of `DiscountCostsCoupon`.
- A space that gets the code of a removed one takes over its row on the edge and with it the old id:
  the edge's events name a space the cloud does not have (`sync.service.ts:1050`). A rename to such
  a code is refused by the edge in every run, after the lot's own row has been written.
- A display command whose acknowledgement was lost is refused as already applied, so the edge
  never acknowledges it and it stays in every pull (`sync.service.ts:5096`).
- A lot-access request that reaches a cloud where the manager has the lot already is answered
  `ALREADY_APPROVED` and left PENDING on the edge (`sync.service.ts:2964`); a rejection after an
  approval takes no access away.

### Fairness

`FairSpec` of both channels assumes weak fairness of the worker's actions
(`setInterval` starts runs, `fetch` and the database answer or throw), of the cloud's
handlers (the event loop runs what it has accepted) and of the passing of `nextRetryAt`
(the clock). No fairness is put on writers or faults. Weak fairness suffices: an
enabled worker action stays enabled until the worker moves. Their runs keep
deadlock checking on.

`CloudSession` assumes weak fairness of handlers and of a payment under way, and strong fairness
of the delivery of each event: the worker is busy with other events in between, but comes back to
one that is not acknowledged, which is `EventuallyAcked` of the push channel.
`DisplayCommands` assumes weak fairness of the pull worker, the daemon's loop, the edge's report
handlers and the push of results, all of them timers or started handlers; none of operators,
who may ask no more and leave a request between its steps. `LotSnapshot` assumes it of the
worker and of a transaction that has begun, which PostgreSQL and Prisma's timeout end.

## 4. Proofs

All theorems are for arbitrary sets of events, messages, sessions, requests, request slots,
handlers, payments and for any limits, amounts and number of faults, under the `ASSUME`s of the modules
(the sets are finite, `None` is not a member, limits are natural numbers, the fee does not fall, what
the feed of `CloudSession` may contain).

| theorem | states |
|---|---|
| `EdgeCloudPush_proofs!SpecTypeOK`, `SpecAckedWasApplied`, `SpecAckedIsFinal`, `SpecRepeatsCostSlips`, `SpecDeliversEvents` | the channel's types, no false and no revoked acknowledgement, an effect repeats only for a fault, refinement of `EventDelivery` |
| `PulledMessages_proofs!SpecTypeOK`, `SpecAckedWasApplied`, `SpecNoneSkipped`, `SpecNewestAmountsShown`, `SpecDeliversMessages` | the same of the other direction; no message is passed by for good, and the newest amounts stand |
| `SpaceSession_proofs!SpecIInv`, `SpecTypeOK`, `SpecActiveWithinPeak`, `SpecExitReportedOnce`, `SpecExitedIsNotActive`, `SpecEntryReportOwed`, `SpecSpaceShowsSessions`, `SerialOneActiveSession` | types, every safety property of the run, and: one request at a time gives one ACTIVE session |
| `CloudSession_proofs!SpecIInv`, `SpecTypeOK`, `SpecExitedStaysClosed`, `SpecAckedExitWasApplied`, `SpecSpaceShowsNewest` | types, an exit is final on the cloud, no exit is lost, the space shows the newest event |
| `SensorReports_proofs!SpecIInv`, `SpecTypeOK`, `SpecStateAgreesWithHistory`, `SpecCloudIsTold`, `SpecSpaceFollowsSensor`, `SpecSessionsFollowSensor` | types, the daemon's two tables agree, the cloud knows what the space shows, space and sessions follow the newest reading |
| `InvoiceCheckout_proofs!SpecTypeOK`, `SpecSuccessWasTaken`, `SpecClosedHasExit`, `SpecOneCharge`, `SpecPaidMatchesTaken`, `SpecMoneyIsBooked`, `SpecDiscountCostsCoupon`, `SpecCouponBuysDiscount` | types and every safety property of the run |
| `InvoicePayment_proofs!SpecIInv`, `SpecTypeOK`, `SpecEdgePaymentOnce`, `SpecPaidWithinMoney`, `SpecLonelyMoneyKept`, `SpecQuietBooksAgree` | types, the edge's payment is recorded once, and every property of the run |
| `DisplayCommands_proofs!SpecIInv`, `SpecTypeOK`, `SpecLastSentIsShown`, `SpecPanelShowsNewest`, `SpecBoardsAgree`, `SpecCloudAgrees` | types, the board's OK is to be trusted, panel, edge and cloud agree |
| `PulledMessages_proofs!AccessInvariant`, `AccessTypeCorrect`, `AckedKnown`, `AccessFollows`, `AnswerIsOwed`, `VerdictsDoAgree` | the inductive invariant and the types of `LotAccess`, and every property of its run: no request and no verdict is lost, access and verdicts agree |
| `PulledMessages_proofs!LotInvariant`, `LotTypeCorrect`, `ConfigurationDoesAgree`, `IdsDoAgree` | the inductive invariant and the types of `LotSnapshot`, and both invariants of its run: the edge runs the lot the cloud shows, under the cloud's ids |

*EdgeCloudPush.* `AckedWasApplied` is not inductive: an answer under way could be false.
`ClaimsAreTrue` says of everyone who says "done" (outbox, inbox, handlers after the
commit, answers) that the effect is there. `AckedIsFinal` needs `WorkerHoldsPending`: `markOutboxFailed`
writes PENDING blindly, so the rows a run holds must be PENDING, each only once, until
it writes them. This rests on the single-flight flag, in the model: `StartRun` needs
`phase = "idle"`. `WorkIsRecorded` is what the refinement needs. `RepeatsCostSlips` counts:
`RepeatsArePaid` adds to the effects of an event those its abandoned handlers (`Owing`) may still
have; together they cost one slip each, except the one of the handler that is waited for, which the inbox
then remembers (`Spare`).

*EdgeSyncPull.* `AckersAreRight` (a message is in `applied` before anything may
acknowledge it) and `WorkHasRow`. `NoneSkipped` and `NewestAmountsShown` are about order:
rows are numbered as they are written (`RowsAreNumbered`), what is older than a row still to be worked
on waits with it or had its turn (`PulledInOrder`), and writers of one session that did not
overlap write in the order they read (`WritersInOrder`).

*SpaceSession.* `PeakCovers`: ACTIVE sessions and requests that are about to create
one together never exceed `peak`. A create moves one from the second group to the
first; a new member joins the second only when the first is empty. `NumberedInOrder` and
`WorkIsOnSessions` say that sessions are numbered without gaps,
a created one is new, and that a stale status is only written back over a session
that has left. The counting uses the library's theorems on cardinalities. `ExitReportedOnce` needs
`SerialExits`: without an overlap every report is of the exit time the session has, so there is
only one, which in turn needs that what a request has read still stands (`OneAtATime`).
`ExitsAccounted` and `EntryReportOwed` are inductive with it. `SpaceShowsSessions` speaks of
the time between requests; `SpaceInStep` says what each await leaves in step.

*CloudSession.* `ExitedStaysClosed` needs `ClockPastEntry`: once an exit was applied, the session's
clock is past every entry of it, so an entry that comes late is refused as stale. `OneWriter` says
what a lonely writer has read is what stands there; `ClockKnown` keeps a clock from passing an
exit that was not applied; `DoneWasApplied` is the same for those who say an exit is done.
`SpaceShowsNewest` needs `NewestAtWork`: as long as no event came out of order, the handler at work has the
youngest one delivered, so a write of the space goes forward.

*SensorReports.* While readings come one at a time and none is lost, what a task has read still
holds when it writes (`TaskKnows`), and what a request has read of the space and has yet to
tell (`RequestKnows`); `ExitHasSession` keeps the types. That space and sessions follow the sensor does
not ask for a history without a mishap, only for a newest reading that had none, so a second invariant
carries the others along: `PlacesFit` (who is at the API has its row, and who works beside an
older reading is overlapped), then for the newest row `SpaceKnown` and `SessionsFollow`, and for the
sessions `SessionsRemember` and `SessionsKnown` (what a request found still holds when it writes).

*InvoiceCheckout.* `SuccessWasTaken` needs `BookersHoldTaken`: a request about to book a payment
(after Toss's approval, or on its webhook) holds an order whose money was taken. `ClosedHasExit`
needs `ReadBeforeExit`: while the session is closed, a finalize that read no exit time
was at work when it closed. `OneCharge` counts (`ChargesCounted`): before Toss takes an order's
money no more was taken than faults account for, and one more is on its way to the invoice or has
arrived. It needs one payer at a time (`OnePayer`) and invoices that are unpaid or paid in full wherever
they were read (`InvoicesSound`). `PaidMatchesTaken` and `MoneyIsBooked` need `PricesKept` (whoever settles the
invoice settles its amount), `TakenIsHeld` and `UnbookedIsHeld` (money that was taken is on the
invoice or somebody's to book). The coupon needs `ToldOfCoupon` (who was told that the reservation
stands finds it standing, or used), `NoCouponLater` and `UsedWhenPaid` (who makes the invoice PAID
uses the coupon up, or will). All are preserved one action at a time; the lemmas per group of
actions (coupon, finalize, exit, prepare, confirm, others) follow the disjuncts of `Next`, and a step
is first reduced to its effect on invoice, money and coupon.
Two of the properties held for two requests and not for three, which the attempt to prove them
showed: a webhook, too, may book the old amount of an invoice that is priced anew (`repriced` now
counts it), and one that books what was issued again may do so without the coupon
(`DiscountCostsCoupon` now excuses `reissued`).

*InvoicePayment.* A claim is a payment of the edge that is recorded or about to be. `ClaimsOverlap`:
two claims are two requests that overlapped; a request that reads the first's record makes none.
The money has a second invariant, `MoneyInv`. Each request that has written its amount on the invoice
is `Entered`, and `Kept` if it was alone, ended and took no more than was unpaid.
`NoMoreThanEntered` and `NoLessThanKept` bound the paid amount by the sums of the two, on the
invoice and in everything that was read of it and will be written back: a lost update
restores an older amount, which is within the same bounds. That needs `BooksAddUp` (paid and
unpaid make up the amount, which grows only while a request is alone), `ReadStands` (what a request
alone has read still stands) and `SessionInStep`. Sums are the community modules' `MapThenSumSet`, which is
defined by a recursive function on the subsets; the facts about it (a sum is a number, takes out any
member, grows with its set and its parts) are proved from a smallest subset that fails, by the library's
well-founded order on the subsets of a finite set, without an induction theorem. The attempt to prove
`LonelyMoneyKept` showed that it needs the excuse `PricedAlone`: of two requests that price the invoice
anew, the one that read the fee before it grew may write last, under a payment that goes by the higher
price. That leaves more unpaid than the invoice's amount, and a later payment made alone is
recorded in full but counts up to the amount. With a fee of 3 at the end the run did not meet the
case; with 4 it does.

*DisplayCommands.* `SuccessIsShown` says of the daemon's success and of reports of it under way that the
panel shows the command or a newer report is due; `NoteIsShownOrDue` says it of the board's
row. `OneReport`: the daemon waits for a report's answer, so a second one is at work only after a slip.
The other three each add an invariant. `PanelInv`: commands are sent once and in order
(`SentInOrder`), the edge has them up to the newest row applied (`AppliedUpToNewest`), those that
were on the panel are older than those owed to it (`SettledBeforeOwed`), so the panel shows the newest one
settled (`PanelInStep`). `BoardInv`: the board, on either site, is what the rows sent so far leave it
at (`Leave`), up to what the request at work has yet to send (`CloudInStep`) and as far as rows were
applied (`EdgeInStep`). `TellInv`: each report alone writes what its place says
(`EdgeTells`), and the cloud has taken the first of the rows, so its state is that of the last one
taken (`CloudFollows`).

*LotAccess.* `AccessIInv`. New ids are new because a call that may still make a request has one left for it
(`IdsInTurn`: rows made and calls asking together stay within the bound, and the rows that exist are
the first ones). `HandledIsKnown` says what every PROCESSED and ACKED row, and every handler past its
write, stands for: the cloud has a row of that id or one that is linked to it, or the manager's
access, or the link was replaced (`Known`). `RequestsExist` and `CallsAreFounded` say that what links, events,
messages and calls under way are about has a row. For the way down, `LastVerdictSent` says that a decided row which
answers for a request has sent its last verdict, `AnswersFollowLinks` that a message goes to the
request its row is linked to, and `AckedIsShown` that whatever is acknowledged, or
about to be, is what the edge shows, up to `overruled`. The attempt to prove `VerdictsAgree` showed
that it needs the excuse `late`, which two calls do not reach: a row of the cloud answers for one
request and is decided while a handler holds it as the duplicate of another; linked anew and
decided again, it sends the second verdict to the second request only, and the first one still
shows the first verdict. TLC finds that with three calls at once.

*LotSnapshot.* `LotIInv`. The locks keep open changes apart (`ChangesHold`), so every lot, committed
or published, has distinct codes (`LotsAreSound`), and a snapshot is open just as long as its
transaction (`MessagesAreOpen`). Without the slips that `InOrder` excludes, the last snapshot is
the lot (`LastIsLot`), each lot gives no space a code another held in the lot before it
(`LotsFollow`), acknowledgements come in the order of the rows (`AckedInOrder`, `RunInOrder`), and
the edge runs on what it applied last (`EdgeRunsOn`). Without any slip, codes of removed spaces are
never given again (`GoneStaysGone`), so the rows of the edge are those of one lot and of spaces that
are gone (`RowsOf`, `EdgeHasSpaces`): every item of the next snapshot finds its own row or none
(`OutcomesOverwrite`). What an apply does is a recursive function on the items of a snapshot. The
facts about it (`OutcomesInTurn`, `OutcomesSave`, `OutcomesOverwrite`) need an induction, whose library
theorem the provers cannot instantiate; they are proved from the least item at which they fail, which
the library's theorem on well-founded orders provides (`SmallestNumber`). The attempt to prove `ConfigurationAgrees` showed that
it said too much: in order, but with the code of a removed space given to another, a snapshot can
lead two of its spaces to one row of the edge, which then runs on fewer codes than the cloud. It takes
five changes, with which TLC finds it; with three the run does not. The property now says
what is true: every code that is active on the edge is one of the lot's. That they are all there, each
under its id, is `IdsAgree`.

TLC has checked each inductive invariant on the instance of its run before it was proved.

Only model-checked: the liveness properties (`EventuallyAcked` of both channels,
`EventuallyClosed`, `CommandsAnswered`, `MessagesLeave`, `SnapshotsLeave`), which need `ENABLED` and are out
of the prover's reach. Every invariant a run checks is proved.

## 5. Not modelled, and the plan

Payloads and wording are abstracted away throughout, amounts where no property is
about them; so are authentication,
heartbeat columns (`lastSeenAt`, `SyncCursor`, which no query reads back to decide
anything), logging and status endpoints. CRUD modules, screens, reports, the Android app and the
vendored ChirpStack are left out: they have no protocol of their own, and they are most of the
repository's lines. `billing.createInvoice` has no endpoint. A component is *partly* modelled
where an operation of it that changes state is missing from section 2.

Hazards with no property, for want of a module: two overlapping issues of an edge node's key each revoke
the keys they see and leave two ACTIVE (`edge-nodes.service.ts:257`); a webhook finds a payment by
its `paymentKey`, which is stored only by a confirm that succeeded (`payments.service.ts:1264`).

Next modules, in order:

1. `EdgeNodeKeys` and the requests of operators for sections: read-then-write races.
2. The API's background workers, and fee calculation as functions against a reference.
3. `CloudSession` as a refinement of the `Apply` of `EdgeCloudPush`, with an abstract
   specification of a session that only moves forward.

Next theorems: the liveness properties, should `ENABLED` come within reach of the installed prover; and that
`LotAccess` and `LotSnapshot` carry `EventDelivery` out as `EdgeSyncPull` does.
