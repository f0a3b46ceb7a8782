-------------------------- MODULE InvoiceCheckout --------------------------
(***************************************************************************)
(* A member pays for a parked car, with a tenant coupon, on the cloud.  The*)
(* app reserves the coupon for 15 minutes, issues the invoice (finalize-   *)
(* invoice), prepares a Toss payment and confirms it when Toss sends the   *)
(* member back.  An operator may close the session and bill it, Toss       *)
(* reports payments by webhook, the member may give up.  Requests read the *)
(* invoice, await other queries or Toss, and write what follows from what  *)
(* they read.                                                              *)
(*                                                                         *)
(* One session, one coupon, one parking-fee invoice.  An additional-fee    *)
(* invoice is issued and then left alone.                                  *)
(***************************************************************************)
EXTENDS Naturals, FiniteSets

CONSTANTS
  Requests,         \* request slots: how many requests may overlap
  MaxOrders,        \* bound on payments prepared
  MaxFee,           \* the parking fee grows up to this amount
  Discount,         \* what the coupon takes off
  MaxFaults         \* bound on lost answers and restarts

ASSUME RequestsAssumption == IsFiniteSet(Requests)
ASSUME BoundAssumption ==
  MaxOrders \in Nat /\ MaxFee \in Nat \ {0} /\ Discount \in Nat \ {0} /\ MaxFaults \in Nat

VARIABLES
  fee,              \* what the parking costs by now, before the coupon
  session,          \* ParkingSession.status
  exited,           \* ParkingSession.exitTime is set
  linked,           \* ParkingSession.primaryInvoiceId is set
  invoice,          \* the invoice: status, amounts, and whether it names the coupon
  payments,         \* Payment rows by orderId: status and amount
  coupon,           \* TenantCoupon.status; "LAPSED" is RESERVED past its 15 minutes
  taken,            \* at Toss: orders whose money was taken
  task,             \* what each request is doing and what it has read
  faults,           \* how many faults have happened
  mishaps           \* history: overlaps the properties allow for

money == <<invoice, payments, taken>>
place == <<fee, session, exited, linked>>
vars  == <<fee, session, exited, linked, invoice, payments, coupon, taken, task,
           faults, mishaps>>

\* Orders are numbered as they are created (their ids contain the time).
Orders  == 1 .. MaxOrders
Amounts == 0 .. MaxFee

InvoiceStatus == {"none", "ISSUED", "PAID"}
PaymentStatus == {"none", "PENDING", "SUCCESS", "FAILED", "CANCELLED"}
CouponStatus  == {"ASSIGNED", "RESERVED", "LAPSED", "USED"}
SessionStatus == {"ACTIVE", "PAID", "CLOSED"}

Invoices == [status : InvoiceStatus, amount : Amounts, paid : Amounts,
             unpaid : Amounts, coupon : BOOLEAN]

NoInvoice == [status |-> "none", amount |-> 0, paid |-> 0, unpaid |-> 0, coupon |-> FALSE]

\* Where a request stands: at which await of which operation.
Pcs == {"idle", "reserve",
        "read", "freeze", "unfreeze", "price", "sum", "store", "link", "complete",
        "close", "keep", "bill", "billPrice", "upsert", "billLink",
        "assertPrepared", "cancelAll", "cancelStale", "create",
        "assertPaid", "toss", "approved", "refused", "release", "hook", "abandon"}

\* What a request has read: the invoice, orders that were PENDING, whether the session
\* had exited; and what it has computed: the price with or without the coupon, the
\* amount already paid.
Tasks == [pc : Pcs, seen : Invoices, orders : SUBSET Orders, exited : BOOLEAN,
          coupon : BOOLEAN, price : Amounts, paid : Amounts]

Idle == [pc |-> "idle", seen |-> NoInvoice, orders |-> {}, exited |-> FALSE,
         coupon |-> FALSE, price |-> 0, paid |-> 0]

Mishaps == {"couponMoved", "reissued", "repriced", "rivals", "exitOverlapped"}

TypeOK ==
  /\ fee \in 1 .. MaxFee
  /\ session \in SessionStatus
  /\ exited \in BOOLEAN
  /\ linked \in BOOLEAN
  /\ invoice \in Invoices
  /\ payments \in [Orders -> [status : PaymentStatus, amount : Amounts]]
  /\ coupon \in CouponStatus
  /\ taken \in SUBSET Orders
  /\ task \in [Requests -> Tasks]
  /\ faults \in Nat
  /\ mishaps \in SUBSET Mishaps

Init ==
  /\ fee = 1
  /\ session = "ACTIVE"
  /\ exited = FALSE
  /\ linked = FALSE
  /\ invoice = NoInvoice
  /\ payments = [o \in Orders |-> [status |-> "none", amount |-> 0]]
  /\ coupon = "ASSIGNED"
  /\ taken = {}
  /\ task = [r \in Requests |-> Idle]
  /\ faults = 0
  /\ mishaps = {}

-----------------------------------------------------------------------------
(* What requests share *)

Minus(a, b) == IF a > b THEN a - b ELSE 0

At(r, pc)   == task[r].pc = pc
Goto(r, pc) == task' = [task EXCEPT ![r].pc = pc]
End(r)      == task' = [task EXCEPT ![r] = Idle]
Last(r, pc) == task' = [task EXCEPT ![r] = [Idle EXCEPT !.pc = pc]]
Pending     == {o \in Orders : payments[o].status = "PENDING"}
Reserved    == coupon \in {"RESERVED", "LAPSED"}

\* Slip, for the mutation runs: the update does not ask for the status again.
CancelledAnyway(os) ==
  [o \in Orders |-> IF o \in os /\ payments[o].status # "none"
                    THEN [payments[o] EXCEPT !.status = "CANCELLED"] ELSE payments[o]]

\* updateMany where status is PENDING: only those still PENDING are cancelled.
Cancelled(os) ==
  [o \in Orders |-> IF o \in os \cap Pending
                    THEN [payments[o] EXCEPT !.status = "CANCELLED"] ELSE payments[o]]

\* Requests that go by an answer about the coupon, by the invoice they pay, by the session.
Answered == {"sum", "store", "link", "complete", "upsert", "billLink", "toss", "approved"}
Paying   == {"assertPaid", "toss", "approved", "refused"}
Settling == Paying \cup {"hook"}
Finalizing == {"freeze", "unfreeze", "price", "sum", "store", "link"}
Others(r, pcs) == {q \in Requests \ {r} : task[q].pc \in pcs}

\* History: the request r (or, for no request, the clock) moves the coupon.
CouponMoves(others) ==
  mishaps' = mishaps \cup (IF others # {} THEN {"couponMoved"} ELSE {})

\* releaseReservedCouponById: pending payments go with the reservation.
ReleaseCoupon(r) ==
  IF Reserved
  THEN /\ coupon' = "ASSIGNED"
       /\ payments' = Cancelled(Orders)
       /\ CouponMoves(Others(r, Answered))
  ELSE UNCHANGED <<coupon, payments, mishaps>>

\* releaseExpiredReservations, which a question about the coupon starts with.  It
\* and the question are one step: a second clean-up changes nothing.
CleanUp(r) ==
  IF coupon = "LAPSED" THEN ReleaseCoupon(r) ELSE UNCHANGED <<coupon, payments, mishaps>>

\* Slip, for the mutation runs: nobody asks whether the reservation still stands.
CouponHoldsAlways(inv) == TRUE

\* assertInvoiceCouponReservation: does the invoice name no coupon or a live reservation?
CouponHolds(inv) == inv.coupon => coupon = "RESERVED"

\* Only for an invoice that names the coupon does it clean up first.
AskForCoupon(r, inv) ==
  IF inv.coupon THEN CleanUp(r) ELSE UNCHANGED <<coupon, payments, mishaps>>

\* The invoice as a finalize writes it.
Issue(price, paid, withCoupon) ==
  [status |-> IF price > paid THEN "ISSUED" ELSE "PAID", amount |-> price,
   paid |-> paid, unpaid |-> Minus(price, paid), coupon |-> withCoupon]

\* Money Toss has taken and no payment says so.
Unbooked == {o \in taken : payments[o].status # "SUCCESS"}

\* Finalize writes the invoice.  History: was it PAID, was somebody paying it.
WriteInvoice(r, new) ==
  /\ invoice' = new
  /\ mishaps' = mishaps
       \cup (IF invoice.status = "PAID" THEN {"reissued"} ELSE {})
       \cup (IF Others(r, Settling) # {} \/ Unbooked # {} THEN {"repriced"} ELSE {})

\* Slip, for the mutation runs: the payment is booked, the invoice is not.
BookPaymentOnly(o, new) ==
  /\ payments' = [payments EXCEPT ![o].status = "SUCCESS"]
  /\ session' = "PAID"
  /\ UNCHANGED invoice

\* A payment is booked: whatever its status was, and with what was read before.
Book(o, new) ==
  /\ payments' = [payments EXCEPT ![o].status = "SUCCESS"]
  /\ invoice' = new
  /\ session' = "PAID"

-----------------------------------------------------------------------------
(* The world: time, and the member's coupon *)

FeeGrows ==
  /\ fee < MaxFee /\ ~exited
  /\ fee' = fee + 1
  /\ UNCHANGED <<session, exited, linked, money, coupon, task, faults, mishaps>>

Lapse ==
  /\ coupon = "RESERVED"
  /\ coupon' = "LAPSED"
  /\ CouponMoves({q \in Requests : task[q].pc \in Answered})
  /\ UNCHANGED <<place, money, task, faults>>

\* A list of the member's coupons cleans up (mobile-coupon.service.ts), or the member
\* releases the reservation.
ReleaseByMember ==
  /\ Reserved
  /\ coupon' = "ASSIGNED"
  /\ payments' = Cancelled(Orders)
  /\ CouponMoves({q \in Requests : task[q].pc \in Answered})
  /\ UNCHANGED <<place, invoice, taken, task, faults>>

\* reserveCouponForSession: before the invoice is issued, or again for an unpaid invoice
\* that already names the coupon.
Reserve(r) ==
  /\ At(r, "idle")
  /\ session = "ACTIVE" /\ ~exited
  /\ \/ ~linked /\ invoice.status = "none"
     \/ invoice.coupon /\ invoice.paid = 0 /\ invoice.status = "ISSUED"
  /\ CleanUp(r)
  /\ Goto(r, "reserve")
  /\ UNCHANGED <<place, invoice, taken, faults>>

ReserveTx(r) ==
  /\ At(r, "reserve")
  /\ IF coupon = "ASSIGNED"
     THEN /\ coupon' = "RESERVED"
          /\ CouponMoves(Others(r, Answered)
               \cup {q \in {r} : invoice.status # "none" /\ ~invoice.coupon})
     ELSE UNCHANGED <<coupon, mishaps>>
  /\ End(r)
  /\ UNCHANGED <<place, money, faults>>

-----------------------------------------------------------------------------
(* The app issues the invoice: finalizeCurrentInvoice *)

Finalize(r) ==
  /\ At(r, "idle")
  /\ session = "ACTIVE" /\ ~exited
  /\ Goto(r, "read")
  /\ UNCHANGED <<place, money, coupon, faults, mishaps>>

\* An unpaid invoice with a payment under way is frozen, if its coupon still holds.
FinalizeRead(r) ==
  LET seen   == IF linked THEN invoice ELSE NoInvoice
      frozen == seen.status = "ISSUED" /\ seen.unpaid > 0 /\ Pending # {}
      newest == {o \in Pending : \A p \in Pending : p <= o}
  IN  /\ At(r, "read")
      /\ task' = [task EXCEPT ![r] =
           [Idle EXCEPT !.pc = IF frozen THEN "freeze" ELSE "price",
                        !.seen = seen, !.exited = exited,
                        !.orders = IF frozen THEN newest ELSE {}]]
      /\ UNCHANGED <<place, money, coupon, faults, mishaps>>

Freeze(r) ==
  /\ At(r, "freeze")
  /\ AskForCoupon(r, task[r].seen)
  /\ IF CouponHolds(task[r].seen) THEN End(r) ELSE Goto(r, "unfreeze")
  /\ UNCHANGED <<place, invoice, taken, faults>>

Unfreeze(r) ==
  /\ At(r, "unfreeze")
  /\ payments' = Cancelled(task[r].orders)
  /\ task' = [task EXCEPT ![r] = [@ EXCEPT !.pc = "price", !.orders = {}]]
  /\ UNCHANGED <<place, invoice, taken, coupon, faults, mishaps>>

\* calculateReservedCouponDiscount takes off what a live reservation is worth.
PriceIt(r, next) ==
  LET live == coupon = "RESERVED"
  IN  /\ CleanUp(r)
      /\ task' = [task EXCEPT ![r] =
           [@ EXCEPT !.pc = next, !.coupon = live,
                     !.price = IF live THEN Minus(fee, Discount) ELSE fee]]
      /\ UNCHANGED <<place, invoice, taken, faults>>

Price(r) == At(r, "price") /\ PriceIt(r, "sum")

SumPaid(r) ==
  /\ At(r, "sum")
  /\ task' = [task EXCEPT ![r] =
       [@ EXCEPT !.pc = "store", !.paid = IF invoice.status = "PAID" THEN invoice.paid ELSE 0]]
  /\ UNCHANGED <<place, money, coupon, faults, mishaps>>

\* More than was paid becomes an additional-fee invoice; otherwise the invoice is
\* written, or created, which fails when another request has created it (invoiceNo is
\* unique).
Store(r) ==
  LET t   == task[r]
      add == t.paid > 0 /\ t.price > t.paid
  IN  /\ At(r, "store")
      /\ \/ /\ ~add
            /\ t.seen.status # "none" \/ invoice.status = "none"
            /\ WriteInvoice(r, Issue(t.price, t.paid, t.coupon))
            /\ Goto(r, "link")
         \/ /\ ~add
            /\ t.seen.status = "none" /\ invoice.status # "none"
            /\ End(r)
            /\ UNCHANGED <<invoice, mishaps>>
         \/ /\ add
            /\ Goto(r, "link")
            /\ UNCHANGED <<invoice, mishaps>>
      /\ UNCHANGED <<place, payments, taken, coupon, faults>>

\* Slip, for the mutation runs: the coupon is used when the invoice is issued.
LinkUsesCoupon(r) ==
  /\ At(r, "link")
  /\ linked' = TRUE
  /\ exited' = task[r].exited
  /\ IF task[r].coupon THEN Last(r, "complete") ELSE End(r)
  /\ UNCHANGED <<fee, session, money, coupon, faults, mishaps>>

\* The session gets the invoice, and the exit time that was read at first.
Link(r) ==
  LET t == task[r]
  IN  /\ At(r, "link")
      /\ linked' = TRUE
      /\ exited' = t.exited
      /\ IF t.price <= t.paid /\ t.coupon THEN Last(r, "complete") ELSE End(r)
      /\ UNCHANGED <<fee, session, money, coupon, faults, mishaps>>

\* completeReservedCouponForInvoice: a reservation that ended is not an error, one that
\* lapsed is, but nothing is undone.
Complete(r) ==
  /\ At(r, "complete")
  /\ coupon' = IF coupon = "RESERVED" THEN "USED" ELSE coupon
  /\ End(r)
  /\ UNCHANGED <<place, money, faults, mishaps>>

-----------------------------------------------------------------------------
(* An operator closes the session: manualExit *)

ManualExit(r) ==
  /\ At(r, "idle")
  /\ session \in {"ACTIVE", "PAID"} /\ ~exited
  /\ task' = [task EXCEPT ![r] = [Idle EXCEPT !.pc = "close", !.seen = invoice]]
  /\ UNCHANGED <<place, money, coupon, faults, mishaps>>

\* A fully paid invoice is preserved, any other is billed anew.
Close(r) ==
  LET preserve == task[r].seen.status = "PAID" /\ task[r].seen.unpaid = 0
  IN  /\ At(r, "close")
      /\ session' = "CLOSED"
      /\ exited' = TRUE
      /\ Last(r, IF preserve THEN "keep" ELSE "bill")
      /\ mishaps' = mishaps \cup
           (IF Others(r, Finalizing) # {}
            THEN {"exitOverlapped"} ELSE {})
      /\ UNCHANGED <<fee, linked, money, coupon, faults>>

KeepPaid(r) ==
  /\ At(r, "keep")
  /\ linked' = TRUE
  /\ End(r)
  /\ UNCHANGED <<fee, session, exited, money, coupon, faults, mishaps>>

\* BillingService.finalizeInvoiceForSessionId leaves an invoice it reads as PAID.
BillRead(r) ==
  LET seen == IF linked THEN invoice ELSE NoInvoice
  IN  /\ At(r, "bill")
      /\ IF seen.status = "PAID" /\ seen.unpaid = 0
         THEN End(r)
         ELSE task' = [task EXCEPT ![r] = [@ EXCEPT !.pc = "billPrice", !.seen = seen]]
      /\ UNCHANGED <<place, money, coupon, faults, mishaps>>

BillPrice(r) == At(r, "billPrice") /\ PriceIt(r, "upsert")

Upsert(r) ==
  /\ At(r, "upsert")
  /\ WriteInvoice(r, Issue(task[r].price, task[r].seen.paid, task[r].coupon))
  /\ Goto(r, "billLink")
  /\ UNCHANGED <<place, payments, taken, coupon, faults>>

\* Slip, for the mutation runs: the bill leaves the exit time as it found it before.
BillLinkWithoutExit(r) ==
  LET t == task[r]
  IN  /\ At(r, "billLink")
      /\ linked' = TRUE
      /\ exited' = t.exited
      /\ IF t.price <= t.seen.paid /\ t.coupon THEN Last(r, "complete") ELSE End(r)
      /\ UNCHANGED <<fee, session, money, coupon, faults, mishaps>>

BillLink(r) ==
  LET t == task[r]
  IN  /\ At(r, "billLink")
      /\ linked' = TRUE
      /\ exited' = TRUE
      /\ IF t.price <= t.seen.paid /\ t.coupon THEN Last(r, "complete") ELSE End(r)
      /\ UNCHANGED <<fee, session, money, coupon, faults, mishaps>>

-----------------------------------------------------------------------------
(* Toss checkout: prepare, confirm, webhook, give up *)

Unused == {o \in Orders : payments[o].status = "none"}

\* createPendingPayment.  The bound on orders counts those who are about to create one.
Prepare(r) ==
  /\ At(r, "idle")
  /\ invoice.status # "none" /\ invoice.unpaid > 0
  /\ Cardinality(Unused) >
       Cardinality(Others(r, {"assertPrepared", "cancelStale", "create"}))
  /\ task' = [task EXCEPT ![r] = [Idle EXCEPT !.pc = "assertPrepared", !.seen = invoice,
                                             !.orders = Pending]]
  /\ UNCHANGED <<place, money, coupon, faults, mishaps>>

AssertPrepared(r) ==
  /\ At(r, "assertPrepared")
  /\ AskForCoupon(r, task[r].seen)
  /\ IF CouponHolds(task[r].seen) THEN Goto(r, "cancelStale") ELSE Last(r, "cancelAll")
  /\ UNCHANGED <<place, invoice, taken, faults>>

CancelAll(r) ==
  /\ At(r, "cancelAll")
  /\ payments' = Cancelled(Orders)
  /\ End(r)
  /\ UNCHANGED <<place, invoice, taken, coupon, faults, mishaps>>

\* One payment that was pending with the right amount is kept and returned.
CancelStale(r) ==
  LET t    == task[r]
      fits == {o \in t.orders : payments[o].amount = t.seen.unpaid}
  IN  /\ At(r, "cancelStale")
      /\ \/ \E o \in fits : payments' = Cancelled(t.orders \ {o}) /\ End(r)
         \/ fits = {} /\ payments' = Cancelled(t.orders) /\ Goto(r, "create")
      /\ UNCHANGED <<place, invoice, taken, coupon, faults, mishaps>>

Create(r) ==
  LET o == CHOOSE u \in Unused : \A v \in Unused : u <= v
  IN  /\ At(r, "create")
      /\ payments' = [payments EXCEPT ![o] = [status |-> "PENDING",
                                             amount |-> task[r].seen.unpaid]]
      /\ End(r)
      /\ UNCHANGED <<place, invoice, taken, coupon, faults, mishaps>>

\* Slip, for the mutation runs: the amount is not compared with the invoice.
ConfirmAnyAmount(r) == \E o \in Orders :
  /\ At(r, "idle")
  /\ payments[o].status = "PENDING"
  /\ task' = [task EXCEPT ![r] = [Idle EXCEPT !.pc = "assertPaid", !.seen = invoice,
                                             !.orders = {o}]]
  /\ mishaps' = mishaps \cup (IF Others(r, Paying) # {} THEN {"rivals"} ELSE {})
  /\ UNCHANGED <<place, money, coupon, faults>>

\* publicConfirmTossPayment.  A payment already confirmed only completes the coupon.
Confirm(r) == \E o \in Orders :
  LET amount == payments[o].amount
  IN  /\ At(r, "idle")
      /\ \/ /\ payments[o].status = "SUCCESS"
            /\ Last(r, "complete")
         \/ /\ payments[o].status = "PENDING"
            /\ invoice.unpaid = amount /\ invoice.amount - invoice.paid = amount
            /\ task' = [task EXCEPT ![r] = [Idle EXCEPT !.pc = "assertPaid", !.seen = invoice,
                                                       !.orders = {o}]]
      /\ mishaps' = mishaps \cup (IF Others(r, Paying) # {} THEN {"rivals"} ELSE {})
      /\ UNCHANGED <<place, money, coupon, faults>>

AssertPaid(r) ==
  /\ At(r, "assertPaid")
  /\ AskForCoupon(r, task[r].seen)
  /\ IF CouponHolds(task[r].seen) THEN Goto(r, "toss") ELSE End(r)
  /\ UNCHANGED <<place, invoice, taken, faults>>

\* confirmTossWithProvider.  Toss takes the money of an order once.
TossApproves(r) ==
  /\ At(r, "toss")
  /\ task[r].orders \cap taken = {}
  /\ taken' = taken \cup task[r].orders
  /\ Goto(r, "approved")
  /\ UNCHANGED <<place, invoice, payments, coupon, faults, mishaps>>

TossRefuses(r) ==
  /\ At(r, "toss")
  /\ Goto(r, "refused")
  /\ UNCHANGED <<place, money, coupon, faults, mishaps>>

TossAnswerLost(r) ==
  /\ At(r, "toss")
  /\ faults < MaxFaults
  /\ faults' = faults + 1
  /\ taken' = taken \cup task[r].orders
  /\ Goto(r, "refused")
  /\ UNCHANGED <<place, invoice, payments, coupon, mishaps>>

Refused(r) ==
  /\ At(r, "refused")
  /\ payments' = [o \in Orders |-> IF o \in task[r].orders
                                  THEN [payments[o] EXCEPT !.status = "FAILED"]
                                  ELSE payments[o]]
  /\ Last(r, "release")
  /\ UNCHANGED <<place, invoice, taken, coupon, faults, mishaps>>

Release(r) ==
  /\ At(r, "release")
  /\ ReleaseCoupon(r)
  /\ End(r)
  /\ UNCHANGED <<place, invoice, taken, faults>>

\* The transaction after Toss's approval.  The invoice's metadata, which names the
\* coupon, is written back as it was read.
Approved(r) ==
  LET seen == task[r].seen
  IN  /\ At(r, "approved")
      /\ \E o \in task[r].orders :
           Book(o, [invoice EXCEPT !.status = "PAID", !.paid = seen.amount, !.unpaid = 0,
                                   !.coupon = seen.coupon])
      /\ Last(r, "complete")
      /\ UNCHANGED <<fee, exited, linked, taken, coupon, faults, mishaps>>

\* webhook with status DONE, found by its orderId.
Webhook(r) == \E o \in taken :
  /\ At(r, "idle")
  /\ payments[o].status # "SUCCESS"
  /\ task' = [task EXCEPT ![r] = [Idle EXCEPT !.pc = "hook", !.seen = invoice, !.orders = {o}]]
  /\ UNCHANGED <<place, money, coupon, faults, mishaps>>

HookTx(r) ==
  /\ At(r, "hook")
  /\ \E o \in task[r].orders :
       Book(o, [invoice EXCEPT !.status = "PAID", !.paid = task[r].seen.amount, !.unpaid = 0])
  /\ Last(r, "complete")
  /\ UNCHANGED <<fee, exited, linked, taken, coupon, faults, mishaps>>

\* cancelPublicTossPayment, for one order or for all that are pending.
GiveUp(r) == \E os \in {Pending} \cup {Pending \cap {o} : o \in Orders} :
  /\ At(r, "idle")
  /\ invoice.status = "ISSUED" /\ invoice.unpaid > 0
  /\ task' = [task EXCEPT ![r] = [Idle EXCEPT !.pc = "abandon", !.orders = os]]
  /\ UNCHANGED <<place, money, coupon, faults, mishaps>>

Abandon(r) ==
  /\ At(r, "abandon")
  /\ payments' = Cancelled(task[r].orders)
  /\ Last(r, "release")
  /\ UNCHANGED <<place, invoice, taken, coupon, faults, mishaps>>

Restart ==
  /\ faults < MaxFaults
  /\ \E r \in Requests : ~At(r, "idle")
  /\ faults' = faults + 1
  /\ task' = [r \in Requests |-> Idle]
  /\ UNCHANGED <<place, money, coupon, mishaps>>

-----------------------------------------------------------------------------
CouponStep(r)   == Reserve(r) \/ ReserveTx(r) \/ Complete(r) \/ Release(r)
FinalizeStep(r) == \/ Finalize(r) \/ FinalizeRead(r) \/ Freeze(r) \/ Unfreeze(r)
                   \/ Price(r) \/ SumPaid(r) \/ Store(r) \/ Link(r)
ExitStep(r)     == \/ ManualExit(r) \/ Close(r) \/ KeepPaid(r) \/ BillRead(r)
                   \/ BillPrice(r) \/ Upsert(r) \/ BillLink(r)
PrepareStep(r)  == Prepare(r) \/ AssertPrepared(r) \/ CancelAll(r) \/ CancelStale(r) \/ Create(r)
ConfirmStep(r)  == \/ Confirm(r) \/ AssertPaid(r) \/ TossApproves(r) \/ TossRefuses(r)
                   \/ TossAnswerLost(r) \/ Refused(r) \/ Approved(r)
OtherStep(r)    == Webhook(r) \/ HookTx(r) \/ GiveUp(r) \/ Abandon(r)

Next ==
  \/ FeeGrows \/ Lapse \/ ReleaseByMember \/ Restart
  \/ \E r \in Requests : \/ CouponStep(r) \/ FinalizeStep(r) \/ ExitStep(r)
                         \/ PrepareStep(r) \/ ConfirmStep(r) \/ OtherStep(r)

Spec == Init /\ [][Next]_vars

-----------------------------------------------------------------------------
(* Properties *)

AtRest == \A r \in Requests : At(r, "idle")
Without(excuses) == faults = 0 /\ excuses \cap mishaps = {}

\* An invoice paid at the discount has used the coupon up, unless the reservation began
\* or ended while a request went by what it had been told of it, or a paid invoice was
\* issued again (a webhook may then book what the coupon no longer stands for).  Confirm
\* asks about the coupon before it goes to Toss and uses it after; finalize prices with
\* it, writes the invoice, and uses it three awaits later.
DiscountCostsCoupon ==
  AtRest /\ Without({"couponMoved", "reissued"}) /\ invoice.status = "PAID" /\ invoice.coupon
    => coupon = "USED"

\* A coupon that is used up has bought its discount: the invoice is paid and names it.
\* Not so if a paid invoice was issued again, or the coupon was reserved while the
\* invoice was priced without it.
CouponBuysDiscount ==
  AtRest /\ Without({"couponMoved", "reissued"}) /\ coupon = "USED"
    => invoice.status = "PAID" /\ invoice.coupon

\* The member's money is taken once, and once more for every fault; more often only if
\* two confirms were at work together or a paid invoice was issued again.  The status
\* and amount checks of the confirm have to see to that: Toss knows orders, not invoices.
OneCharge ==
  {"rivals", "reissued"} \cap mishaps = {} => Cardinality(taken) <= 1 + faults

\* A PAID invoice is paid in full, with an amount that Toss has taken, unless it was
\* priced anew while a confirm or a late webhook was going to book the old amount.
PaidMatchesTaken ==
  invoice.status = "PAID" /\ "repriced" \notin mishaps =>
    /\ invoice.paid >= invoice.amount
    /\ invoice.paid = 0 \/ \E o \in taken : payments[o].amount = invoice.paid

\* When nothing is under way, money that was taken is on a payment and on the invoice;
\* cancelled reservations, abandoned checkouts and refused confirms take nothing back.
MoneyIsBooked ==
  AtRest /\ Without({"rivals", "reissued"}) /\ taken # {}
    => invoice.status = "PAID" /\ Unbooked = {}

\* A session the operator closed keeps its exit time, unless the app was issuing its
\* invoice meanwhile: that writes back the exit time it read before.
ClosedHasExit == session = "CLOSED" => exited \/ "exitOverlapped" \in mishaps

\* No payment is a SUCCESS whose money Toss has not taken.
SuccessWasTaken == \A o \in Orders : payments[o].status = "SUCCESS" => o \in taken

\* Who is going to book a payment has an order whose money was taken.
BookersHoldTaken ==
  \A r \in Requests : task[r].pc \in {"approved", "hook"} => task[r].orders \subseteq taken

\* An exit time that was read as missing is missing still, or the exit came meanwhile.
ReadBeforeExit ==
  \A r \in Requests :
    session = "CLOSED" /\ task[r].pc \in Finalizing /\ ~task[r].exited
      => "exitOverlapped" \in mishaps

-----------------------------------------------------------------------------
(* What the checkout goes by: the strengthenings the proofs need *)

Preparing == {"assertPrepared", "cancelStale", "create"}
Priced    == {"sum", "store", "link", "upsert", "billLink"}

\* Nothing is paid of an invoice that is not PAID, and nothing left to pay of one that is.
Sound(inv) == IF inv.status = "PAID" THEN inv.unpaid = 0
              ELSE inv.paid = 0 /\ inv.unpaid = inv.amount

\* That goes for the invoice, for what requests have read of it, and a bill goes ahead
\* only without a PAID one.
InvoicesSound ==
  /\ Sound(invoice)
  /\ \A r \in Requests :
       Sound(task[r].seen) /\ (task[r].pc \in {"billPrice", "upsert"} => task[r].seen.status # "PAID")

\* Payments are created for an unpaid amount, and money is taken for payments that exist.
OrdersExist ==
  /\ \A o \in Orders : payments[o].status = "PENDING" => payments[o].amount > 0
  /\ \A o \in taken : payments[o].status # "none"
  /\ \A r \in Requests :
       /\ task[r].pc \in Preparing => task[r].seen.unpaid > 0
       /\ task[r].pc \in Settling =>
            \E o \in Orders : task[r].orders = {o} /\ payments[o].status # "none"

\* There is an invoice before there are payments.
InvoiceFirst ==
  invoice.status = "none" =>
    /\ \A o \in Orders : payments[o].status = "none"
    /\ \A r \in Requests : task[r].pc \notin Preparing

\* Who is about to create a payment finds an order for it (the bound in Prepare).
OrdersLeft == Cardinality({r \in Requests : task[r].pc \in Preparing}) <= Cardinality(Unused)

\* Without rivals one request at a time is paying.
OnePayer ==
  "rivals" \notin mishaps =>
    \A q, r \in Requests : task[q].pc \in Paying /\ task[r].pc \in Paying => q = r

\* Before Toss takes an order's money no more was taken than faults account for; one
\* more is on its way to the invoice, or has arrived there.
ChargesCounted ==
  {"rivals", "reissued"} \cap mishaps = {} =>
    /\ OneCharge
    /\ \A r \in Requests : task[r].pc \in {"assertPaid", "toss"} => Cardinality(taken) <= faults
    /\ Cardinality(taken) > faults =>
         invoice.status = "PAID" \/ \E r \in Requests : task[r].pc = "approved"

ChargeInv == InvoicesSound /\ OrdersExist /\ InvoiceFirst /\ OrdersLeft /\ OnePayer /\ ChargesCounted

\* An amount of which Toss has taken the money.
Backed(amount) == amount = 0 \/ \E o \in taken : payments[o].amount = amount

\* Unless the invoice is priced anew meanwhile, who settles it settles its amount, which
\* is also that of the payment; so is the amount of money no payment says was taken.
PricesKept ==
  "repriced" \notin mishaps =>
    /\ \A r \in Requests : task[r].pc \in Settling =>
         /\ task[r].seen.amount = invoice.amount
         /\ \A o \in task[r].orders : payments[o].amount = invoice.amount
    /\ \A o \in Unbooked : payments[o].amount = invoice.amount
    /\ \A r \in Requests : task[r].pc = "store" => Backed(task[r].paid)
    /\ Backed(invoice.paid)
    /\ invoice.status = "PAID" => invoice.paid >= invoice.amount

\* Money that was taken is on the invoice, or somebody is going to book it.
TakenIsHeld ==
  Without({"reissued"}) /\ taken # {} =>
    invoice.status = "PAID" \/ \E r \in Requests : task[r].pc = "approved"

\* Money that no payment says was taken is somebody's to book, and who goes to Toss or
\* comes back refused has no part in it.
UnbookedIsHeld ==
  Without({"rivals"}) =>
    /\ \A o \in Unbooked : \E r \in Requests : task[r].pc = "approved" /\ o \in task[r].orders
    /\ \A r \in Requests :
         task[r].pc \in {"assertPaid", "toss", "refused"} => task[r].orders \cap taken = {}

MoneyInv == PricesKept /\ TakenIsHeld /\ UnbookedIsHeld

\* Who was told that the reservation stands finds it standing, or used.
ToldOfCoupon ==
  \A r \in Requests :
    /\ task[r].pc \in {"toss", "approved"} /\ task[r].seen.coupon => coupon \in {"RESERVED", "USED"}
    /\ task[r].pc \in Priced =>
         IF task[r].coupon THEN coupon \in {"RESERVED", "USED"} ELSE coupon # "RESERVED"

\* An invoice without the coupon stays without, for those who pay it too.
NoCouponLater ==
  /\ invoice.status # "none" /\ ~invoice.coupon => coupon \notin {"RESERVED", "USED"}
  /\ \A r \in Requests :
       task[r].pc \in {"assertPaid", "toss", "approved"} /\ ~task[r].seen.coupon => ~invoice.coupon

\* Requests that use the coupon up as their last step, or will.
Completing(r) ==
  \/ At(r, "complete")
  \/ At(r, "link") /\ task[r].coupon /\ task[r].price <= task[r].paid
  \/ At(r, "billLink") /\ task[r].coupon /\ task[r].price <= task[r].seen.paid

\* The coupon is used up for a PAID invoice, and who makes an invoice PAID uses it up.
UsedWhenPaid ==
  /\ \A o \in Orders : payments[o].status = "SUCCESS" => invoice.status = "PAID"
  /\ \A r \in Requests : Completing(r) => invoice.status = "PAID"
  /\ coupon = "USED" => invoice.status = "PAID"
  /\ invoice.status = "PAID" /\ invoice.coupon =>
       \/ coupon = "USED"
       \/ coupon = "RESERVED" /\ (\E r \in Requests : Completing(r))

CouponInv ==
  Without({"couponMoved", "reissued"}) => ToldOfCoupon /\ NoCouponLater /\ UsedWhenPaid

\* What every step preserves.
IInv ==
  /\ TypeOK /\ SuccessWasTaken /\ BookersHoldTaken
  /\ ClosedHasExit /\ ReadBeforeExit
  /\ ChargeInv /\ MoneyInv /\ CouponInv

\* "기존 결제 청구서는 변경할 수 없으므로": an invoice that is paid cannot be changed
\* (billing.service.ts:189, parking-sessions.service.ts:1120).
PaidInvoiceUnchanged ==
  [][invoice.status = "PAID" =>
       invoice'.status = "PAID" /\ invoice'.amount = invoice.amount]_vars
=============================================================================
