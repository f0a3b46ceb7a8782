---------------------- MODULE InvoiceCheckout_proofs ----------------------
(***************************************************************************)
(* Proofs about the checkout of one invoice, for any number of requests,   *)
(* payments and faults: no payment is a SUCCESS without Toss's money, a    *)
(* closed session keeps its exit time unless its invoice was being issued  *)
(* when it was closed, the member is charged once and once more for every  *)
(* fault, what was taken is what a PAID invoice says and is booked, and a  *)
(* coupon and its discount go together.                                    *)
(***************************************************************************)
EXTENDS InvoiceCheckout, FiniteSetTheorems, WellFoundedInduction, TLAPS

-----------------------------------------------------------------------------
(* What the helpers return *)

LEMMA AmountsFacts ==
  /\ 0 \in Amounts
  /\ \A a, b \in Amounts : Minus(a, b) \in Amounts
  /\ \A a \in 1 .. MaxFee : a \in Amounts /\ Minus(a, Discount) \in Amounts
  BY BoundAssumption DEF Amounts, Minus

LEMMA NoInvoiceType == NoInvoice \in Invoices
  BY AmountsFacts DEF NoInvoice, Invoices, InvoiceStatus

LEMMA IdleType == Idle \in Tasks
  BY NoInvoiceType, AmountsFacts DEF Idle, Tasks, Pcs

LEMMA IssueType ==
  ASSUME NEW price \in Amounts, NEW paid \in Amounts, NEW c \in BOOLEAN
  PROVE  Issue(price, paid, c) \in Invoices
  BY AmountsFacts DEF Issue, Invoices, InvoiceStatus

\* A request that moves on keeps or drops what it has read.
LEMMA MoveTypes ==
  ASSUME TypeOK, NEW r \in Requests, NEW pc \in Pcs
  PROVE  /\ Goto(r, pc) => task' \in [Requests -> Tasks]
         /\ Last(r, pc) => task' \in [Requests -> Tasks]
         /\ End(r)      => task' \in [Requests -> Tasks]
  <1>1. [task[r] EXCEPT !.pc = pc] \in Tasks
    BY DEF TypeOK, Tasks
  <1>2. [Idle EXCEPT !.pc = pc] \in Tasks
    BY IdleType DEF Tasks
  <1> QED BY <1>1, <1>2, IdleType DEF TypeOK, Goto, Last, End

Rows == [status : PaymentStatus, amount : Amounts]

LEMMA CancelledType ==
  ASSUME TypeOK, NEW os
  PROVE  /\ Cancelled(os) \in [Orders -> Rows]
         /\ \A o \in Orders : Cancelled(os)[o].status = "SUCCESS"
                                => payments[o].status = "SUCCESS"
  BY DEF TypeOK, Cancelled, Pending, PaymentStatus, Rows

LEMMA ReleaseTypes ==
  ASSUME TypeOK, NEW r, NEW inv, ReleaseCoupon(r) \/ CleanUp(r) \/ AskForCoupon(r, inv)
  PROVE  /\ coupon' \in CouponStatus
         /\ payments' \in [Orders -> Rows]
         /\ mishaps' \in SUBSET Mishaps
         /\ mishaps \subseteq mishaps'
         /\ \A o \in Orders : payments'[o].status = "SUCCESS"
                                => payments[o].status = "SUCCESS"
  <1>1. \/ UNCHANGED <<coupon, payments, mishaps>>
        \/ /\ coupon' = "ASSIGNED"
           /\ payments' = Cancelled(Orders)
           /\ mishaps' \in {mishaps, mishaps \cup {"couponMoved"}}
    BY DEF ReleaseCoupon, CleanUp, AskForCoupon, CouponMoves
  <1>2. /\ payments \in [Orders -> Rows] /\ coupon \in CouponStatus
        /\ mishaps \in SUBSET Mishaps
    BY DEF TypeOK, Rows
  <1> QED BY <1>1, <1>2, CancelledType DEF CouponStatus, Mishaps

LEMMA InvoiceWritten ==
  ASSUME TypeOK, NEW r, NEW new \in Invoices, WriteInvoice(r, new)
  PROVE  /\ invoice' \in Invoices
         /\ mishaps' \in SUBSET Mishaps
         /\ mishaps \subseteq mishaps'
  BY DEF TypeOK, WriteInvoice, Mishaps

LEMMA Booked ==
  ASSUME TypeOK, NEW o \in Orders, NEW new \in Invoices, Book(o, new)
  PROVE  /\ payments' \in [Orders -> Rows]
         /\ invoice' \in Invoices
         /\ session' \in SessionStatus
         /\ \A p \in Orders : payments'[p].status = "SUCCESS"
                                => p = o \/ payments[p].status = "SUCCESS"
  BY DEF TypeOK, Book, Rows, PaymentStatus, SessionStatus

-----------------------------------------------------------------------------
(* Types *)

LEMMA InitTypeOK == Init => TypeOK
  <1> SUFFICES ASSUME Init PROVE TypeOK
    OBVIOUS
  <1>1. fee \in 1 .. MaxFee /\ faults \in Nat
    BY BoundAssumption DEF Init
  <1>2. payments \in [Orders -> Rows]
    BY AmountsFacts DEF Init, Rows, PaymentStatus
  <1>3. task \in [Requests -> Tasks]
    BY IdleType DEF Init
  <1>4. invoice \in Invoices
    BY NoInvoiceType DEF Init
  <1> QED BY <1>1, <1>2, <1>3, <1>4
          DEF Init, TypeOK, SessionStatus, CouponStatus, Mishaps, Rows

LEMMA CouponTypes ==
  ASSUME TypeOK, NEW r \in Requests, CouponStep(r)
  PROVE  TypeOK'
  <1> USE DEF place, money
  <1>1. CASE Reserve(r)
    BY <1>1, ReleaseTypes, MoveTypes DEF TypeOK, Reserve, Pcs, Rows
  <1>2. CASE ReserveTx(r)
    BY <1>2, MoveTypes DEF TypeOK, ReserveTx, CouponMoves, CouponStatus, Mishaps, Pcs
  <1>3. CASE Complete(r)
    BY <1>3, MoveTypes DEF TypeOK, Complete, CouponStatus, Pcs
  <1>4. CASE Release(r)
    BY <1>4, ReleaseTypes, MoveTypes DEF TypeOK, Release, Pcs, Rows
  <1> QED BY <1>1, <1>2, <1>3, <1>4 DEF CouponStep

LEMMA PricedTypes ==
  ASSUME TypeOK, NEW r \in Requests, NEW next \in Pcs, PriceIt(r, next)
  PROVE  TypeOK'
  <1> DEFINE live  == coupon = "RESERVED"
             price == IF live THEN Minus(fee, Discount) ELSE fee
  <1>1. price \in Amounts /\ live \in BOOLEAN
    BY AmountsFacts DEF TypeOK
  <1>2. task' = [task EXCEPT ![r] = [task[r] EXCEPT !.pc = next, !.coupon = live,
                                                    !.price = price]]
    BY DEF PriceIt
  <1> HIDE DEF live, price
  <1>3. [task[r] EXCEPT !.pc = next, !.coupon = live, !.price = price] \in Tasks
    BY <1>1 DEF TypeOK, Tasks
  <1>4. task' \in [Requests -> Tasks]
    BY <1>2, <1>3 DEF TypeOK
  <1> QED BY <1>4, ReleaseTypes DEF TypeOK, PriceIt, place, Rows

LEMMA FinalizeTypes ==
  ASSUME TypeOK, NEW r \in Requests, FinalizeStep(r)
  PROVE  TypeOK'
  <1> USE DEF place, money
  <1>1. CASE Finalize(r)
    BY <1>1, MoveTypes DEF TypeOK, Finalize, Pcs
  <1>2. CASE FinalizeRead(r)
    <2> DEFINE seen   == IF linked THEN invoice ELSE NoInvoice
               frozen == seen.status = "ISSUED" /\ seen.unpaid > 0 /\ Pending # {}
               newest == {o \in Pending : \A p \in Pending : p <= o}
               new    == [Idle EXCEPT !.pc = IF frozen THEN "freeze" ELSE "price",
                                      !.seen = seen, !.exited = exited,
                                      !.orders = IF frozen THEN newest ELSE {}]
    <2>1. seen \in Invoices
      BY NoInvoiceType DEF TypeOK
    <2>2. (IF frozen THEN newest ELSE {}) \in SUBSET Orders
      BY DEF Pending
    <2>3. (IF frozen THEN "freeze" ELSE "price") \in Pcs
      BY DEF Pcs
    <2> HIDE DEF seen, frozen, newest
    <2>4. new \in Tasks
      BY <2>1, <2>2, <2>3, IdleType DEF Tasks, TypeOK
    <2>5. task' = [task EXCEPT ![r] = new]
      BY <1>2 DEF FinalizeRead, seen, frozen, newest
    <2> HIDE DEF new
    <2>6. task' \in [Requests -> Tasks]
      BY <2>4, <2>5 DEF TypeOK
    <2> QED BY <1>2, <2>6 DEF TypeOK, FinalizeRead
  <1>3. CASE Freeze(r)
    BY <1>3, ReleaseTypes, MoveTypes DEF TypeOK, Freeze, Pcs, Rows
  <1>4. CASE Unfreeze(r)
    <2>1. [task[r] EXCEPT !.pc = "price", !.orders = {}] \in Tasks
      <3>1. task[r] \in Tasks
        BY DEF TypeOK
      <3> QED BY <3>1 DEF Tasks, Pcs
    <2>2. task' \in [Requests -> Tasks]
      BY <1>4, <2>1 DEF TypeOK, Unfreeze
    <2> QED BY <1>4, <2>2, CancelledType DEF TypeOK, Unfreeze, Rows
  <1>5. CASE Price(r)
    BY <1>5, PricedTypes DEF Price, Pcs
  <1>6. CASE SumPaid(r)
    <2> DEFINE paid == IF invoice.status = "PAID" THEN invoice.paid ELSE 0
    <2>1. paid \in Amounts
      BY AmountsFacts DEF TypeOK, Invoices
    <2>2. task' = [task EXCEPT ![r] = [task[r] EXCEPT !.pc = "store", !.paid = paid]]
      BY <1>6 DEF SumPaid
    <2> HIDE DEF paid
    <2>3. [task[r] EXCEPT !.pc = "store", !.paid = paid] \in Tasks
      <3>1. task[r] \in Tasks
        BY DEF TypeOK
      <3> QED BY <2>1, <3>1 DEF Tasks, Pcs
    <2>4. task' \in [Requests -> Tasks]
      BY <2>2, <2>3 DEF TypeOK
    <2> QED BY <1>6, <2>4 DEF TypeOK, SumPaid
  <1>7. CASE Store(r)
    <2>1. Issue(task[r].price, task[r].paid, task[r].coupon) \in Invoices
      BY IssueType DEF TypeOK, Tasks
    <2>2. invoice' \in Invoices /\ mishaps' \in SUBSET Mishaps
      BY <1>7, <2>1, InvoiceWritten DEF Store, TypeOK
    <2>3. task' \in [Requests -> Tasks]
      BY <1>7, MoveTypes DEF Store, Pcs
    <2> QED BY <1>7, <2>2, <2>3 DEF TypeOK, Store
  <1>8. CASE Link(r)
    BY <1>8, MoveTypes DEF TypeOK, Link, Tasks, Pcs
  <1> QED BY <1>1, <1>2, <1>3, <1>4, <1>5, <1>6, <1>7, <1>8 DEF FinalizeStep

LEMMA ExitTypes ==
  ASSUME TypeOK, NEW r \in Requests, ExitStep(r)
  PROVE  TypeOK'
  <1> USE DEF place, money
  <1>1. CASE ManualExit(r)
    <2>1. [Idle EXCEPT !.pc = "close", !.seen = invoice] \in Tasks
      BY IdleType DEF Tasks, TypeOK, Pcs
    <2> QED BY <1>1, <2>1 DEF TypeOK, ManualExit
  <1>2. CASE Close(r)
    <2>1. PICK pc \in Pcs : Last(r, pc)
      BY <1>2 DEF Close, Pcs
    <2>2. task' \in [Requests -> Tasks]
      BY <2>1, MoveTypes
    <2>3. mishaps' \in SUBSET Mishaps
      BY <1>2 DEF TypeOK, Close, Mishaps
    <2> QED BY <1>2, <2>2, <2>3 DEF TypeOK, Close, SessionStatus
  <1>3. CASE KeepPaid(r)
    BY <1>3, MoveTypes DEF TypeOK, KeepPaid, Pcs
  <1>4. CASE BillRead(r)
    <2> DEFINE seen == IF linked THEN invoice ELSE NoInvoice
    <2>1. seen \in Invoices
      BY NoInvoiceType DEF TypeOK
    <2>2. End(r) \/ task' = [task EXCEPT ![r] = [@ EXCEPT !.pc = "billPrice", !.seen = seen]]
      BY <1>4 DEF BillRead
    <2> HIDE DEF seen
    <2>3. [task[r] EXCEPT !.pc = "billPrice", !.seen = seen] \in Tasks
      <3>1. task[r] \in Tasks
        BY DEF TypeOK
      <3> QED BY <2>1, <3>1 DEF Tasks, Pcs
    <2>4. task' \in [Requests -> Tasks]
      BY <2>2, <2>3, MoveTypes DEF TypeOK, Pcs
    <2> QED BY <1>4, <2>4 DEF TypeOK, BillRead
  <1>5. CASE BillPrice(r)
    BY <1>5, PricedTypes DEF BillPrice, Pcs
  <1>6. CASE Upsert(r)
    <2>1. Issue(task[r].price, task[r].seen.paid, task[r].coupon) \in Invoices
      BY IssueType DEF TypeOK, Tasks, Invoices
    <2>2. invoice' \in Invoices /\ mishaps' \in SUBSET Mishaps
      BY <1>6, <2>1, InvoiceWritten DEF Upsert
    <2>3. task' \in [Requests -> Tasks]
      BY <1>6, MoveTypes DEF Upsert, Pcs
    <2> QED BY <1>6, <2>2, <2>3 DEF TypeOK, Upsert
  <1>7. CASE BillLink(r)
    BY <1>7, MoveTypes DEF TypeOK, BillLink, Pcs
  <1> QED BY <1>1, <1>2, <1>3, <1>4, <1>5, <1>6, <1>7 DEF ExitStep

LEMMA PrepareTypes ==
  ASSUME TypeOK, NEW r \in Requests, PrepareStep(r)
  PROVE  TypeOK'
  <1> USE DEF place, money
  <1>1. CASE Prepare(r)
    <2>1. [Idle EXCEPT !.pc = "assertPrepared", !.seen = invoice, !.orders = Pending] \in Tasks
      BY IdleType DEF Tasks, TypeOK, Pcs, Pending
    <2> QED BY <1>1, <2>1 DEF TypeOK, Prepare
  <1>2. CASE AssertPrepared(r)
    BY <1>2, ReleaseTypes, MoveTypes DEF TypeOK, AssertPrepared, Pcs, Rows
  <1>3. CASE CancelAll(r)
    BY <1>3, CancelledType, MoveTypes DEF TypeOK, CancelAll, Pcs, Rows
  <1>4. CASE CancelStale(r)
    <2>1. payments' \in [Orders -> Rows]
      BY <1>4, CancelledType DEF CancelStale
    <2>2. task' \in [Requests -> Tasks]
      BY <1>4, MoveTypes DEF CancelStale, Pcs
    <2> QED BY <1>4, <2>1, <2>2 DEF TypeOK, CancelStale, Rows
  <1>5. CASE Create(r)
    <2>1. task[r].seen.unpaid \in Amounts
      BY DEF TypeOK, Tasks, Invoices
    <2>2. payments' \in [Orders -> Rows]
      BY <1>5, <2>1 DEF TypeOK, Create, Rows, PaymentStatus
    <2>3. task' \in [Requests -> Tasks]
      BY <1>5, MoveTypes DEF Create, Pcs
    <2> QED BY <1>5, <2>2, <2>3 DEF TypeOK, Create, Rows
  <1> QED BY <1>1, <1>2, <1>3, <1>4, <1>5 DEF PrepareStep

\* A request that takes up an order.
LEMMA TakeUpTypes ==
  ASSUME TypeOK, NEW r \in Requests, NEW pc \in Pcs, NEW os \in SUBSET Orders
  PROVE  /\ [Idle EXCEPT !.pc = pc, !.seen = invoice, !.orders = os] \in Tasks
         /\ [Idle EXCEPT !.pc = pc, !.orders = os] \in Tasks
  BY IdleType DEF Tasks, TypeOK

LEMMA ConfirmTypes ==
  ASSUME TypeOK, NEW r \in Requests, ConfirmStep(r)
  PROVE  TypeOK'
  <1> USE DEF place, money
  <1>1. CASE Confirm(r)
    <2>1. PICK o \in Orders :
            \/ Last(r, "complete")
            \/ task' = [task EXCEPT ![r] = [Idle EXCEPT !.pc = "assertPaid", !.seen = invoice,
                                                       !.orders = {o}]]
      BY <1>1 DEF Confirm
    <2>2. [Idle EXCEPT !.pc = "assertPaid", !.seen = invoice, !.orders = {o}] \in Tasks
      BY TakeUpTypes DEF Pcs
    <2>3. task' \in [Requests -> Tasks]
      BY <2>1, <2>2, MoveTypes DEF TypeOK, Pcs
    <2>4. mishaps' \in SUBSET Mishaps
      BY <1>1 DEF TypeOK, Confirm, Mishaps
    <2> QED BY <1>1, <2>3, <2>4 DEF TypeOK, Confirm
  <1>2. CASE AssertPaid(r)
    BY <1>2, ReleaseTypes, MoveTypes DEF TypeOK, AssertPaid, Pcs, Rows
  <1>3. CASE TossApproves(r) \/ TossRefuses(r) \/ TossAnswerLost(r)
    <2>1. task' \in [Requests -> Tasks]
      BY <1>3, MoveTypes DEF TossApproves, TossRefuses, TossAnswerLost, Pcs
    <2>2. task[r].orders \in SUBSET Orders
      BY DEF TypeOK, Tasks
    <2> QED BY <1>3, <2>1, <2>2 DEF TypeOK, TossApproves, TossRefuses, TossAnswerLost
  <1>4. CASE Refused(r)
    <2>1. payments' \in [Orders -> Rows]
      BY <1>4 DEF TypeOK, Refused, Rows, PaymentStatus
    <2>2. task' \in [Requests -> Tasks]
      BY <1>4, MoveTypes DEF Refused, Pcs
    <2> QED BY <1>4, <2>1, <2>2 DEF TypeOK, Refused, Rows
  <1>5. CASE Approved(r)
    <2> DEFINE new == [invoice EXCEPT !.status = "PAID", !.paid = task[r].seen.amount,
                                      !.unpaid = 0, !.coupon = task[r].seen.coupon]
    <2>1. new \in Invoices
      BY AmountsFacts DEF TypeOK, Tasks, Invoices, InvoiceStatus
    <2>2. PICK o \in task[r].orders : Book(o, new)
      BY <1>5 DEF Approved
    <2>3. o \in Orders
      BY DEF TypeOK, Tasks
    <2>4. task' \in [Requests -> Tasks]
      BY <1>5, MoveTypes DEF Approved, Pcs
    <2> HIDE DEF new
    <2> QED BY <1>5, <2>1, <2>2, <2>3, <2>4, Booked DEF TypeOK, Approved, Rows
  <1> QED BY <1>1, <1>2, <1>3, <1>4, <1>5 DEF ConfirmStep

LEMMA OtherTypes ==
  ASSUME TypeOK, NEW r \in Requests, OtherStep(r)
  PROVE  TypeOK'
  <1> USE DEF place, money
  <1>1. CASE Webhook(r)
    <2>1. PICK o \in taken :
            task' = [task EXCEPT ![r] = [Idle EXCEPT !.pc = "hook", !.seen = invoice,
                                                     !.orders = {o}]]
      BY <1>1 DEF Webhook
    <2>2. [Idle EXCEPT !.pc = "hook", !.seen = invoice, !.orders = {o}] \in Tasks
      BY TakeUpTypes DEF TypeOK, Pcs
    <2> QED BY <1>1, <2>1, <2>2 DEF TypeOK, Webhook
  <1>2. CASE HookTx(r)
    <2> DEFINE new == [invoice EXCEPT !.status = "PAID", !.paid = task[r].seen.amount,
                                      !.unpaid = 0]
    <2>1. new \in Invoices
      BY AmountsFacts DEF TypeOK, Tasks, Invoices, InvoiceStatus
    <2>2. PICK o \in task[r].orders : Book(o, new)
      BY <1>2 DEF HookTx
    <2>3. o \in Orders
      BY DEF TypeOK, Tasks
    <2>4. task' \in [Requests -> Tasks]
      BY <1>2, MoveTypes DEF HookTx, Pcs
    <2> HIDE DEF new
    <2> QED BY <1>2, <2>1, <2>2, <2>3, <2>4, Booked DEF TypeOK, HookTx, Rows
  <1>3. CASE GiveUp(r)
    <2>1. PICK os \in SUBSET Orders :
            task' = [task EXCEPT ![r] = [Idle EXCEPT !.pc = "abandon", !.orders = os]]
      BY <1>3 DEF GiveUp, Pending
    <2>2. [Idle EXCEPT !.pc = "abandon", !.orders = os] \in Tasks
      BY TakeUpTypes DEF Pcs
    <2> QED BY <1>3, <2>1, <2>2 DEF TypeOK, GiveUp
  <1>4. CASE Abandon(r)
    BY <1>4, CancelledType, MoveTypes DEF TypeOK, Abandon, Pcs, Rows
  <1> QED BY <1>1, <1>2, <1>3, <1>4 DEF OtherStep

LEMMA WorldTypes ==
  ASSUME TypeOK, FeeGrows \/ Lapse \/ ReleaseByMember \/ Restart
  PROVE  TypeOK'
  <1> USE DEF place, money
  <1>1. CASE FeeGrows
    BY <1>1, BoundAssumption DEF TypeOK, FeeGrows
  <1>2. CASE Lapse
    BY <1>2 DEF TypeOK, Lapse, CouponMoves, CouponStatus, Mishaps
  <1>3. CASE ReleaseByMember
    BY <1>3, CancelledType DEF TypeOK, ReleaseByMember, CouponMoves, CouponStatus, Mishaps, Rows
  <1>4. CASE Restart
    BY <1>4, IdleType DEF TypeOK, Restart
  <1> QED BY <1>1, <1>2, <1>3, <1>4

LEMMA NextTypeOK == TypeOK /\ [Next]_vars => TypeOK'
  <1> SUFFICES ASSUME TypeOK, [Next]_vars PROVE TypeOK'
    OBVIOUS
  <1>1. CASE UNCHANGED vars
    BY <1>1 DEF TypeOK, vars
  <1>2. CASE Next
    BY <1>2, WorldTypes, CouponTypes, FinalizeTypes, ExitTypes, PrepareTypes, ConfirmTypes,
       OtherTypes DEF Next
  <1> QED BY <1>1, <1>2
-----------------------------------------------------------------------------
(* Money: a booked payment has been taken *)

\* Where a step leaves the request r, and that it leaves the others.
LEMMA MoveFacts ==
  ASSUME TypeOK, NEW r \in Requests, NEW pc
  PROVE  /\ Goto(r, pc) => /\ task'[r].pc = pc
                           /\ task'[r].orders = task[r].orders
                           /\ task'[r].exited = task[r].exited
         /\ Last(r, pc) => task'[r].pc = pc
         /\ End(r) => task'[r].pc = "idle"
         /\ Goto(r, pc) \/ Last(r, pc) \/ End(r)
              => \A q \in Requests \ {r} : task'[q] = task[q]
  BY DEF TypeOK, Tasks, Goto, Last, End, Idle

\* What a finalize, and a bill, has after its first read.
LEMMA ReadFacts ==
  ASSUME TypeOK, NEW r \in Requests
  PROVE  /\ FinalizeRead(r) => /\ task'[r].pc \in {"freeze", "price"}
                               /\ task'[r].exited = exited
                               /\ \A q \in Requests \ {r} : task'[q] = task[q]
         /\ BillRead(r) => /\ task'[r].pc \in {"idle", "billPrice"}
                           /\ \A q \in Requests \ {r} : task'[q] = task[q]
         /\ SumPaid(r) => /\ task'[r].pc = "store"
                          /\ task'[r].exited = task[r].exited
                          /\ \A q \in Requests \ {r} : task'[q] = task[q]
  <1>1. ASSUME FinalizeRead(r)
        PROVE  /\ task'[r].pc \in {"freeze", "price"}
               /\ task'[r].exited = exited
               /\ \A q \in Requests \ {r} : task'[q] = task[q]
    <2>1. PICK pc \in {"freeze", "price"}, seen \in {invoice, NoInvoice}, os \in SUBSET Orders :
            task' = [task EXCEPT ![r] = [Idle EXCEPT !.pc = pc, !.seen = seen,
                                                     !.exited = exited, !.orders = os]]
      BY <1>1 DEF FinalizeRead, Pending
    <2> QED BY <2>1 DEF TypeOK, Idle
  <1>2. ASSUME BillRead(r)
        PROVE  /\ task'[r].pc \in {"idle", "billPrice"}
               /\ \A q \in Requests \ {r} : task'[q] = task[q]
    <2>1. CASE End(r)
      BY <2>1, MoveFacts
    <2>2. CASE \E seen : task' = [task EXCEPT ![r] = [task[r] EXCEPT !.pc = "billPrice",
                                                                    !.seen = seen]]
      BY <2>2 DEF TypeOK, Tasks
    <2> QED BY <1>2, <2>1, <2>2 DEF BillRead
  <1>3. ASSUME SumPaid(r)
        PROVE  /\ task'[r].pc = "store"
               /\ task'[r].exited = task[r].exited
               /\ \A q \in Requests \ {r} : task'[q] = task[q]
    <2>1. PICK paid : task' = [task EXCEPT ![r] = [task[r] EXCEPT !.pc = "store",
                                                                  !.paid = paid]]
      BY <1>3 DEF SumPaid
    <2> QED BY <2>1 DEF TypeOK, Tasks
  <1> QED BY <1>1, <1>2, <1>3

Booking == {"approved", "hook"}

LEMMA TakenGrows ==
  ASSUME TypeOK, BookersHoldTaken, taken \subseteq taken', NEW r \in Requests,
         \A q \in Requests \ {r} : task'[q] = task[q],
         task'[r].pc \in Booking => task'[r].orders \subseteq taken'
  PROVE  BookersHoldTaken'
  BY DEF BookersHoldTaken, Booking

\* Steps that book nothing and do not turn to booking.
LEMMA NoBooking ==
  ASSUME TypeOK, SuccessWasTaken, BookersHoldTaken, taken \subseteq taken',
         NEW r \in Requests,
         \A q \in Requests \ {r} : task'[q] = task[q],
         task'[r].pc \notin Booking,
         \A o \in Orders : payments'[o].status = "SUCCESS" => payments[o].status = "SUCCESS"
  PROVE  SuccessWasTaken' /\ BookersHoldTaken'
  BY TakenGrows DEF SuccessWasTaken

LEMMA CouponMoney ==
  ASSUME TypeOK, SuccessWasTaken, BookersHoldTaken, NEW r \in Requests, CouponStep(r)
  PROVE  SuccessWasTaken' /\ BookersHoldTaken'
  <1>1. \A q \in Requests \ {r} : task'[q] = task[q]
    BY MoveFacts DEF CouponStep, Reserve, ReserveTx, Complete, Release
  <1>2. task'[r].pc \notin Booking
    BY MoveFacts DEF CouponStep, Reserve, ReserveTx, Complete, Release, Booking
  <1>3. /\ taken' = taken
        /\ \A o \in Orders : payments'[o].status = "SUCCESS" => payments[o].status = "SUCCESS"
    BY ReleaseTypes DEF CouponStep, Reserve, ReserveTx, Complete, Release, money
  <1> QED BY <1>1, <1>2, <1>3, NoBooking

LEMMA FinalizeMoney ==
  ASSUME TypeOK, SuccessWasTaken, BookersHoldTaken, NEW r \in Requests, FinalizeStep(r)
  PROVE  SuccessWasTaken' /\ BookersHoldTaken'
  <1>1. CASE Finalize(r) \/ Freeze(r) \/ Store(r) \/ Link(r)
    <2>1. /\ \A q \in Requests \ {r} : task'[q] = task[q]
          /\ task'[r].pc \notin Booking
      BY <1>1, MoveFacts DEF Finalize, Freeze, Store, Link, Booking
    <2>2. /\ taken' = taken
          /\ \A o \in Orders : payments'[o].status = "SUCCESS" => payments[o].status = "SUCCESS"
      BY <1>1, ReleaseTypes DEF Finalize, Freeze, Store, Link, money
    <2> QED BY <2>1, <2>2, NoBooking
  <1>2. CASE FinalizeRead(r) \/ SumPaid(r)
    <2>1. /\ \A q \in Requests \ {r} : task'[q] = task[q]
          /\ task'[r].pc \notin Booking
      BY <1>2, ReadFacts DEF Booking
    <2>2. UNCHANGED <<taken, payments>>
      BY <1>2 DEF FinalizeRead, SumPaid, money
    <2> QED BY <2>1, <2>2, NoBooking
  <1>3. CASE Unfreeze(r) \/ Price(r)
    <2>1. /\ \A q \in Requests \ {r} : task'[q] = task[q]
          /\ task'[r].pc \notin Booking
      <3>1. DOMAIN task = Requests /\ task[r] \in Tasks
        BY DEF TypeOK
      <3>2. CASE Unfreeze(r)
        BY <3>1, <3>2 DEF Unfreeze, Booking, Tasks
      <3>3. CASE Price(r)
        BY <3>1, <3>3 DEF Price, PriceIt, Booking, Tasks
      <3> QED BY <1>3, <3>2, <3>3
    <2>2. /\ taken' = taken
          /\ \A o \in Orders : payments'[o].status = "SUCCESS" => payments[o].status = "SUCCESS"
      BY <1>3, ReleaseTypes, CancelledType DEF Unfreeze, Price, PriceIt, money
    <2> QED BY <2>1, <2>2, NoBooking
  <1> QED BY <1>1, <1>2, <1>3 DEF FinalizeStep

LEMMA ExitMoney ==
  ASSUME TypeOK, SuccessWasTaken, BookersHoldTaken, NEW r \in Requests, ExitStep(r)
  PROVE  SuccessWasTaken' /\ BookersHoldTaken'
  <1>1. CASE Close(r) \/ KeepPaid(r) \/ Upsert(r) \/ BillLink(r)
    <2>1. /\ \A q \in Requests \ {r} : task'[q] = task[q]
          /\ task'[r].pc \notin Booking
      BY <1>1, MoveFacts DEF Close, KeepPaid, Upsert, BillLink, Booking
    <2>2. UNCHANGED <<taken, payments>>
      BY <1>1 DEF Close, KeepPaid, Upsert, BillLink, money
    <2> QED BY <2>1, <2>2, NoBooking
  <1>2. CASE ManualExit(r) \/ BillRead(r)
    <2>1. /\ \A q \in Requests \ {r} : task'[q] = task[q]
          /\ task'[r].pc \notin Booking
      <3>1. CASE ManualExit(r)
        BY <3>1 DEF TypeOK, ManualExit, Booking, Idle
      <3> QED BY <1>2, <3>1, ReadFacts DEF Booking
    <2>2. UNCHANGED <<taken, payments>>
      BY <1>2 DEF ManualExit, BillRead, money
    <2> QED BY <2>1, <2>2, NoBooking
  <1>3. CASE BillPrice(r)
    <2>1. /\ \A q \in Requests \ {r} : task'[q] = task[q]
          /\ task'[r].pc \notin Booking
      BY <1>3 DEF TypeOK, Tasks, BillPrice, PriceIt, Booking
    <2>2. /\ taken' = taken
          /\ \A o \in Orders : payments'[o].status = "SUCCESS" => payments[o].status = "SUCCESS"
      BY <1>3, ReleaseTypes DEF BillPrice, PriceIt
    <2> QED BY <2>1, <2>2, NoBooking
  <1> QED BY <1>1, <1>2, <1>3 DEF ExitStep

LEMMA PrepareMoney ==
  ASSUME TypeOK, SuccessWasTaken, BookersHoldTaken, NEW r \in Requests, PrepareStep(r)
  PROVE  SuccessWasTaken' /\ BookersHoldTaken'
  <1>1. /\ \A q \in Requests \ {r} : task'[q] = task[q]
        /\ task'[r].pc \notin Booking
    <2>1. CASE Prepare(r)
      BY <2>1 DEF TypeOK, Tasks, Prepare, Booking, Idle
    <2>2. CASE AssertPrepared(r) \/ CancelAll(r) \/ CancelStale(r) \/ Create(r)
      <3>1. Goto(r, "cancelStale") \/ Last(r, "cancelAll") \/ Goto(r, "create") \/ End(r)
        BY <2>2 DEF AssertPrepared, CancelAll, CancelStale, Create
      <3> QED BY <3>1, MoveFacts DEF Booking
    <2> QED BY <2>1, <2>2 DEF PrepareStep
  <1>2. taken' = taken
    BY DEF PrepareStep, Prepare, AssertPrepared, CancelAll, CancelStale, Create, money
  <1>3. \A o \in Orders : payments'[o].status = "SUCCESS" => payments[o].status = "SUCCESS"
    <2>1. CASE Prepare(r) \/ AssertPrepared(r) \/ CancelAll(r)
      BY <2>1, ReleaseTypes, CancelledType DEF Prepare, AssertPrepared, CancelAll, money
    <2>2. CASE CancelStale(r)
      <3>1. \E os : payments' = Cancelled(os)
        BY <2>2 DEF CancelStale
      <3> QED BY <3>1, CancelledType
    <2>3. CASE Create(r)
      BY <2>3 DEF TypeOK, Create
    <2> QED BY <2>1, <2>2, <2>3 DEF PrepareStep
  <1> QED BY <1>1, <1>2, <1>3, NoBooking

\* Only Toss's approval leads to booking, and what is booked is what was approved.
LEMMA ConfirmMoney ==
  ASSUME TypeOK, SuccessWasTaken, BookersHoldTaken, NEW r \in Requests, ConfirmStep(r)
  PROVE  SuccessWasTaken' /\ BookersHoldTaken'
  <1>1. CASE Confirm(r)
    <2>1. /\ \A q \in Requests \ {r} : task'[q] = task[q]
          /\ task'[r].pc \notin Booking
      <3>1. CASE Last(r, "complete")
        BY <3>1, MoveFacts DEF Booking
      <3>2. CASE \E o \in Orders :
              task' = [task EXCEPT ![r] = [Idle EXCEPT !.pc = "assertPaid", !.seen = invoice,
                                                       !.orders = {o}]]
        BY <3>2 DEF TypeOK, Booking, Idle
      <3> QED BY <1>1, <3>1, <3>2 DEF Confirm
    <2>2. UNCHANGED <<taken, payments>>
      BY <1>1 DEF Confirm, money
    <2> QED BY <2>1, <2>2, NoBooking
  <1>2. CASE AssertPaid(r) \/ TossRefuses(r) \/ TossAnswerLost(r)
    <2>1. /\ \A q \in Requests \ {r} : task'[q] = task[q]
          /\ task'[r].pc \notin Booking
      BY <1>2, MoveFacts DEF AssertPaid, TossRefuses, TossAnswerLost, Booking
    <2>2. /\ taken \subseteq taken'
          /\ \A o \in Orders : payments'[o].status = "SUCCESS" => payments[o].status = "SUCCESS"
      BY <1>2, ReleaseTypes DEF AssertPaid, TossRefuses, TossAnswerLost, money
    <2> QED BY <2>1, <2>2, NoBooking
  <1>3. CASE TossApproves(r)
    <2>1. /\ \A q \in Requests \ {r} : task'[q] = task[q]
          /\ task'[r].orders = task[r].orders
      BY <1>3, MoveFacts DEF TossApproves
    <2>2. taken' = taken \cup task[r].orders /\ payments' = payments
      BY <1>3 DEF TossApproves
    <2>3. BookersHoldTaken'
      BY <2>1, <2>2, TakenGrows
    <2> QED BY <2>2, <2>3 DEF SuccessWasTaken
  <1>4. CASE Refused(r)
    <2>1. /\ \A q \in Requests \ {r} : task'[q] = task[q]
          /\ task'[r].pc \notin Booking
      BY <1>4, MoveFacts DEF Refused, Booking
    <2>2. /\ taken' = taken
          /\ \A o \in Orders : payments'[o].status = "SUCCESS" => payments[o].status = "SUCCESS"
      <3>1. \A o \in Orders : payments'[o] = IF o \in task[r].orders
                                            THEN [payments[o] EXCEPT !.status = "FAILED"]
                                            ELSE payments[o]
        BY <1>4 DEF Refused
      <3>2. \A o \in Orders : [payments[o] EXCEPT !.status = "FAILED"].status = "FAILED"
        BY DEF TypeOK
      <3> QED BY <1>4, <3>1, <3>2 DEF Refused
    <2> QED BY <2>1, <2>2, NoBooking
  <1>5. CASE Approved(r)
    <2>1. /\ \A q \in Requests \ {r} : task'[q] = task[q]
          /\ task'[r].pc \notin Booking
      BY <1>5, MoveFacts DEF Approved, Booking
    <2>2. taken' = taken /\ task[r].orders \subseteq taken
      BY <1>5 DEF Approved, BookersHoldTaken, At
    <2>3. PICK o \in task[r].orders : payments' = [payments EXCEPT ![o].status = "SUCCESS"]
      BY <1>5 DEF Approved, Book
    <2>4. SuccessWasTaken'
      BY <2>2, <2>3 DEF TypeOK, SuccessWasTaken
    <2> QED BY <2>1, <2>2, <2>4, TakenGrows
  <1> QED BY <1>1, <1>2, <1>3, <1>4, <1>5 DEF ConfirmStep

LEMMA OtherMoney ==
  ASSUME TypeOK, SuccessWasTaken, BookersHoldTaken, NEW r \in Requests, OtherStep(r)
  PROVE  SuccessWasTaken' /\ BookersHoldTaken'
  <1>1. CASE Webhook(r)
    <2>1. PICK o \in taken :
            task' = [task EXCEPT ![r] = [Idle EXCEPT !.pc = "hook", !.seen = invoice,
                                                     !.orders = {o}]]
      BY <1>1 DEF Webhook
    <2>2. /\ \A q \in Requests \ {r} : task'[q] = task[q]
          /\ task'[r].orders = {o}
      BY <2>1 DEF TypeOK, Idle
    <2>3. UNCHANGED <<taken, payments>>
      BY <1>1 DEF Webhook, money
    <2> QED BY <2>2, <2>3, TakenGrows DEF SuccessWasTaken
  <1>2. CASE HookTx(r)
    <2>1. /\ \A q \in Requests \ {r} : task'[q] = task[q]
          /\ task'[r].pc \notin Booking
      BY <1>2, MoveFacts DEF HookTx, Booking
    <2>2. taken' = taken /\ task[r].orders \subseteq taken
      BY <1>2 DEF HookTx, BookersHoldTaken, At
    <2>3. PICK o \in task[r].orders : payments' = [payments EXCEPT ![o].status = "SUCCESS"]
      BY <1>2 DEF HookTx, Book
    <2>4. SuccessWasTaken'
      BY <2>2, <2>3 DEF TypeOK, SuccessWasTaken
    <2> QED BY <2>1, <2>2, <2>4, TakenGrows
  <1>3. CASE GiveUp(r)
    <2>1. /\ \A q \in Requests \ {r} : task'[q] = task[q]
          /\ task'[r].pc \notin Booking
      BY <1>3 DEF TypeOK, GiveUp, Booking, Idle
    <2>2. UNCHANGED <<taken, payments>>
      BY <1>3 DEF GiveUp, money
    <2> QED BY <2>1, <2>2, NoBooking
  <1>4. CASE Abandon(r)
    <2>1. /\ \A q \in Requests \ {r} : task'[q] = task[q]
          /\ task'[r].pc \notin Booking
      BY <1>4, MoveFacts DEF Abandon, Booking
    <2>2. /\ taken' = taken
          /\ \A o \in Orders : payments'[o].status = "SUCCESS" => payments[o].status = "SUCCESS"
      BY <1>4, CancelledType DEF Abandon
    <2> QED BY <2>1, <2>2, NoBooking
  <1> QED BY <1>1, <1>2, <1>3, <1>4 DEF OtherStep

LEMMA NextMoney ==
  TypeOK /\ SuccessWasTaken /\ BookersHoldTaken /\ [Next]_vars
    => SuccessWasTaken' /\ BookersHoldTaken'
  <1> SUFFICES ASSUME TypeOK, SuccessWasTaken, BookersHoldTaken, [Next]_vars
               PROVE  SuccessWasTaken' /\ BookersHoldTaken'
    OBVIOUS
  <1>1. CASE UNCHANGED vars
    BY <1>1 DEF SuccessWasTaken, BookersHoldTaken, vars
  <1>2. CASE FeeGrows \/ Lapse
    BY <1>2 DEF SuccessWasTaken, BookersHoldTaken, FeeGrows, Lapse, money
  <1>3. CASE ReleaseByMember
    <2>1. SuccessWasTaken'
      BY <1>3, CancelledType DEF SuccessWasTaken, ReleaseByMember
    <2> QED BY <1>3, <2>1 DEF BookersHoldTaken, ReleaseByMember
  <1>4. CASE Restart
    BY <1>4 DEF SuccessWasTaken, BookersHoldTaken, Restart, money, Idle
  <1> QED BY <1>1, <1>2, <1>3, <1>4, CouponMoney, FinalizeMoney, ExitMoney, PrepareMoney,
             ConfirmMoney, OtherMoney DEF Next
-----------------------------------------------------------------------------
(* The exit time of a closed session *)

Exits == ClosedHasExit /\ ReadBeforeExit

\* Steps that leave the exit time alone, and do not close the session.
LEMMA ExitUntouched ==
  ASSUME TypeOK, Exits, mishaps \subseteq mishaps', exited' = exited,
         session' \in {session, "PAID"}, NEW r \in Requests,
         \A q \in Requests \ {r} : task'[q] = task[q],
         task'[r].pc \in Finalizing =>
           \/ task[r].pc \in Finalizing /\ task'[r].exited = task[r].exited
           \/ task'[r].exited = exited
  PROVE  Exits'
  BY DEF Exits, ClosedHasExit, ReadBeforeExit

LEMMA CouponExits ==
  ASSUME TypeOK, Exits, NEW r \in Requests, CouponStep(r)
  PROVE  Exits'
  <1>1. /\ \A q \in Requests \ {r} : task'[q] = task[q]
        /\ task'[r].pc \notin Finalizing
    BY MoveFacts DEF CouponStep, Reserve, ReserveTx, Complete, Release, Finalizing
  <1>2. mishaps \subseteq mishaps'
    BY ReleaseTypes DEF CouponStep, Reserve, ReserveTx, Complete, Release, CouponMoves
  <1>3. UNCHANGED <<session, exited>>
    BY DEF CouponStep, Reserve, ReserveTx, Complete, Release, place
  <1> QED BY <1>1, <1>2, <1>3, ExitUntouched

LEMMA FinalizeExits ==
  ASSUME TypeOK, Exits, NEW r \in Requests, FinalizeStep(r)
  PROVE  Exits'
  <1>1. CASE Finalize(r)
    BY <1>1, MoveFacts, ExitUntouched DEF Finalize, Finalizing, place
  <1>2. CASE FinalizeRead(r)
    BY <1>2, ReadFacts, ExitUntouched DEF FinalizeRead, place
  <1>3. CASE Freeze(r)
    <2>1. task[r].pc \in Finalizing
      BY <1>3 DEF Freeze, At, Finalizing
    <2>2. End(r) \/ Goto(r, "unfreeze")
      BY <1>3 DEF Freeze
    <2>3. mishaps \subseteq mishaps' /\ UNCHANGED <<session, exited>>
      BY <1>3, ReleaseTypes DEF Freeze, place
    <2> QED BY <2>1, <2>2, <2>3, MoveFacts, ExitUntouched DEF Finalizing
  <1>4. CASE Unfreeze(r) \/ Price(r)
    <2>1. /\ \A q \in Requests \ {r} : task'[q] = task[q]
          /\ task'[r].exited = task[r].exited
      BY <1>4 DEF TypeOK, Tasks, Unfreeze, Price, PriceIt
    <2>2. task[r].pc \in Finalizing
      BY <1>4 DEF Unfreeze, Price, At, Finalizing
    <2>3. mishaps \subseteq mishaps' /\ UNCHANGED <<session, exited>>
      BY <1>4, ReleaseTypes DEF Unfreeze, Price, PriceIt, place
    <2> QED BY <2>1, <2>2, <2>3, ExitUntouched
  <1>5. CASE SumPaid(r)
    BY <1>5, ReadFacts, ExitUntouched DEF SumPaid, At, Finalizing, place
  <1>6. CASE Store(r)
    <2>1. task[r].pc \in Finalizing
      BY <1>6 DEF Store, At, Finalizing
    <2>2. End(r) \/ Goto(r, "link")
      BY <1>6 DEF Store
    <2>3. mishaps \subseteq mishaps' /\ UNCHANGED <<session, exited>>
      BY <1>6 DEF Store, WriteInvoice, place
    <2> QED BY <2>1, <2>2, <2>3, MoveFacts, ExitUntouched DEF Finalizing
  <1>7. CASE Link(r)
    <2>1. /\ \A q \in Requests \ {r} : task'[q] = task[q]
          /\ task'[r].pc \notin Finalizing
      BY <1>7, MoveFacts DEF Link, Finalizing
    <2>2. UNCHANGED <<session, mishaps>> /\ exited' = task[r].exited
      BY <1>7 DEF Link
    <2>3. session = "CLOSED" /\ ~task[r].exited => "exitOverlapped" \in mishaps
      BY <1>7 DEF Exits, ReadBeforeExit, Link, At, Finalizing
    <2> QED BY <2>1, <2>2, <2>3 DEF Exits, ClosedHasExit, ReadBeforeExit
  <1> QED BY <1>1, <1>2, <1>3, <1>4, <1>5, <1>6, <1>7 DEF FinalizeStep

LEMMA ExitExits ==
  ASSUME TypeOK, Exits, NEW r \in Requests, ExitStep(r)
  PROVE  Exits'
  <1>1. CASE ManualExit(r)
    <2>1. /\ \A q \in Requests \ {r} : task'[q] = task[q]
          /\ task'[r].pc = "close"
      BY <1>1 DEF TypeOK, ManualExit, Idle
    <2> QED BY <1>1, <2>1, ExitUntouched DEF ManualExit, Finalizing, place
  <1>2. CASE Close(r)
    <2>1. /\ \A q \in Requests \ {r} : task'[q] = task[q]
          /\ task'[r].pc \notin Finalizing
      BY <1>2, MoveFacts DEF Close, Finalizing
    <2>2. \A q \in Requests \ {r} : task[q].pc \in Finalizing => "exitOverlapped" \in mishaps'
      BY <1>2 DEF Close, Others
    <2>3. exited'
      BY <1>2 DEF Close
    <2> QED BY <2>1, <2>2, <2>3 DEF Exits, ClosedHasExit, ReadBeforeExit
  <1>3. CASE KeepPaid(r)
    BY <1>3, MoveFacts, ExitUntouched DEF KeepPaid, Finalizing
  <1>4. CASE BillRead(r)
    BY <1>4, ReadFacts, ExitUntouched DEF BillRead, Finalizing, place
  <1>5. CASE BillPrice(r)
    <2>1. /\ \A q \in Requests \ {r} : task'[q] = task[q]
          /\ task'[r].pc = "upsert"
      BY <1>5 DEF TypeOK, Tasks, BillPrice, PriceIt
    <2>2. mishaps \subseteq mishaps' /\ UNCHANGED <<session, exited>>
      BY <1>5, ReleaseTypes DEF BillPrice, PriceIt, place
    <2> QED BY <2>1, <2>2, ExitUntouched DEF Finalizing
  <1>6. CASE Upsert(r)
    BY <1>6, MoveFacts, ExitUntouched DEF Upsert, WriteInvoice, Finalizing, place
  <1>7. CASE BillLink(r)
    <2>1. /\ \A q \in Requests \ {r} : task'[q] = task[q]
          /\ task'[r].pc \notin Finalizing
      BY <1>7, MoveFacts DEF BillLink, Finalizing
    <2>2. UNCHANGED <<session, mishaps>> /\ exited'
      BY <1>7 DEF BillLink
    <2> QED BY <2>1, <2>2 DEF Exits, ClosedHasExit, ReadBeforeExit
  <1> QED BY <1>1, <1>2, <1>3, <1>4, <1>5, <1>6, <1>7 DEF ExitStep

LEMMA PaymentExits ==
  ASSUME TypeOK, Exits, NEW r \in Requests, PrepareStep(r) \/ ConfirmStep(r) \/ OtherStep(r)
  PROVE  Exits'
  <1>1. CASE PrepareStep(r)
    <2>1. CASE Prepare(r)
      <3>1. /\ \A q \in Requests \ {r} : task'[q] = task[q]
            /\ task'[r].pc = "assertPrepared"
        BY <2>1 DEF TypeOK, Prepare, Idle
      <3> QED BY <2>1, <3>1, ExitUntouched DEF Prepare, Finalizing, place
    <2>2. CASE AssertPrepared(r) \/ CancelAll(r) \/ CancelStale(r) \/ Create(r)
      <3>1. Goto(r, "cancelStale") \/ Last(r, "cancelAll") \/ Goto(r, "create") \/ End(r)
        BY <2>2 DEF AssertPrepared, CancelAll, CancelStale, Create
      <3>2. mishaps \subseteq mishaps' /\ UNCHANGED <<session, exited>>
        BY <2>2, ReleaseTypes DEF AssertPrepared, CancelAll, CancelStale, Create, place
      <3> QED BY <3>1, <3>2, MoveFacts, ExitUntouched DEF Finalizing
    <2> QED BY <1>1, <2>1, <2>2 DEF PrepareStep
  <1>2. CASE ConfirmStep(r)
    <2>1. CASE Confirm(r)
      <3>1. /\ \A q \in Requests \ {r} : task'[q] = task[q]
            /\ task'[r].pc \notin Finalizing
        <4>1. CASE Last(r, "complete")
          BY <4>1, MoveFacts DEF Finalizing
        <4>2. CASE \E o \in Orders :
                task' = [task EXCEPT ![r] = [Idle EXCEPT !.pc = "assertPaid", !.seen = invoice,
                                                         !.orders = {o}]]
          BY <4>2 DEF TypeOK, Finalizing, Idle
        <4> QED BY <2>1, <4>1, <4>2 DEF Confirm
      <3>2. mishaps \subseteq mishaps' /\ UNCHANGED <<session, exited>>
        BY <2>1 DEF Confirm, place
      <3> QED BY <3>1, <3>2, ExitUntouched
    <2>2. CASE \/ AssertPaid(r) \/ TossApproves(r) \/ TossRefuses(r) \/ TossAnswerLost(r)
               \/ Refused(r) \/ Approved(r)
      <3>1. \/ Goto(r, "toss") \/ Goto(r, "approved") \/ Goto(r, "refused")
            \/ Last(r, "release") \/ Last(r, "complete") \/ End(r)
        BY <2>2 DEF AssertPaid, TossApproves, TossRefuses, TossAnswerLost, Refused, Approved
      <3>2. mishaps \subseteq mishaps' /\ exited' = exited /\ session' \in {session, "PAID"}
        BY <2>2, ReleaseTypes DEF AssertPaid, TossApproves, TossRefuses, TossAnswerLost,
           Refused, Approved, Book, place
      <3> QED BY <3>1, <3>2, MoveFacts, ExitUntouched DEF Finalizing
    <2> QED BY <1>2, <2>1, <2>2 DEF ConfirmStep
  <1>3. CASE OtherStep(r)
    <2>1. CASE Webhook(r) \/ GiveUp(r)
      <3>2. /\ \A q \in Requests \ {r} : task'[q] = task[q]
            /\ task'[r].pc \notin Finalizing
        <4>1. CASE Webhook(r)
          BY <4>1 DEF TypeOK, Webhook, Idle, Finalizing
        <4>2. CASE GiveUp(r)
          BY <4>2 DEF TypeOK, GiveUp, Idle, Finalizing
        <4> QED BY <2>1, <4>1, <4>2
      <3>3. UNCHANGED <<session, exited, mishaps>>
        BY <2>1 DEF Webhook, GiveUp, place
      <3> QED BY <3>2, <3>3, ExitUntouched
    <2>2. CASE HookTx(r) \/ Abandon(r)
      <3>1. Last(r, "complete") \/ Last(r, "release")
        BY <2>2 DEF HookTx, Abandon
      <3>2. mishaps' = mishaps /\ exited' = exited /\ session' \in {session, "PAID"}
        BY <2>2 DEF HookTx, Abandon, Book, place
      <3> QED BY <3>1, <3>2, MoveFacts, ExitUntouched DEF Finalizing
    <2> QED BY <1>3, <2>1, <2>2 DEF OtherStep
  <1> QED BY <1>1, <1>2, <1>3

LEMMA NextExits == TypeOK /\ Exits /\ [Next]_vars => Exits'
  <1> SUFFICES ASSUME TypeOK, Exits, [Next]_vars PROVE Exits'
    OBVIOUS
  <1> USE DEF Exits, ClosedHasExit, ReadBeforeExit
  <1>1. CASE UNCHANGED vars
    BY <1>1 DEF vars
  <1>2. CASE FeeGrows \/ Lapse \/ ReleaseByMember
    BY <1>2 DEF FeeGrows, Lapse, ReleaseByMember, CouponMoves, place
  <1>3. CASE Restart
    BY <1>3 DEF Restart, Idle, Finalizing, place
  <1> QED BY <1>1, <1>2, <1>3, CouponExits, FinalizeExits, ExitExits, PaymentExits DEF Next

-----------------------------------------------------------------------------
(* What a step of a request does, by where it takes the request *)

Step(r) == CouponStep(r) \/ FinalizeStep(r) \/ ExitStep(r) \/ PrepareStep(r)
             \/ ConfirmStep(r) \/ OtherStep(r)

Alone(r) == \A q \in Requests \ {r} : task'[q] = task[q]

\* A confirm, and a webhook, take up an order for the invoice as it is.
TakesUp(r, o) ==
  /\ At(r, "idle")
  /\ task'[r].seen = invoice
  /\ task'[r].orders = {o}
  /\ UNCHANGED <<money, coupon, faults>>

Confirms(r) == \E o \in Orders :
  /\ TakesUp(r, o)
  /\ payments[o].status = "PENDING"
  /\ invoice.unpaid = payments[o].amount
  /\ Others(r, Paying) # {} => "rivals" \in mishaps'

Completes(r) ==
  \/ task[r].pc \in {"link", "billLink"} /\ Completing(r)
  \/ Approved(r)
  \/ HookTx(r)
  \/ At(r, "idle") /\ \E o \in Orders : payments[o].status = "SUCCESS"

Arrives(r) ==
  /\ Alone(r)
  /\ task'[r].seen \in {task[r].seen, invoice, NoInvoice}
  /\ task'[r].pc = "billPrice" => ~(task'[r].seen.status = "PAID" /\ task'[r].seen.unpaid = 0)
  /\ task'[r].pc = "upsert" => At(r, "billPrice") /\ task'[r].seen = task[r].seen
  /\ task'[r].pc \in Preparing =>
       \/ Prepare(r) /\ task'[r].seen = invoice
       \/ task[r].pc \in Preparing /\ task'[r].seen = task[r].seen
  /\ task'[r].pc = "assertPaid" => Confirms(r)
  /\ task'[r].pc \in {"toss", "approved", "refused"} =>
       /\ task'[r].seen = task[r].seen /\ task'[r].orders = task[r].orders
       /\ \/ task'[r].pc = "toss" /\ AssertPaid(r) /\ CouponHolds(task[r].seen)
          \/ task'[r].pc = "approved" /\ TossApproves(r)
          \/ task'[r].pc = "refused" /\ (TossRefuses(r) \/ TossAnswerLost(r))
  /\ task'[r].pc = "hook" => \E o \in Unbooked : TakesUp(r, o)
  /\ task'[r].pc \in {"sum", "upsert"} =>
       task'[r].coupon = (coupon = "RESERVED") /\ (coupon = "RESERVED" => coupon' = coupon)
  /\ task'[r].pc = "store" =>
       SumPaid(r) /\ task'[r].coupon = task[r].coupon /\ task'[r].paid \in {0, invoice.paid}
  /\ task'[r].pc = "link" =>
       /\ Store(r)
       /\ task'[r].coupon = task[r].coupon /\ task'[r].price = task[r].price
       /\ task'[r].paid = task[r].paid
  /\ task'[r].pc = "billLink" =>
       /\ Upsert(r)
       /\ task'[r].coupon = task[r].coupon /\ task'[r].price = task[r].price
       /\ task'[r].seen = task[r].seen
  /\ task'[r].pc = "complete" => Completes(r)

\* Where nothing is known of a request but that it has come there.
Elsewhere == {"idle", "reserve", "read", "freeze", "unfreeze", "price", "close", "keep",
              "bill", "cancelAll", "release", "abandon"}

LEMMA GoesElsewhere ==
  ASSUME NEW r, Alone(r), task'[r].seen \in {task[r].seen, invoice, NoInvoice},
         task'[r].pc \in Elsewhere
  PROVE  Arrives(r)
  BY DEF Arrives, Elsewhere, Preparing

LEMMA Moved ==
  ASSUME TypeOK, NEW r \in Requests, NEW pc
  PROVE  /\ Goto(r, pc) => /\ Alone(r)
                           /\ task'[r].pc = pc
                           /\ task'[r].seen = task[r].seen
                           /\ task'[r].orders = task[r].orders
                           /\ task'[r].coupon = task[r].coupon
                           /\ task'[r].price = task[r].price
                           /\ task'[r].paid = task[r].paid
         /\ Last(r, pc) => Alone(r) /\ task'[r].pc = pc /\ task'[r].seen = NoInvoice
         /\ End(r) => Alone(r) /\ task'[r].pc = "idle" /\ task'[r].seen = NoInvoice
  <1>1. task[r] \in Tasks /\ DOMAIN task = Requests
    BY DEF TypeOK
  <1>2. ASSUME Goto(r, pc) PROVE task'[r] = [task[r] EXCEPT !.pc = pc] /\ Alone(r)
    BY <1>1, <1>2 DEF Goto, Alone
  <1>3. ASSUME Last(r, pc) PROVE task'[r] = [Idle EXCEPT !.pc = pc] /\ Alone(r)
    BY <1>1, <1>3 DEF Last, Alone
  <1>4. ASSUME End(r) PROVE task'[r] = Idle /\ Alone(r)
    BY <1>1, <1>4 DEF End, Alone
  <1> QED BY <1>1, <1>2, <1>3, <1>4 DEF Tasks, Idle

LEMMA GoesToComplete ==
  ASSUME TypeOK, NEW r \in Requests, Last(r, "complete"), Completes(r)
  PROVE  Arrives(r)
  <1>1. Alone(r) /\ task'[r].pc = "complete" /\ task'[r].seen = NoInvoice
    BY Moved
  <1> QED BY <1>1 DEF Arrives, Preparing

LEMMA CouponArrives ==
  ASSUME TypeOK, NEW r \in Requests, CouponStep(r)
  PROVE  Arrives(r)
  <1>1. Goto(r, "reserve") \/ End(r)
    BY DEF CouponStep, Reserve, ReserveTx, Complete, Release
  <1> QED BY <1>1, Moved, GoesElsewhere DEF Elsewhere

\* The coupon is asked about for a price.
LEMMA PricedArrives ==
  ASSUME TypeOK, NEW r \in Requests, NEW next, PriceIt(r, next)
  PROVE  /\ Alone(r)
         /\ task'[r].pc = next
         /\ task'[r].seen = task[r].seen
         /\ task'[r].coupon = (coupon = "RESERVED")
         /\ coupon = "RESERVED" => coupon' = coupon
  <1> DEFINE live  == coupon = "RESERVED"
             price == IF live THEN Minus(fee, Discount) ELSE fee
  <1>1. task' = [task EXCEPT ![r] = [task[r] EXCEPT !.pc = next, !.coupon = live,
                                                    !.price = price]]
    BY DEF PriceIt
  <1>2. task[r] \in Tasks /\ DOMAIN task = Requests
    BY DEF TypeOK
  <1>3. coupon = "RESERVED" => coupon' = coupon
    BY DEF PriceIt, CleanUp
  <1> HIDE DEF price
  <1>4. task'[r] = [task[r] EXCEPT !.pc = next, !.coupon = live, !.price = price] /\ Alone(r)
    BY <1>1, <1>2 DEF Alone
  <1> QED BY <1>2, <1>3, <1>4 DEF Tasks

LEMMA FinalizeArrives ==
  ASSUME TypeOK, NEW r \in Requests, FinalizeStep(r)
  PROVE  Arrives(r)
  <1>1. CASE Finalize(r) \/ Freeze(r)
    <2>1. Goto(r, "read") \/ Goto(r, "unfreeze") \/ End(r)
      BY <1>1 DEF Finalize, Freeze
    <2> QED BY <2>1, Moved, GoesElsewhere DEF Elsewhere
  <1>2. CASE FinalizeRead(r)
    <2>1. PICK pc \in {"freeze", "price"}, seen \in {invoice, NoInvoice}, os \in SUBSET Orders :
            task' = [task EXCEPT ![r] = [Idle EXCEPT !.pc = pc, !.seen = seen,
                                                     !.exited = exited, !.orders = os]]
      BY <1>2 DEF FinalizeRead, Pending
    <2>2. Alone(r) /\ task'[r].pc = pc /\ task'[r].seen = seen
      BY <2>1 DEF TypeOK, Idle, Alone
    <2> QED BY <2>2, GoesElsewhere DEF Elsewhere
  <1>3. CASE Unfreeze(r)
    <2>1. task[r] \in Tasks /\ DOMAIN task = Requests
      BY DEF TypeOK
    <2>2. Alone(r) /\ task'[r] = [task[r] EXCEPT !.pc = "price", !.orders = {}]
      BY <1>3, <2>1 DEF Unfreeze, Alone
    <2> QED BY <2>1, <2>2, GoesElsewhere DEF Elsewhere, Tasks
  <1>4. CASE Price(r)
    BY <1>4, PricedArrives DEF Price, Arrives, Preparing
  <1>5. CASE SumPaid(r)
    <2> DEFINE paid == IF invoice.status = "PAID" THEN invoice.paid ELSE 0
    <2>1. task[r] \in Tasks /\ DOMAIN task = Requests
      BY DEF TypeOK
    <2>2. Alone(r) /\ task'[r] = [task[r] EXCEPT !.pc = "store", !.paid = paid]
      BY <1>5, <2>1 DEF SumPaid, Alone
    <2>3. paid \in {0, invoice.paid}
      OBVIOUS
    <2> HIDE DEF paid
    <2>4. /\ task'[r].pc = "store" /\ task'[r].seen = task[r].seen
          /\ task'[r].coupon = task[r].coupon /\ task'[r].paid = paid
      BY <2>1, <2>2 DEF Tasks
    <2> QED BY <1>5, <2>2, <2>3, <2>4 DEF Arrives, Preparing
  <1>6. CASE Store(r)
    <2>1. CASE End(r)
      BY <2>1, Moved, GoesElsewhere DEF Elsewhere
    <2>2. CASE Goto(r, "link")
      BY <1>6, <2>2, Moved DEF Arrives, Preparing
    <2> QED BY <1>6, <2>1, <2>2 DEF Store
  <1>7. CASE Link(r)
    <2>1. CASE End(r)
      BY <2>1, Moved, GoesElsewhere DEF Elsewhere
    <2>2. CASE Last(r, "complete") /\ task[r].price <= task[r].paid /\ task[r].coupon
      <3>1. Completes(r)
        BY <1>7, <2>2 DEF Completes, Completing, Link, At
      <3> QED BY <2>2, <3>1, GoesToComplete
    <2> QED BY <1>7, <2>1, <2>2 DEF Link
  <1> QED BY <1>1, <1>2, <1>3, <1>4, <1>5, <1>6, <1>7 DEF FinalizeStep

LEMMA ExitArrives ==
  ASSUME TypeOK, NEW r \in Requests, ExitStep(r)
  PROVE  Arrives(r)
  <1>1. CASE ManualExit(r)
    <2>1. Alone(r) /\ task'[r].pc = "close" /\ task'[r].seen = invoice
      BY <1>1 DEF TypeOK, ManualExit, Idle, Alone
    <2> QED BY <2>1, GoesElsewhere DEF Elsewhere
  <1>2. CASE Close(r) \/ KeepPaid(r)
    <2>1. Last(r, "keep") \/ Last(r, "bill") \/ End(r)
      BY <1>2 DEF Close, KeepPaid
    <2> QED BY <2>1, Moved, GoesElsewhere DEF Elsewhere
  <1>3. CASE BillRead(r)
    <2>1. CASE End(r)
      BY <2>1, Moved, GoesElsewhere DEF Elsewhere
    <2>2. CASE \E seen \in {invoice, NoInvoice} :
            /\ ~(seen.status = "PAID" /\ seen.unpaid = 0)
            /\ task' = [task EXCEPT ![r] = [task[r] EXCEPT !.pc = "billPrice", !.seen = seen]]
      <3>1. task[r] \in Tasks /\ DOMAIN task = Requests
        BY DEF TypeOK
      <3>2. PICK seen \in {invoice, NoInvoice} :
              /\ ~(seen.status = "PAID" /\ seen.unpaid = 0)
              /\ task' = [task EXCEPT ![r] = [task[r] EXCEPT !.pc = "billPrice", !.seen = seen]]
        BY <2>2
      <3>3. Alone(r) /\ task'[r].pc = "billPrice" /\ task'[r].seen = seen
        BY <3>1, <3>2 DEF Alone, Tasks
      <3> QED BY <3>2, <3>3 DEF Arrives, Preparing
    <2> QED BY <1>3, <2>1, <2>2 DEF BillRead
  <1>4. CASE BillPrice(r)
    BY <1>4, PricedArrives DEF BillPrice, Arrives, Preparing
  <1>5. CASE Upsert(r)
    BY <1>5, Moved DEF Upsert, Arrives, Preparing
  <1>6. CASE BillLink(r)
    <2>1. CASE End(r)
      BY <2>1, Moved, GoesElsewhere DEF Elsewhere
    <2>2. CASE Last(r, "complete") /\ task[r].price <= task[r].seen.paid /\ task[r].coupon
      <3>1. Completes(r)
        BY <1>6, <2>2 DEF Completes, Completing, BillLink, At
      <3> QED BY <2>2, <3>1, GoesToComplete
    <2> QED BY <1>6, <2>1, <2>2 DEF BillLink
  <1> QED BY <1>1, <1>2, <1>3, <1>4, <1>5, <1>6 DEF ExitStep

LEMMA PrepareArrives ==
  ASSUME TypeOK, NEW r \in Requests, PrepareStep(r)
  PROVE  Arrives(r)
  <1>1. CASE Prepare(r)
    <2>1. Alone(r) /\ task'[r].pc = "assertPrepared" /\ task'[r].seen = invoice
      BY <1>1 DEF TypeOK, Prepare, Idle, Alone
    <2> QED BY <1>1, <2>1 DEF Arrives, Preparing
  <1>2. CASE AssertPrepared(r)
    <2>1. CASE Goto(r, "cancelStale")
      BY <1>2, <2>1, Moved DEF AssertPrepared, Arrives, Preparing, At
    <2>2. CASE Last(r, "cancelAll")
      BY <2>2, Moved, GoesElsewhere DEF Elsewhere
    <2> QED BY <1>2, <2>1, <2>2 DEF AssertPrepared
  <1>3. CASE CancelAll(r) \/ Create(r)
    <2>1. End(r)
      BY <1>3 DEF CancelAll, Create
    <2> QED BY <2>1, Moved, GoesElsewhere DEF Elsewhere
  <1>4. CASE CancelStale(r)
    <2>1. CASE Goto(r, "create")
      BY <1>4, <2>1, Moved DEF CancelStale, Arrives, Preparing, At
    <2>2. CASE End(r)
      BY <2>2, Moved, GoesElsewhere DEF Elsewhere
    <2> QED BY <1>4, <2>1, <2>2 DEF CancelStale
  <1> QED BY <1>1, <1>2, <1>3, <1>4 DEF PrepareStep

LEMMA ConfirmArrives ==
  ASSUME TypeOK, NEW r \in Requests, ConfirmStep(r)
  PROVE  Arrives(r)
  <1>1. CASE Confirm(r)
    <2>1. CASE Last(r, "complete") /\ \E o \in Orders : payments[o].status = "SUCCESS"
      <3>1. Completes(r)
        BY <1>1, <2>1 DEF Confirm, Completes
      <3> QED BY <2>1, <3>1, GoesToComplete
    <2>2. CASE \E o \in Orders :
            /\ payments[o].status = "PENDING"
            /\ invoice.unpaid = payments[o].amount
            /\ task' = [task EXCEPT ![r] = [Idle EXCEPT !.pc = "assertPaid", !.seen = invoice,
                                                       !.orders = {o}]]
      <3>1. PICK o \in Orders :
              /\ payments[o].status = "PENDING"
              /\ invoice.unpaid = payments[o].amount
              /\ task' = [task EXCEPT ![r] = [Idle EXCEPT !.pc = "assertPaid", !.seen = invoice,
                                                         !.orders = {o}]]
        BY <2>2
      <3>2. /\ Alone(r) /\ task'[r].pc = "assertPaid"
            /\ task'[r].seen = invoice /\ task'[r].orders = {o}
        BY <3>1 DEF TypeOK, Idle, Alone
      <3>3. At(r, "idle") /\ UNCHANGED <<money, coupon, faults>>
        BY <1>1 DEF Confirm
      <3>4. Others(r, Paying) # {} => "rivals" \in mishaps'
        BY <1>1 DEF Confirm
      <3>5. Confirms(r)
        BY <3>1, <3>2, <3>3, <3>4 DEF Confirms, TakesUp
      <3> QED BY <3>2, <3>5 DEF Arrives, Preparing
    <2> QED BY <1>1, <2>1, <2>2 DEF Confirm
  <1>2. CASE AssertPaid(r)
    <2>1. CASE Goto(r, "toss") /\ CouponHolds(task[r].seen)
      BY <1>2, <2>1, Moved DEF Arrives, Preparing
    <2>2. CASE End(r)
      BY <2>2, Moved, GoesElsewhere DEF Elsewhere
    <2> QED BY <1>2, <2>1, <2>2 DEF AssertPaid
  <1>3. CASE TossApproves(r)
    <2>1. Goto(r, "approved")
      BY <1>3 DEF TossApproves
    <2> QED BY <1>3, <2>1, Moved DEF Arrives, Preparing
  <1>4. CASE TossRefuses(r) \/ TossAnswerLost(r)
    <2>1. Goto(r, "refused")
      BY <1>4 DEF TossRefuses, TossAnswerLost
    <2> QED BY <1>4, <2>1, Moved DEF Arrives, Preparing
  <1>5. CASE Refused(r)
    <2>1. Last(r, "release")
      BY <1>5 DEF Refused
    <2> QED BY <2>1, Moved, GoesElsewhere DEF Elsewhere
  <1>6. CASE Approved(r)
    <2>1. Last(r, "complete") /\ Completes(r)
      BY <1>6 DEF Approved, Completes
    <2> QED BY <2>1, GoesToComplete
  <1> QED BY <1>1, <1>2, <1>3, <1>4, <1>5, <1>6 DEF ConfirmStep

LEMMA OtherArrives ==
  ASSUME TypeOK, NEW r \in Requests, OtherStep(r)
  PROVE  Arrives(r)
  <1>1. CASE Webhook(r)
    <2>1. PICK o \in taken :
            /\ payments[o].status # "SUCCESS"
            /\ task' = [task EXCEPT ![r] = [Idle EXCEPT !.pc = "hook", !.seen = invoice,
                                                       !.orders = {o}]]
      BY <1>1 DEF Webhook
    <2>2. o \in Unbooked
      BY <2>1 DEF Unbooked
    <2>3. /\ Alone(r) /\ task'[r].pc = "hook"
          /\ task'[r].seen = invoice /\ task'[r].orders = {o}
      BY <2>1 DEF TypeOK, Idle, Alone
    <2>4. At(r, "idle") /\ UNCHANGED <<money, coupon, faults>>
      BY <1>1 DEF Webhook
    <2>5. TakesUp(r, o)
      BY <2>3, <2>4 DEF TakesUp
    <2> QED BY <2>2, <2>3, <2>5 DEF Arrives, Preparing
  <1>2. CASE HookTx(r)
    <2>1. Last(r, "complete") /\ Completes(r)
      BY <1>2 DEF HookTx, Completes
    <2> QED BY <2>1, GoesToComplete
  <1>3. CASE GiveUp(r)
    <2>1. Alone(r) /\ task'[r].pc = "abandon" /\ task'[r].seen = NoInvoice
      BY <1>3 DEF TypeOK, GiveUp, Idle, Alone
    <2> QED BY <2>1, GoesElsewhere DEF Elsewhere
  <1>4. CASE Abandon(r)
    <2>1. Last(r, "release")
      BY <1>4 DEF Abandon
    <2> QED BY <2>1, Moved, GoesElsewhere DEF Elsewhere
  <1> QED BY <1>1, <1>2, <1>3, <1>4 DEF OtherStep

LEMMA StepArrives ==
  ASSUME TypeOK, NEW r \in Requests, Step(r)
  PROVE  Arrives(r)
  BY CouponArrives, FinalizeArrives, ExitArrives, PrepareArrives, ConfirmArrives, OtherArrives
     DEF Step

-----------------------------------------------------------------------------
(* What a step changes *)

\* Pending payments may be cancelled; no row changes otherwise.
Cancels == \A o \in Orders :
  /\ payments'[o].amount = payments[o].amount
  /\ \/ payments'[o].status = payments[o].status
     \/ payments[o].status = "PENDING" /\ payments'[o].status = "CANCELLED"

Quiet == UNCHANGED <<invoice, taken>> /\ Cancels

\* What Store, and Upsert, write.
Writes(r) ==
  /\ UNCHANGED <<payments, taken, coupon, faults>>
  /\ \/ /\ Store(r) /\ At(r, "store") /\ Goto(r, "link")
        /\ ~(task[r].paid > 0 /\ task[r].price > task[r].paid)
        /\ WriteInvoice(r, Issue(task[r].price, task[r].paid, task[r].coupon))
     \/ /\ Upsert(r) /\ At(r, "upsert") /\ Goto(r, "billLink")
        /\ WriteInvoice(r, Issue(task[r].price, task[r].seen.paid, task[r].coupon))

CouponEffect(r) ==
  \/ coupon' = coupon
  \/ /\ Reserved /\ coupon' = "ASSIGNED"
     /\ Others(r, Answered) # {} => "couponMoved" \in mishaps'
  \/ /\ ReserveTx(r) /\ coupon = "ASSIGNED" /\ coupon' = "RESERVED"
     /\ \/ Others(r, Answered) # {}
        \/ invoice.status # "none" /\ ~invoice.coupon
        => "couponMoved" \in mishaps'
  \/ At(r, "complete") /\ End(r) /\ coupon = "RESERVED" /\ coupon' = "USED"

Effects(r) ==
  /\ mishaps \subseteq mishaps'
  /\ faults' = faults \/ TossAnswerLost(r)
  /\ \/ Quiet
     \/ Writes(r)
     \/ Create(r) /\ UNCHANGED <<invoice, taken>>
     \/ TossApproves(r) /\ UNCHANGED <<invoice, payments>>
     \/ TossAnswerLost(r) /\ UNCHANGED <<invoice, payments>>
     \/ Refused(r) /\ UNCHANGED <<invoice, taken>>
     \/ (Approved(r) \/ HookTx(r)) /\ UNCHANGED taken
  /\ CouponEffect(r)
  /\ Create(r) \/ Writes(r) \/ Refused(r) \/ Approved(r) \/ HookTx(r) => coupon' = coupon

LEMMA CancelsFacts ==
  ASSUME TypeOK
  PROVE  /\ \A os : payments' = Cancelled(os) => Cancels
         /\ payments' = payments => Cancels
  BY DEF TypeOK, Cancelled, Pending, Cancels

LEMMA ReleaseEffect ==
  ASSUME TypeOK, NEW r, NEW inv, ReleaseCoupon(r) \/ CleanUp(r) \/ AskForCoupon(r, inv)
  PROVE  Cancels /\ CouponEffect(r) /\ mishaps \subseteq mishaps'
  <1>1. \/ UNCHANGED <<coupon, payments, mishaps>>
        \/ /\ Reserved /\ coupon' = "ASSIGNED"
           /\ payments' = Cancelled(Orders)
           /\ CouponMoves(Others(r, Answered))
    BY DEF ReleaseCoupon, CleanUp, AskForCoupon
  <1>2. Cancels
    BY <1>1, CancelsFacts
  <1> QED BY <1>1, <1>2 DEF CouponEffect, CouponMoves

\* Steps that only move on, and may cancel payments or release the coupon.
LEMMA QuietEffects ==
  ASSUME TypeOK, NEW r, UNCHANGED <<invoice, taken, faults>>, Cancels, CouponEffect(r),
         mishaps \subseteq mishaps',
         Create(r) \/ Writes(r) \/ Refused(r) \/ Approved(r) \/ HookTx(r) => coupon' = coupon
  PROVE  Effects(r)
  BY DEF Effects, Quiet

\* Other steps leave the coupon alone.
LEMMA CouponKept ==
  ASSUME NEW r
  PROVE  Create(r) \/ Writes(r) \/ Refused(r) \/ Approved(r) \/ HookTx(r) => coupon' = coupon
  BY DEF Create, Writes, Refused, Approved, HookTx

LEMMA StepEffects ==
  ASSUME TypeOK, NEW r \in Requests, Step(r)
  PROVE  Effects(r)
  <1> USE DEF money, place
  <1>1. CASE CouponStep(r)
    <2>1. CASE Reserve(r) \/ Release(r)
      BY <2>1, ReleaseEffect, QuietEffects, CouponKept DEF Reserve, Release
    <2>2. CASE ReserveTx(r)
      <3>1. CouponEffect(r) /\ mishaps \subseteq mishaps'
        BY <2>2 DEF ReserveTx, CouponEffect, CouponMoves
      <3> QED BY <2>2, <3>1, QuietEffects, CouponKept, CancelsFacts DEF ReserveTx
    <2>3. CASE Complete(r)
      <3>1. CouponEffect(r)
        BY <2>3 DEF Complete, CouponEffect
      <3> QED BY <2>3, <3>1, QuietEffects, CouponKept, CancelsFacts DEF Complete
    <2> QED BY <1>1, <2>1, <2>2, <2>3 DEF CouponStep
  <1>2. CASE FinalizeStep(r)
    <2>1. CASE Finalize(r) \/ FinalizeRead(r) \/ Unfreeze(r) \/ SumPaid(r) \/ Link(r)
      BY <2>1, QuietEffects, CouponKept, CancelsFacts
         DEF Finalize, FinalizeRead, Unfreeze, SumPaid, Link, CouponEffect
    <2>2. CASE Freeze(r) \/ Price(r)
      BY <2>2, ReleaseEffect, QuietEffects, CouponKept DEF Freeze, Price, PriceIt
    <2>3. CASE Store(r)
      <3>1. CASE UNCHANGED <<invoice, mishaps>>
        BY <2>3, <3>1, QuietEffects, CouponKept, CancelsFacts DEF Store, CouponEffect
      <3>2. CASE Writes(r)
        BY <3>2 DEF Effects, Writes, CouponEffect, WriteInvoice
      <3> QED BY <2>3, <3>1, <3>2 DEF Store, Writes
    <2> QED BY <1>2, <2>1, <2>2, <2>3 DEF FinalizeStep
  <1>3. CASE ExitStep(r)
    <2>1. CASE ManualExit(r) \/ Close(r) \/ KeepPaid(r) \/ BillRead(r) \/ BillLink(r)
      BY <2>1, QuietEffects, CouponKept, CancelsFacts
         DEF ManualExit, Close, KeepPaid, BillRead, BillLink, CouponEffect
    <2>2. CASE BillPrice(r)
      BY <2>2, ReleaseEffect, QuietEffects, CouponKept DEF BillPrice, PriceIt
    <2>3. CASE Upsert(r)
      <3>1. Writes(r)
        BY <2>3 DEF Upsert, Writes
      <3> QED BY <3>1 DEF Effects, Writes, CouponEffect, WriteInvoice
    <2> QED BY <1>3, <2>1, <2>2, <2>3 DEF ExitStep
  <1>4. CASE PrepareStep(r)
    <2>1. CASE Prepare(r) \/ CancelAll(r)
      BY <2>1, QuietEffects, CouponKept, CancelsFacts DEF Prepare, CancelAll, CouponEffect
    <2>2. CASE AssertPrepared(r)
      BY <2>2, ReleaseEffect, QuietEffects, CouponKept DEF AssertPrepared
    <2>3. CASE CancelStale(r)
      <3>1. \E os : payments' = Cancelled(os)
        BY <2>3 DEF CancelStale
      <3> QED BY <2>3, <3>1, QuietEffects, CouponKept, CancelsFacts DEF CancelStale, CouponEffect
    <2>4. CASE Create(r)
      BY <2>4 DEF Create, Effects, CouponEffect
    <2> QED BY <1>4, <2>1, <2>2, <2>3, <2>4 DEF PrepareStep
  <1>5. CASE ConfirmStep(r)
    <2>1. CASE Confirm(r) \/ TossRefuses(r)
      <3>1. mishaps \subseteq mishaps' /\ UNCHANGED <<money, coupon, faults>>
        BY <2>1 DEF Confirm, TossRefuses
      <3> QED BY <3>1, QuietEffects, CouponKept, CancelsFacts DEF CouponEffect
    <2>2. CASE AssertPaid(r)
      BY <2>2, ReleaseEffect, QuietEffects, CouponKept DEF AssertPaid
    <2>3. CASE TossApproves(r) \/ TossAnswerLost(r)
      <3>1. UNCHANGED <<invoice, payments, coupon, mishaps>>
        BY <2>3 DEF TossApproves, TossAnswerLost
      <3>2. faults' = faults \/ TossAnswerLost(r)
        BY <2>3 DEF TossApproves
      <3> QED BY <2>3, <3>1, <3>2 DEF Effects, CouponEffect
    <2>4. CASE Refused(r)
      BY <2>4 DEF Refused, Effects, CouponEffect
    <2>5. CASE Approved(r)
      BY <2>5 DEF Approved, Effects, CouponEffect
    <2> QED BY <1>5, <2>1, <2>2, <2>3, <2>4, <2>5 DEF ConfirmStep
  <1>6. CASE OtherStep(r)
    <2>1. CASE Webhook(r) \/ GiveUp(r) \/ Abandon(r)
      BY <2>1, QuietEffects, CouponKept, CancelsFacts DEF Webhook, GiveUp, Abandon, CouponEffect
    <2>2. CASE HookTx(r)
      BY <2>2 DEF HookTx, Effects, CouponEffect
    <2> QED BY <1>6, <2>1, <2>2 DEF OtherStep
  <1> QED BY <1>1, <1>2, <1>3, <1>4, <1>5, <1>6 DEF Step

\* The clock and the member, and steps that change nothing.
Ambient ==
  /\ UNCHANGED <<task, faults>>
  /\ mishaps \subseteq mishaps'
  /\ Quiet
  /\ \/ coupon' = coupon
     \/ /\ coupon # "USED" /\ coupon' \in {"ASSIGNED", "LAPSED"}
        /\ (\E q \in Requests : task[q].pc \in Answered) => "couponMoved" \in mishaps'

LEMMA NextKinds ==
  ASSUME TypeOK, [Next]_vars
  PROVE  Ambient \/ Restart \/ \E r \in Requests : Step(r) /\ Arrives(r) /\ Effects(r)
  <1> USE DEF money, place
  <1>1. CASE UNCHANGED vars
    BY <1>1, CancelsFacts DEF vars, Ambient, Quiet
  <1>2. CASE FeeGrows
    BY <1>2, CancelsFacts DEF FeeGrows, Ambient, Quiet
  <1>3. CASE Lapse
    BY <1>3, CancelsFacts DEF Lapse, CouponMoves, Ambient, Quiet
  <1>4. CASE ReleaseByMember
    <2>1. Quiet
      BY <1>4, CancelsFacts DEF ReleaseByMember, Quiet
    <2> QED BY <1>4, <2>1 DEF ReleaseByMember, Reserved, CouponMoves, Ambient
  <1>5. CASE \E r \in Requests : Step(r)
    BY <1>5, StepArrives, StepEffects
  <1> QED BY <1>1, <1>2, <1>3, <1>4, <1>5 DEF Next, Step

-----------------------------------------------------------------------------
(* Invoices are sound, and payments are created for what is unpaid *)

LEMMA IssueFacts ==
  ASSUME NEW price \in Amounts, NEW paid \in Amounts, NEW c
  PROVE  LET inv == Issue(price, paid, c)
         IN  /\ inv.status \in {"ISSUED", "PAID"}
             /\ inv.status = "PAID" <=> price <= paid
             /\ inv.amount = price /\ inv.paid = paid /\ inv.coupon = c
             /\ paid = 0 \/ price <= paid => Sound(inv)
  BY DEF Issue, Sound, Minus, Amounts

\* The invoice that is written or booked: what it is, and what it says.
LEMMA WrittenInvoice ==
  ASSUME TypeOK, InvoicesSound, NEW r \in Requests, Writes(r)
  PROVE  /\ Sound(invoice') /\ invoice'.status # "none"
         /\ invoice'.coupon = task[r].coupon
         /\ \/ invoice'.paid = 0
            \/ At(r, "store") /\ invoice'.paid = task[r].paid
         /\ invoice'.status = "PAID" => invoice'.paid >= invoice'.amount
         /\ invoice'.status = "PAID" <=> invoice'.amount <= invoice'.paid
         /\ invoice'.amount = task[r].price
         /\ At(r, "upsert") => task[r].seen.paid = 0
  <1>1. task[r] \in Tasks /\ task[r].seen \in Invoices
    BY DEF TypeOK, Tasks
  <1>2. task[r].price \in Amounts /\ task[r].paid \in Amounts /\ task[r].seen.paid \in Amounts
    BY <1>1 DEF Tasks, Invoices
  <1>3. CASE At(r, "store")
    <2>1. /\ invoice' = Issue(task[r].price, task[r].paid, task[r].coupon)
          /\ ~(task[r].paid > 0 /\ task[r].price > task[r].paid)
      BY <1>3 DEF Writes, WriteInvoice, At
    <2>2. task[r].paid = 0 \/ task[r].price <= task[r].paid
      BY <1>2, <2>1 DEF Amounts
    <2> QED BY <1>2, <1>3, <2>1, <2>2, IssueFacts DEF At, Amounts
  <1>4. CASE At(r, "upsert")
    <2>1. invoice' = Issue(task[r].price, task[r].seen.paid, task[r].coupon)
      BY <1>4 DEF Writes, WriteInvoice, At
    <2>2. task[r].seen.paid = 0
      BY <1>4 DEF InvoicesSound, Sound, At
    <2> QED BY <1>2, <1>4, <2>1, <2>2, IssueFacts DEF At, Amounts
  <1> QED BY <1>3, <1>4 DEF Writes

\* What Approved, and HookTx, book.
LEMMA BookedInvoice ==
  ASSUME TypeOK, OrdersExist, NEW r \in Requests, Approved(r) \/ HookTx(r)
  PROVE  /\ invoice'.status = "PAID" /\ invoice'.unpaid = 0
         /\ invoice'.paid = task[r].seen.amount /\ invoice'.amount = invoice.amount
         /\ invoice'.coupon = IF Approved(r) THEN task[r].seen.coupon ELSE invoice.coupon
         /\ \E o \in Orders : /\ task[r].orders = {o}
                              /\ payments' = [payments EXCEPT ![o].status = "SUCCESS"]
  <1>1. invoice \in Invoices
    BY DEF TypeOK
  <1>2. PICK p \in Orders : task[r].orders = {p}
    BY DEF OrdersExist, Approved, HookTx, At, Settling, Paying
  <1>3. payments' = [payments EXCEPT ![p].status = "SUCCESS"]
    BY <1>2 DEF Approved, HookTx, Book
  <1>4. CASE Approved(r)
    <2>1. invoice' = [invoice EXCEPT !.status = "PAID", !.paid = task[r].seen.amount,
                                     !.unpaid = 0, !.coupon = task[r].seen.coupon]
      BY <1>4 DEF Approved, Book
    <2> QED BY <1>1, <1>2, <1>3, <1>4, <2>1 DEF Invoices
  <1>5. CASE HookTx(r)
    <2>1. invoice' = [invoice EXCEPT !.status = "PAID", !.paid = task[r].seen.amount,
                                     !.unpaid = 0]
      BY <1>5 DEF HookTx, Book
    <2>2. ~Approved(r)
      BY <1>5 DEF HookTx, Approved, At
    <2> QED BY <1>1, <1>2, <1>3, <2>1, <2>2 DEF Invoices
  <1> QED BY <1>4, <1>5

LEMMA NextInvoicesSound ==
  ASSUME TypeOK, InvoicesSound, OrdersExist, [Next]_vars
  PROVE  InvoicesSound'
  <1>1. CASE Ambient
    BY <1>1 DEF Ambient, Quiet, InvoicesSound, Sound
  <1>2. CASE Restart
    BY <1>2 DEF Restart, InvoicesSound, Sound, Idle, NoInvoice, money
  <1>3. ASSUME NEW r \in Requests, Step(r), Arrives(r), Effects(r)
        PROVE  InvoicesSound'
    <2>1. Sound(invoice)'
      <3>1. CASE Writes(r)
        BY <3>1, WrittenInvoice DEF Sound
      <3>2. CASE Approved(r) \/ HookTx(r)
        BY <3>2, BookedInvoice DEF Sound
      <3>3. CASE invoice' = invoice
        BY <3>3 DEF InvoicesSound, Sound
      <3> QED BY <1>3, <3>1, <3>2, <3>3 DEF Effects, Quiet
    <2>2. ASSUME NEW q \in Requests
          PROVE  /\ Sound(task[q].seen)'
                 /\ (task[q].pc \in {"billPrice", "upsert"} => task[q].seen.status # "PAID")'
      <3>1. CASE q # r
        BY <1>3, <3>1 DEF Arrives, Alone, InvoicesSound, Sound
      <3>2. CASE q = r
        <4>1. task'[r].seen \in {task[r].seen, invoice, NoInvoice}
          BY <1>3 DEF Arrives
        <4>2. Sound(task[r].seen)'
          BY <4>1 DEF InvoicesSound, Sound, NoInvoice
        <4>3. task'[r].pc = "billPrice" => task'[r].seen.status # "PAID"
          BY <1>3, <4>2 DEF Arrives, Sound
        <4>4. task'[r].pc = "upsert" => task'[r].seen.status # "PAID"
          BY <1>3 DEF Arrives, At, InvoicesSound
        <4> QED BY <3>2, <4>2, <4>3, <4>4
      <3> QED BY <3>1, <3>2
    <2> QED BY <2>1, <2>2 DEF InvoicesSound
  <1> QED BY <1>1, <1>2, <1>3, NextKinds

Preparers == {r \in Requests : task[r].pc \in Preparing}

LEMMA Counts ==
  /\ IsFiniteSet(Preparers) /\ IsFiniteSet(Unused)
  /\ Cardinality(Preparers) \in Nat /\ Cardinality(Unused) \in Nat
  <1>1. IsFiniteSet(Orders)
    BY FS_Interval, BoundAssumption DEF Orders
  <1>2. IsFiniteSet(Preparers) /\ IsFiniteSet(Unused)
    BY <1>1, RequestsAssumption, FS_Subset DEF Preparers, Unused
  <1> QED BY <1>2, FS_CardinalityType

\* A set of numbers that is not empty has a least one.
LEMMA LeastExists ==
  ASSUME NEW S \in SUBSET Nat, S # {}
  PROVE  \E u \in S : \A v \in S : u <= v
  <1>1. PICK u \in S : \A v \in S : ~ (<<v, u>> \in OpToRel(<, Nat))
    BY NatLessThanWellFounded, WFMin
  <1>2. \A v \in S : ~ (v < u)
    BY <1>1 DEF OpToRel
  <1>3. \A v \in S : u <= v
    BY <1>2
  <1> QED BY <1>3

\* Create finds an order, the first that has no row.
NextOrder == CHOOSE u \in Unused : \A v \in Unused : u <= v

LEMMA CreateFinds ==
  ASSUME TypeOK, OrdersLeft, NEW r \in Requests, Create(r)
  PROVE  NextOrder \in Unused
  <1>1. r \in Preparers
    BY DEF Create, At, Preparers, Preparing
  <1>2. Cardinality(Preparers) # 0
    BY <1>1, Counts, FS_EmptySet
  <1>3. Cardinality(Unused) # 0
    BY <1>2, Counts DEF OrdersLeft, Preparers
  <1>4. Unused # {} /\ Unused \subseteq Nat
    BY <1>3, FS_EmptySet, BoundAssumption DEF Unused, Orders
  <1>5. \E u \in Unused : \A v \in Unused : u <= v
    BY <1>4, LeastExists
  <1> QED BY <1>5 DEF NextOrder

LEMMA CreateWrites ==
  ASSUME TypeOK, OrdersLeft, NEW r \in Requests, Create(r)
  PROVE  /\ payments[NextOrder].status = "none" /\ NextOrder \in Orders
         /\ payments'[NextOrder].status = "PENDING"
         /\ payments'[NextOrder].amount = task[r].seen.unpaid
         /\ \A o \in Orders \ {NextOrder} : payments'[o] = payments[o]
  <1>1. NextOrder \in Orders /\ payments[NextOrder].status = "none"
    BY CreateFinds DEF Unused
  <1>2. payments' = [payments EXCEPT ![NextOrder] = [status |-> "PENDING",
                                                    amount |-> task[r].seen.unpaid]]
    BY DEF Create, NextOrder
  <1> HIDE DEF NextOrder
  <1> QED BY <1>1, <1>2 DEF TypeOK

\* Orders keep their rows: none is forgotten, and amounts stay.
LEMMA RowsKept ==
  ASSUME TypeOK, OrdersExist, OrdersLeft, NEW r \in Requests, Step(r), Effects(r)
  PROVE  /\ \A o \in Orders : payments[o].status # "none" => /\ payments'[o].status # "none"
                                                            /\ payments'[o].amount = payments[o].amount
         /\ \A o \in Orders : payments'[o].status = "PENDING" => payments'[o].amount > 0
  <1>1. CASE Quiet
    BY <1>1 DEF Quiet, Cancels, OrdersExist
  <1>2. CASE payments' = payments
    BY <1>2 DEF OrdersExist
  <1>3. CASE Create(r)
    <2>1. task[r].seen.unpaid > 0
      BY <1>3 DEF Create, At, OrdersExist, Preparing
    <2>2. payments'[NextOrder].status = "PENDING" /\ payments'[NextOrder].amount > 0
      BY <1>3, <2>1, CreateWrites
    <2> QED BY <1>3, <2>2, CreateWrites DEF OrdersExist
  <1>4. CASE Refused(r)
    <2>1. \A o \in Orders : payments'[o] = IF o \in task[r].orders
                                          THEN [payments[o] EXCEPT !.status = "FAILED"]
                                          ELSE payments[o]
      BY <1>4 DEF Refused
    <2>2. \A o \in Orders : LET f == [payments[o] EXCEPT !.status = "FAILED"]
                            IN  f.status = "FAILED" /\ f.amount = payments[o].amount
      BY DEF TypeOK
    <2> QED BY <2>1, <2>2 DEF OrdersExist
  <1>5. CASE Approved(r) \/ HookTx(r)
    <2>1. PICK o \in Orders : payments' = [payments EXCEPT ![o].status = "SUCCESS"]
      BY <1>5, BookedInvoice
    <2> QED BY <2>1 DEF TypeOK, OrdersExist
  <1> QED BY <1>1, <1>2, <1>3, <1>4, <1>5 DEF Effects, Writes

LEMMA NextOrdersExist ==
  ASSUME TypeOK, InvoicesSound, OrdersExist, OrdersLeft, BookersHoldTaken, [Next]_vars
  PROVE  OrdersExist'
  <1>1. CASE Ambient
    <2>1. \A o \in Orders : /\ payments'[o].amount = payments[o].amount
                            /\ payments[o].status # "none" => payments'[o].status # "none"
                            /\ payments'[o].status = "PENDING" => payments[o].status = "PENDING"
      BY <1>1 DEF Ambient, Quiet, Cancels
    <2>2. task' = task /\ taken' = taken /\ taken \subseteq Orders
      BY <1>1 DEF Ambient, Quiet, TypeOK
    <2> QED BY <2>1, <2>2 DEF OrdersExist
  <1>2. CASE Restart
    BY <1>2 DEF Restart, OrdersExist, Idle, Preparing, Settling, Paying, money
  <1>3. ASSUME NEW r \in Requests, Step(r), Arrives(r), Effects(r)
        PROVE  OrdersExist'
    <2>1. \A o \in Orders : payments[o].status # "none" => payments'[o].status # "none"
      BY <1>3, RowsKept
    <2>2. ASSUME NEW o \in taken' PROVE payments'[o].status # "none"
      <3>1. CASE o \in taken
        BY <2>1, <3>1 DEF TypeOK, OrdersExist
      <3>2. CASE TossApproves(r) \/ TossAnswerLost(r)
        <4>1. task[r].pc \in Settling /\ taken' = taken \cup task[r].orders
          BY <3>2 DEF TossApproves, TossAnswerLost, At, Settling, Paying
        <4> QED BY <2>1, <2>2, <4>1 DEF TypeOK, OrdersExist
      <3>3. CASE taken' = taken
        BY <2>2, <3>1, <3>3
      <3> QED BY <1>3, <3>2, <3>3 DEF Effects, Quiet, Writes
    <2>3. ASSUME NEW q \in Requests, task'[q].pc \in Preparing
          PROVE  task'[q].seen.unpaid > 0
      <3>1. CASE q # r
        BY <1>3, <2>3, <3>1 DEF Arrives, Alone, OrdersExist
      <3>2. CASE q = r
        BY <1>3, <2>3, <3>2 DEF Arrives, Prepare, OrdersExist
      <3> QED BY <3>1, <3>2
    <2>4. ASSUME NEW q \in Requests, task'[q].pc \in Settling
          PROVE  \E o \in Orders : task'[q].orders = {o} /\ payments'[o].status # "none"
      <3>1. CASE task'[q].orders = task[q].orders /\ task[q].pc \in Settling
        BY <2>1, <3>1 DEF OrdersExist
      <3>2. CASE q = r /\ task'[r].pc = "assertPaid"
        <4>1. PICK o \in Orders : TakesUp(r, o) /\ payments[o].status = "PENDING"
          BY <1>3, <3>2 DEF Arrives, Confirms
        <4> QED BY <2>1, <3>2, <4>1 DEF TakesUp
      <3>3. CASE q = r /\ task'[r].pc = "hook"
        <4>1. PICK o \in Unbooked : TakesUp(r, o)
          BY <1>3, <3>3 DEF Arrives
        <4>2. o \in Orders /\ payments[o].status # "none"
          BY <4>1 DEF Unbooked, OrdersExist, TypeOK
        <4> QED BY <2>1, <3>3, <4>1, <4>2 DEF TakesUp
      <3>4. CASE q = r /\ task'[r].pc \in {"toss", "approved", "refused"}
        <4>1. task'[r].orders = task[r].orders /\ task[r].pc \in Settling
          BY <1>3, <3>4 DEF Arrives, AssertPaid, TossApproves, TossRefuses, TossAnswerLost, At,
             Settling, Paying
        <4> QED BY <3>1, <3>4, <4>1
      <3>5. CASE q # r
        BY <1>3, <2>4, <3>1, <3>5 DEF Arrives, Alone
      <3> QED BY <2>4, <3>2, <3>3, <3>4, <3>5 DEF Settling, Paying
    <2>5. \A o \in Orders : payments'[o].status = "PENDING" => payments'[o].amount > 0
      BY <1>3, RowsKept
    <2> QED BY <2>2, <2>3, <2>4, <2>5 DEF OrdersExist
  <1> QED BY <1>1, <1>2, <1>3, NextKinds

LEMMA NextInvoiceFirst ==
  ASSUME TypeOK, InvoicesSound, OrdersExist, OrdersLeft, InvoiceFirst, [Next]_vars
  PROVE  InvoiceFirst'
  <1>1. CASE Ambient
    BY <1>1 DEF Ambient, Quiet, Cancels, InvoiceFirst
  <1>2. CASE Restart
    BY <1>2 DEF Restart, InvoiceFirst, Idle, Preparing, money
  <1>3. ASSUME NEW r \in Requests, Step(r), Arrives(r), Effects(r), invoice'.status = "none"
        PROVE  /\ \A o \in Orders : payments'[o].status = "none"
               /\ \A q \in Requests : task'[q].pc \notin Preparing
    <2>1. ~Writes(r) /\ ~Approved(r) /\ ~HookTx(r)
      BY <1>3, WrittenInvoice, BookedInvoice
    <2>2. invoice' = invoice
      BY <1>3, <2>1 DEF Effects, Quiet
    <2>3. /\ \A o \in Orders : payments[o].status = "none"
          /\ \A q \in Requests : task[q].pc \notin Preparing
      BY <1>3, <2>2 DEF InvoiceFirst
    <2>4. ~Create(r) /\ ~Refused(r)
      BY <2>3 DEF Create, Refused, At, Preparing, OrdersExist, Settling, Paying
    <2>5. \A o \in Orders : payments'[o].status = "none"
      BY <1>3, <2>1, <2>3, <2>4 DEF Effects, Quiet, Cancels
    <2>6. \A q \in Requests : task'[q].pc \notin Preparing
      BY <1>3, <2>2, <2>3 DEF Arrives, Alone, Prepare
    <2> QED BY <2>5, <2>6
  <1> QED BY <1>1, <1>2, <1>3, NextKinds DEF InvoiceFirst

LEMMA NextOrdersLeft ==
  ASSUME TypeOK, TypeOK', OrdersExist, OrdersLeft, [Next]_vars
  PROVE  OrdersLeft'
  <1> USE Counts
  <1>0. Cardinality(Preparers) <= Cardinality(Unused)
    BY DEF OrdersLeft, Preparers
  <1>s. ASSUME Cardinality(Preparers') <= Cardinality(Unused') PROVE OrdersLeft'
    BY <1>s DEF OrdersLeft, Preparers
  <1>1. ASSUME Preparers' \subseteq Preparers, Unused' = Unused PROVE OrdersLeft'
    <2>1. Cardinality(Preparers') \in Nat /\ Cardinality(Preparers') <= Cardinality(Preparers)
      BY <1>1, FS_Subset, FS_CardinalityType
    <2> QED BY <1>0, <1>1, <1>s, <2>1
  <1>2. CASE Ambient
    <2>1. Unused' = Unused
      BY <1>2 DEF Ambient, Quiet, Cancels, Unused
    <2> QED BY <1>1, <1>2, <2>1 DEF Ambient, Preparers
  <1>3. CASE Restart
    BY <1>1, <1>3 DEF Restart, Idle, Preparers, Preparing, Unused, money
  <1>4. ASSUME NEW r \in Requests, Step(r), Arrives(r), Effects(r)
        PROVE  OrdersLeft'
    <2>1. CASE Create(r)
      <3>1. task'[r].pc = "idle"
        BY <2>1, Moved DEF Create
      <3>2. r \in Preparers /\ Preparers' = Preparers \ {r}
        BY <1>4, <2>1, <3>1 DEF Arrives, Alone, Create, At, Preparers, Preparing
      <3>3. Unused' = Unused \ {NextOrder} /\ NextOrder \in Unused
        <4>1. NextOrder \in Unused
          BY <2>1, CreateFinds
        <4>2. payments'[NextOrder].status = "PENDING"
          BY <2>1, CreateWrites
        <4> QED BY <2>1, <4>1, <4>2, CreateWrites DEF Unused
      <3>4. Cardinality(Preparers') = Cardinality(Preparers) - 1
        BY <3>2, FS_RemoveElement
      <3>5. Cardinality(Unused') = Cardinality(Unused) - 1
        BY <3>3, FS_RemoveElement
      <3> QED BY <1>0, <1>s, <3>4, <3>5
    <2>2. CASE Prepare(r)
      <3>1. Preparers' \subseteq Preparers \cup {r} /\ r \notin Preparers
        BY <1>4, <2>2 DEF Arrives, Alone, Prepare, At, Preparers, Preparing
      <3>2. Preparers = Others(r, {"assertPrepared", "cancelStale", "create"})
        BY <3>1 DEF Preparers, Others, Preparing
      <3>3. Cardinality(Unused) > Cardinality(Preparers)
        BY <2>2, <3>2 DEF Prepare
      <3>4. Cardinality(Preparers \cup {r}) = Cardinality(Preparers) + 1
        BY <3>1, FS_AddElement
      <3>5. Cardinality(Preparers') \in Nat /\ Cardinality(Preparers') <= Cardinality(Preparers) + 1
        BY <3>1, <3>4, FS_AddElement, FS_Subset, FS_CardinalityType
      <3>6. Unused' = Unused
        BY <2>2 DEF Prepare, Unused, money
      <3> QED BY <1>s, <3>3, <3>5, <3>6
    <2>3. CASE ~Create(r) /\ ~Prepare(r)
      <3>1. Preparers' \subseteq Preparers
        BY <1>4, <2>3 DEF Arrives, Alone, Preparers
      <3>2. \A o \in Orders : payments'[o].status = "none" => payments[o].status = "none"
        BY <1>4, RowsKept
      <3>3. \A o \in Orders : payments[o].status = "none" => payments'[o].status = "none"
        <4>1. CASE Quiet \/ payments' = payments
          BY <4>1 DEF Quiet, Cancels
        <4>2. CASE Refused(r)
          <5>1. \E p \in Orders : task[r].orders = {p} /\ payments[p].status # "none"
            BY <4>2 DEF Refused, At, OrdersExist, Settling, Paying
          <5> QED BY <4>2, <5>1 DEF Refused
        <4>3. CASE Approved(r) \/ HookTx(r)
          <5>1. PICK p \in Orders : /\ task[r].orders = {p}
                                    /\ payments' = [payments EXCEPT ![p].status = "SUCCESS"]
            BY <4>3, BookedInvoice
          <5>2. payments[p].status # "none"
            BY <4>3, <5>1 DEF Approved, HookTx, At, OrdersExist, Settling, Paying
          <5> QED BY <5>1, <5>2 DEF TypeOK
        <4> QED BY <1>4, <2>3, <4>1, <4>2, <4>3 DEF Effects, Writes
      <3> QED BY <1>1, <3>1, <3>2, <3>3 DEF Unused
    <2> QED BY <2>1, <2>2, <2>3
  <1> QED BY <1>2, <1>3, <1>4, NextKinds

-----------------------------------------------------------------------------
(* One charge for every fault, and one *)

\* A request that goes on paying was paying, or starts alone, or makes rivals.
LEMMA PayersFacts ==
  ASSUME TypeOK, NEW r \in Requests, Arrives(r), task'[r].pc \in Paying
  PROVE  \/ task[r].pc \in Paying
         \/ /\ task'[r].pc = "assertPaid" /\ Confirms(r)
            /\ "rivals" \notin mishaps' => \A q \in Requests \ {r} : task[q].pc \notin Paying
  <1>1. CASE task'[r].pc = "assertPaid"
    BY <1>1 DEF Arrives, Confirms, Others
  <1>2. CASE task'[r].pc \in {"toss", "approved", "refused"}
    BY <1>2 DEF Arrives, AssertPaid, TossApproves, TossRefuses, TossAnswerLost, At, Paying
  <1> QED BY <1>1, <1>2 DEF Paying

LEMMA NextOnePayer ==
  ASSUME TypeOK, OnePayer, [Next]_vars
  PROVE  OnePayer'
  <1>1. CASE Ambient
    BY <1>1 DEF Ambient, OnePayer
  <1>2. CASE Restart
    BY <1>2 DEF Restart, OnePayer, Idle, Paying
  <1>3. ASSUME NEW r \in Requests, Step(r), Arrives(r), Effects(r), "rivals" \notin mishaps',
               NEW p \in Requests, NEW q \in Requests,
               task'[p].pc \in Paying, task'[q].pc \in Paying
        PROVE  p = q
    <2>1. \A x, y \in Requests : task[x].pc \in Paying /\ task[y].pc \in Paying => x = y
      BY <1>3 DEF Effects, OnePayer
    <2>2. \A x \in Requests \ {r} : task'[x] = task[x]
      BY <1>3 DEF Arrives, Alone
    <2>3. task'[r].pc \in Paying =>
            task[r].pc \in Paying \/ \A x \in Requests \ {r} : task[x].pc \notin Paying
      BY <1>3, PayersFacts
    <2> QED BY <1>3, <2>1, <2>2, <2>3
  <1> QED BY <1>1, <1>2, <1>3, NextKinds DEF OnePayer

LEMMA TakenCounts ==
  ASSUME TypeOK
  PROVE  IsFiniteSet(taken) /\ Cardinality(taken) \in Nat
  <1>1. IsFiniteSet(Orders)
    BY FS_Interval, BoundAssumption DEF Orders
  <1> QED BY <1>1, FS_Subset, FS_CardinalityType DEF TypeOK

\* Without the excuses: what ChargesCounted says of the charges.
Counted ==
  /\ Cardinality(taken) <= 1 + faults
  /\ \A r \in Requests : task[r].pc \in {"assertPaid", "toss"} => Cardinality(taken) <= faults
  /\ Cardinality(taken) > faults =>
       invoice.status = "PAID" \/ \E r \in Requests : task[r].pc = "approved"

\* A paid invoice stays paid, or is issued again.
LEMMA PaidStays ==
  ASSUME TypeOK, OrdersExist, NEW r \in Requests, Effects(r), "reissued" \notin mishaps',
         invoice.status = "PAID"
  PROVE  invoice'.status = "PAID"
  <1>1. ~Writes(r)
    BY DEF Writes, WriteInvoice
  <1>2. CASE Approved(r) \/ HookTx(r)
    BY <1>2, BookedInvoice
  <1> QED BY <1>1, <1>2 DEF Effects, Quiet

\* Approved is the only step of a request that Toss has approved.
LEMMA OnlyApproved ==
  ASSUME NEW r, Step(r), task[r].pc = "approved"
  PROVE  Approved(r)
  <1>1. ~CouponStep(r) /\ ~FinalizeStep(r)
    BY DEF At, CouponStep, Reserve, ReserveTx, Complete, Release, FinalizeStep, Finalize,
       FinalizeRead, Freeze, Unfreeze, Price, SumPaid, Store, Link
  <1>2. ~ExitStep(r) /\ ~PrepareStep(r)
    BY DEF At, ExitStep, ManualExit, Close, KeepPaid, BillRead, BillPrice, Upsert, BillLink,
       PrepareStep, Prepare, AssertPrepared, CancelAll, CancelStale, Create
  <1>3. ~OtherStep(r)
    BY DEF At, OtherStep, Webhook, HookTx, GiveUp, Abandon
  <1>4. ConfirmStep(r) => Approved(r)
    BY DEF At, ConfirmStep, Confirm, AssertPaid, TossApproves, TossRefuses, TossAnswerLost,
       Refused
  <1> QED BY <1>1, <1>2, <1>3, <1>4 DEF Step

LEMMA StepCounted ==
  ASSUME TypeOK, TypeOK', InvoicesSound, OrdersExist, OnePayer, Counted,
         {"rivals", "reissued"} \cap mishaps' = {},
         NEW r \in Requests, Step(r), Arrives(r), Effects(r)
  PROVE  Counted'
  <1> USE TakenCounts
  <1>f. faults \in Nat
    BY DEF TypeOK
  <1>o. \A x, y \in Requests : task[x].pc \in Paying /\ task[y].pc \in Paying => x = y
    BY DEF Effects, OnePayer
  <1>a. \A q \in Requests \ {r} : task'[q] = task[q]
    BY DEF Arrives, Alone
  <1>1. CASE TossApproves(r) \/ TossAnswerLost(r)
    <2>1. PICK o \in Orders : task[r].orders = {o}
      BY <1>1 DEF TossApproves, TossAnswerLost, At, OrdersExist, Settling, Paying
    <2>2. /\ taken' = taken \cup {o}
          /\ task[r].pc = "toss" /\ task'[r].pc \in {"approved", "refused"}
      BY <1>1, <2>1, Moved DEF TossApproves, TossAnswerLost, At
    <2>3. Cardinality(taken) <= faults
      BY <2>2 DEF Counted
    <2>4. Cardinality(taken') <= Cardinality(taken) + 1 /\ Cardinality(taken') \in Nat
      <3>1. IsFiniteSet(taken) /\ Cardinality(taken) \in Nat
        BY TakenCounts
      <3>2. \/ Cardinality(taken') = Cardinality(taken)
            \/ Cardinality(taken') = Cardinality(taken) + 1
        BY <2>2, <3>1, FS_AddElement
      <3> QED BY <3>1, <3>2
    <2>5. \A q \in Requests : task'[q].pc \notin {"assertPaid", "toss"}
      BY <1>a, <1>o, <2>2 DEF Paying
    <2>6. CASE TossApproves(r)
      <3>1. faults' = faults /\ task'[r].pc = "approved"
        BY <2>6, Moved DEF TossApproves
      <3>2. Cardinality(taken') <= 1 + faults'
        BY <1>f, <2>3, <2>4, <3>1
      <3> QED BY <2>5, <3>1, <3>2 DEF Counted
    <2>7. CASE TossAnswerLost(r)
      <3>1. faults' = faults + 1
        BY <2>7 DEF TossAnswerLost
      <3> QED BY <1>f, <2>3, <2>4, <2>5, <3>1 DEF Counted
    <2> QED BY <1>1, <2>6, <2>7
  <1>2. CASE ~TossApproves(r) /\ ~TossAnswerLost(r)
    <2>1. taken' = taken /\ faults' = faults
      BY <1>2 DEF Effects, Quiet, Writes
    <2>2. Cardinality(taken) <= 1 + faults
      BY DEF Counted
    <2>3. ASSUME Cardinality(taken) > faults
          PROVE  invoice'.status = "PAID" \/ \E q \in Requests : task'[q].pc = "approved"
      <3>1. CASE invoice.status = "PAID"
        BY <3>1, PaidStays
      <3>2. CASE \E q \in Requests : task[q].pc = "approved"
        <4>1. PICK q \in Requests : task[q].pc = "approved"
          BY <3>2
        <4>2. CASE q # r
          BY <1>a, <4>1, <4>2
        <4>3. CASE q = r
          <5>1. Approved(r)
            BY <4>1, <4>3, OnlyApproved
          <5> QED BY <5>1, BookedInvoice
        <4> QED BY <4>2, <4>3
      <3> QED BY <2>3, <3>1, <3>2 DEF Counted
    <2>4. ASSUME NEW q \in Requests, task'[q].pc \in {"assertPaid", "toss"}
          PROVE  Cardinality(taken) <= faults
      <3>1. CASE q # r
        BY <1>a, <2>4, <3>1 DEF Counted
      <3>2. CASE q = r /\ task'[r].pc = "toss"
        <4>1. task[r].pc = "assertPaid"
          BY <3>2 DEF Arrives, AssertPaid, At
        <4> QED BY <4>1 DEF Counted
      <3>3. CASE q = r /\ task'[r].pc = "assertPaid"
        <4>1. PICK o \in Orders : /\ TakesUp(r, o)
                                  /\ payments[o].status = "PENDING"
                                  /\ invoice.unpaid = payments[o].amount
          BY <3>3 DEF Arrives, Confirms
        <4>2. invoice.status # "PAID"
          BY <4>1 DEF OrdersExist, InvoicesSound, Sound
        <4>3. \A x \in Requests : task[x].pc # "approved"
          BY <3>3, <4>1, PayersFacts DEF TakesUp, At, Paying
        <4> QED BY <1>f, <4>2, <4>3 DEF Counted
      <3> QED BY <2>4, <3>1, <3>2, <3>3
    <2> QED BY <2>1, <2>2, <2>3, <2>4 DEF Counted
  <1> QED BY <1>1, <1>2

LEMMA NextChargesCounted ==
  ASSUME TypeOK, TypeOK', InvoicesSound, OrdersExist, OnePayer, ChargesCounted, [Next]_vars
  PROVE  ChargesCounted'
  <1>1. ASSUME {"rivals", "reissued"} \cap mishaps' = {}, mishaps \subseteq mishaps'
        PROVE  Counted
    BY <1>1 DEF ChargesCounted, OneCharge, Counted
  <1>2. ASSUME {"rivals", "reissued"} \cap mishaps' = {} => Counted'
        PROVE  ChargesCounted'
    BY <1>2 DEF ChargesCounted, OneCharge, Counted
  <1>3. CASE Ambient
    BY <1>1, <1>2, <1>3 DEF Ambient, Quiet, Counted
  <1>4. CASE Restart
    <2>1. ASSUME Counted PROVE Counted'
      <3>1. faults' = faults + 1 /\ UNCHANGED <<taken, mishaps>>
        BY <1>4 DEF Restart, money
      <3>2. \A q \in Requests : task'[q].pc = "idle"
        BY <1>4 DEF Restart, Idle
      <3>3. faults \in Nat /\ Cardinality(taken) \in Nat
        BY TakenCounts DEF TypeOK
      <3> QED BY <2>1, <3>1, <3>2, <3>3 DEF Counted
    <2> QED BY <1>1, <1>2, <1>4, <2>1 DEF Restart
  <1>5. ASSUME NEW r \in Requests, Step(r), Arrives(r), Effects(r)
        PROVE  ChargesCounted'
    BY <1>1, <1>2, <1>5, StepCounted DEF Effects
  <1> QED BY <1>3, <1>4, <1>5, NextKinds

-----------------------------------------------------------------------------
(* A PAID invoice is paid in full, with money that was taken *)

\* Without the excuse: what PricesKept says of who settles the invoice, of the money
\* nobody has booked, of the price a finalize stores and of the invoice.
SettlersKnowPrice ==
  \A r \in Requests : task[r].pc \in Settling =>
    /\ task[r].seen.amount = invoice.amount
    /\ \A o \in task[r].orders : payments[o].amount = invoice.amount

UnbookedAtPrice == \A o \in Unbooked : payments[o].amount = invoice.amount

PaidBacked ==
  /\ \A r \in Requests : task[r].pc = "store" => Backed(task[r].paid)
  /\ Backed(invoice.paid)
  /\ invoice.status = "PAID" => invoice.paid >= invoice.amount

\* The invoice's amount stays while somebody settles it, or it is repriced.
LEMMA AmountStays ==
  ASSUME TypeOK, OrdersExist, NEW r \in Requests, Effects(r), "repriced" \notin mishaps'
  PROVE  \/ invoice'.amount = invoice.amount
         \/ /\ Writes(r) /\ Unbooked = {}
            /\ \A q \in Requests \ {r} : task[q].pc \notin Settling
  <1>1. CASE Writes(r)
    BY <1>1 DEF Writes, WriteInvoice, Others
  <1>2. CASE Approved(r) \/ HookTx(r)
    BY <1>2, BookedInvoice
  <1> QED BY <1>1, <1>2 DEF Effects, Quiet

LEMMA TakenStays ==
  ASSUME TypeOK, NEW r \in Requests, Effects(r)
  PROVE  taken \subseteq taken'
  BY DEF Effects, Quiet, Writes, TossApproves, TossAnswerLost

LEMMA BackedStays ==
  ASSUME TypeOK, OrdersExist, OrdersLeft, NEW r \in Requests, Step(r), Effects(r),
         NEW amount, Backed(amount)
  PROVE  amount = 0 \/ \E o \in taken' : payments'[o].amount = amount
  BY RowsKept, TakenStays DEF Backed, OrdersExist, TypeOK

LEMMA StepSettlers ==
  ASSUME TypeOK, InvoicesSound, OrdersExist, OrdersLeft, SettlersKnowPrice, UnbookedAtPrice,
         "repriced" \notin mishaps', NEW r \in Requests, Step(r), Arrives(r), Effects(r)
  PROVE  SettlersKnowPrice'
  <1> SUFFICES ASSUME NEW q \in Requests, task'[q].pc \in Settling
               PROVE  /\ task'[q].seen.amount = invoice'.amount
                      /\ \A o \in task'[q].orders : payments'[o].amount = invoice'.amount
    BY DEF SettlersKnowPrice
  <1>1. ~(Writes(r) /\ q = r)
    <2>1. Writes(r) => task'[r].pc \in {"link", "billLink"}
      BY Moved DEF Writes
    <2> QED BY <2>1 DEF Settling, Paying
  <1>2. task'[q] = task[q] \/ q = r
    BY DEF Arrives, Alone
  <1>3. invoice'.amount = invoice.amount
    BY <1>1, <1>2, AmountStays
  <1>4. ASSUME task[q].pc \in Settling, task'[q].orders = task[q].orders,
               task'[q].seen = task[q].seen
        PROVE  /\ task'[q].seen.amount = invoice'.amount
               /\ \A o \in task'[q].orders : payments'[o].amount = invoice'.amount
    <2>1. \E o \in Orders : task[q].orders = {o} /\ payments[o].status # "none"
      BY <1>4 DEF OrdersExist
    <2> QED BY <1>3, <1>4, <2>1, RowsKept DEF SettlersKnowPrice
  <1>5. CASE q = r /\ task'[r].pc = "assertPaid"
    <2>1. PICK o \in Orders : /\ TakesUp(r, o)
                              /\ payments[o].status = "PENDING"
                              /\ invoice.unpaid = payments[o].amount
      BY <1>5 DEF Arrives, Confirms
    <2>2. invoice.unpaid = invoice.amount
      BY <2>1 DEF OrdersExist, InvoicesSound, Sound
    <2>3. payments'[o].amount = payments[o].amount
      BY <2>1 DEF TakesUp, money
    <2> QED BY <1>3, <1>5, <2>1, <2>2, <2>3 DEF TakesUp
  <1>6. CASE q = r /\ task'[r].pc = "hook"
    <2>1. PICK o \in Unbooked : TakesUp(r, o)
      BY <1>6 DEF Arrives
    <2>2. payments[o].amount = invoice.amount
      BY <2>1 DEF UnbookedAtPrice
    <2>3. payments'[o].amount = payments[o].amount
      BY <2>1 DEF TakesUp, money
    <2> QED BY <1>3, <1>6, <2>1, <2>2, <2>3 DEF TakesUp
  <1>7. CASE q = r /\ task'[r].pc \in {"toss", "approved", "refused"}
    <2>1. /\ task'[r].orders = task[r].orders /\ task'[r].seen = task[r].seen
          /\ task[r].pc \in Settling
      BY <1>7 DEF Arrives, AssertPaid, TossApproves, TossRefuses, TossAnswerLost, At,
         Settling, Paying
    <2> QED BY <1>4, <1>7, <2>1
  <1>8. CASE q # r
    BY <1>2, <1>4, <1>8
  <1> QED BY <1>5, <1>6, <1>7, <1>8 DEF Settling, Paying

LEMMA StepUnbooked ==
  ASSUME TypeOK, OrdersExist, OrdersLeft, SettlersKnowPrice, UnbookedAtPrice,
         "repriced" \notin mishaps', NEW r \in Requests, Step(r), Arrives(r), Effects(r)
  PROVE  UnbookedAtPrice'
  <1>1. CASE Writes(r) /\ Unbooked = {}
    BY <1>1 DEF Writes, Unbooked, UnbookedAtPrice
  <1>2. CASE invoice'.amount = invoice.amount
    <2> SUFFICES ASSUME NEW o \in Unbooked'
                 PROVE  payments'[o].amount = invoice.amount
      BY <1>2 DEF UnbookedAtPrice
    <2>1. CASE o \in Unbooked
      BY <2>1, RowsKept DEF Unbooked, UnbookedAtPrice, OrdersExist, TypeOK
    <2>2. CASE task[r].pc \in Settling /\ o \in task[r].orders
      <3>1. payments[o].amount = invoice.amount
        BY <2>2 DEF SettlersKnowPrice
      <3>2. \E p \in Orders : task[r].orders = {p} /\ payments[p].status # "none"
        BY <2>2 DEF OrdersExist
      <3> QED BY <2>2, <3>1, <3>2, RowsKept
    <2>3. CASE o \notin taken
      <3>1. TossApproves(r) \/ TossAnswerLost(r)
        BY <2>3 DEF Unbooked, Effects, Quiet, Writes
      <3>2. task[r].pc \in Settling /\ o \in task[r].orders
        BY <2>3, <3>1 DEF Unbooked, TossApproves, TossAnswerLost, At, Settling, Paying
      <3> QED BY <2>2, <3>2
    <2>4. CASE o \in taken /\ payments[o].status = "SUCCESS"
      <3>1. o \in Orders /\ payments'[o].status # "SUCCESS"
        BY <2>4 DEF Unbooked, TypeOK
      <3>2. ~Create(r)
        BY <2>4, <3>1, CreateWrites
      <3>3. ~Approved(r) /\ ~HookTx(r)
        <4>1. ASSUME Approved(r) \/ HookTx(r) PROVE FALSE
          <5>1. PICK p \in Orders : payments' = [payments EXCEPT ![p].status = "SUCCESS"]
            BY <4>1, BookedInvoice
          <5> QED BY <2>4, <3>1, <5>1 DEF TypeOK
        <4> QED BY <4>1
      <3>4. Refused(r)
        BY <2>4, <3>1, <3>2, <3>3 DEF Effects, Quiet, Cancels, Writes
      <3>5. task[r].pc \in Settling /\ o \in task[r].orders
        BY <2>4, <3>1, <3>4 DEF Refused, At, Settling, Paying
      <3> QED BY <2>2, <3>5
    <2> QED BY <2>1, <2>3, <2>4 DEF Unbooked
  <1> QED BY <1>1, <1>2, AmountStays

LEMMA StepPaid ==
  ASSUME TypeOK, TypeOK', InvoicesSound, OrdersExist, OrdersLeft, BookersHoldTaken,
         SettlersKnowPrice, PaidBacked,
         "repriced" \notin mishaps', NEW r \in Requests, Step(r), Arrives(r), Effects(r)
  PROVE  PaidBacked'
  <1>1. ASSUME NEW q \in Requests, task'[q].pc = "store"
        PROVE  Backed(task[q].paid)'
    <2>1. CASE q # r
      <3>1. task'[q] = task[q]
        BY <2>1 DEF Arrives, Alone
      <3>2. Backed(task[q].paid)
        BY <1>1, <3>1 DEF PaidBacked
      <3> QED BY <3>1, <3>2, BackedStays DEF Backed
    <2>2. CASE q = r
      <3>1. task'[r].paid = 0 \/ task'[r].paid = invoice.paid
        BY <1>1, <2>2 DEF Arrives
      <3>2. Backed(invoice.paid)
        BY DEF PaidBacked
      <3> QED BY <2>2, <3>1, <3>2, BackedStays DEF Backed
    <2> QED BY <2>1, <2>2
  <1>2. Backed(invoice.paid)' /\ (invoice.status = "PAID" => invoice.paid >= invoice.amount)'
    <2>1. CASE invoice' = invoice
      <3>1. Backed(invoice.paid)
        BY DEF PaidBacked
      <3> QED BY <2>1, <3>1, BackedStays DEF Backed, PaidBacked
    <2>2. CASE Writes(r)
      <3>1. invoice'.paid = 0 \/ (At(r, "store") /\ invoice'.paid = task[r].paid)
        BY <2>2, WrittenInvoice
      <3>2. At(r, "store") => Backed(task[r].paid)
        BY DEF PaidBacked, At
      <3>3. Backed(invoice.paid)'
        BY <3>1, <3>2, BackedStays DEF Backed
      <3> QED BY <2>2, <3>3, WrittenInvoice
    <2>3. CASE Approved(r) \/ HookTx(r)
      <3>1. task[r].pc \in Settling /\ task[r].pc \in {"approved", "hook"}
        BY <2>3 DEF Approved, HookTx, At, Settling, Paying
      <3>2. PICK o \in Orders : task[r].orders = {o}
        BY <2>3, BookedInvoice
      <3>3. o \in taken /\ payments[o].amount = invoice.amount /\ task[r].seen.amount = invoice.amount
        BY <3>1, <3>2 DEF BookersHoldTaken, SettlersKnowPrice
      <3>4. invoice'.paid = invoice.amount /\ invoice'.amount = invoice.amount
        BY <2>3, <3>3, BookedInvoice
      <3>5. payments'[o].amount = invoice.amount /\ o \in taken'
        BY <3>2, <3>3, RowsKept, TakenStays DEF OrdersExist
      <3>6. invoice.amount \in Nat
        BY DEF TypeOK, Invoices, Amounts
      <3> QED BY <3>4, <3>5, <3>6 DEF Backed
    <2> QED BY <2>1, <2>2, <2>3 DEF Effects, Quiet
  <1> QED BY <1>1, <1>2 DEF PaidBacked

LEMMA NextPricesKept ==
  ASSUME TypeOK, TypeOK', InvoicesSound, OrdersExist, OrdersLeft, BookersHoldTaken,
         PricesKept, [Next]_vars
  PROVE  PricesKept'
  <1>1. PricesKept <=> ("repriced" \notin mishaps =>
                          SettlersKnowPrice /\ UnbookedAtPrice /\ PaidBacked)
    BY DEF PricesKept, SettlersKnowPrice, UnbookedAtPrice, PaidBacked
  <1>2. PricesKept' <=> ("repriced" \notin mishaps' =>
                          SettlersKnowPrice' /\ UnbookedAtPrice' /\ PaidBacked')
    BY DEF PricesKept, SettlersKnowPrice, UnbookedAtPrice, PaidBacked
  <1>3. CASE Ambient
    <2>1. /\ UNCHANGED <<task, invoice, taken>> /\ mishaps \subseteq mishaps'
          /\ \A o \in Orders : /\ payments'[o].amount = payments[o].amount
                               /\ payments'[o].status = "SUCCESS" <=> payments[o].status = "SUCCESS"
      BY <1>3 DEF Ambient, Quiet, Cancels
    <2>2. taken \subseteq Orders
      BY DEF TypeOK
    <2>3. SettlersKnowPrice => SettlersKnowPrice'
      <3>1. \A q \in Requests : task[q].pc \in Settling =>
              \E o \in Orders : task[q].orders = {o}
        BY DEF OrdersExist
      <3> QED BY <2>1, <3>1 DEF SettlersKnowPrice
    <2>4. UnbookedAtPrice => UnbookedAtPrice'
      BY <2>1, <2>2 DEF UnbookedAtPrice, Unbooked
    <2>5. PaidBacked => PaidBacked'
      BY <2>1, <2>2 DEF PaidBacked, Backed
    <2> QED BY <1>1, <1>2, <2>1, <2>3, <2>4, <2>5
  <1>4. CASE Restart
    <2>1. UNCHANGED <<invoice, payments, taken, mishaps>>
      BY <1>4 DEF Restart, money
    <2>2. \A q \in Requests : task'[q].pc = "idle"
      BY <1>4 DEF Restart, Idle
    <2>3. SettlersKnowPrice'
      BY <2>2 DEF SettlersKnowPrice, Settling, Paying
    <2>4. UnbookedAtPrice => UnbookedAtPrice'
      BY <2>1 DEF UnbookedAtPrice, Unbooked
    <2>5. PaidBacked => PaidBacked'
      BY <2>1, <2>2 DEF PaidBacked, Backed
    <2> QED BY <1>1, <1>2, <2>1, <2>3, <2>4, <2>5
  <1>5. ASSUME NEW r \in Requests, Step(r), Arrives(r), Effects(r), "repriced" \notin mishaps'
        PROVE  SettlersKnowPrice' /\ UnbookedAtPrice' /\ PaidBacked'
    <2>1. SettlersKnowPrice /\ UnbookedAtPrice /\ PaidBacked
      BY <1>1, <1>5 DEF Effects
    <2> QED BY <1>5, <2>1, StepSettlers, StepUnbooked, StepPaid
  <1> QED BY <1>2, <1>3, <1>4, <1>5, NextKinds

-----------------------------------------------------------------------------
(* Money that was taken is booked *)

\* The excuses only accumulate.
LEMMA WithoutBefore ==
  ASSUME TypeOK, NEW r \in Requests, Effects(r), NEW excuses, faults' = 0, excuses \cap mishaps' = {}
  PROVE  faults' = faults /\ Without(excuses) /\ ~TossAnswerLost(r)
  <1>1. faults \in Nat
    BY DEF TypeOK
  <1>2. ~TossAnswerLost(r)
    BY <1>1 DEF TossAnswerLost
  <1> QED BY <1>2 DEF Effects, Without

\* Who was approved, if he does not book the payment now, still is.
LEMMA ApprovedStays ==
  ASSUME NEW r \in Requests, Step(r), Arrives(r), NEW q \in Requests, task[q].pc = "approved"
  PROVE  task'[q] = task[q] \/ (q = r /\ Approved(r))
  BY OnlyApproved DEF Arrives, Alone

LEMMA NextTakenIsHeld ==
  ASSUME TypeOK, OrdersExist, TakenIsHeld, [Next]_vars
  PROVE  TakenIsHeld'
  <1>1. CASE Ambient
    BY <1>1 DEF Ambient, Quiet, TakenIsHeld, Without
  <1>2. CASE Restart
    <2>1. faults' # 0
      BY <1>2 DEF Restart, TypeOK
    <2> QED BY <2>1 DEF TakenIsHeld, Without
  <1>3. ASSUME NEW r \in Requests, Step(r), Arrives(r), Effects(r),
               faults' = 0, {"reissued"} \cap mishaps' = {}, taken' # {}
        PROVE  invoice'.status = "PAID" \/ \E q \in Requests : task'[q].pc = "approved"
    <2>1. Without({"reissued"}) /\ ~TossAnswerLost(r)
      BY <1>3, WithoutBefore
    <2>2. CASE TossApproves(r)
      BY <2>2, Moved DEF TossApproves
    <2>3. CASE invoice.status = "PAID"
      BY <1>3, <2>3, PaidStays
    <2>4. CASE \E q \in Requests : task[q].pc = "approved"
      BY <1>3, <2>4, ApprovedStays, BookedInvoice
    <2>5. CASE taken' = taken
      BY <1>3, <2>1, <2>3, <2>4, <2>5 DEF TakenIsHeld
    <2> QED BY <1>3, <2>1, <2>2, <2>5 DEF Effects, Quiet, Writes
  <1> QED BY <1>1, <1>2, <1>3, NextKinds DEF TakenIsHeld, Without

\* Without the excuse: who holds what nobody has booked, and who has no part in it.
UnbookedHeld == \A o \in Unbooked : \E q \in Requests : task[q].pc = "approved" /\ o \in task[q].orders
OthersHoldNone ==
  \A q \in Requests :
    task[q].pc \in {"assertPaid", "toss", "refused"} => task[q].orders \cap taken = {}

LEMMA StepHeld ==
  ASSUME TypeOK, OrdersExist, OrdersLeft, UnbookedHeld, OthersHoldNone,
         NEW r \in Requests, Step(r), Arrives(r), Effects(r), ~TossAnswerLost(r)
  PROVE  UnbookedHeld'
  <1> SUFFICES ASSUME NEW o \in Unbooked'
               PROVE  \E q \in Requests : task'[q].pc = "approved" /\ o \in task'[q].orders
    BY DEF UnbookedHeld
  <1>1. CASE o \in Unbooked
    <2>1. PICK q \in Requests : task[q].pc = "approved" /\ o \in task[q].orders
      BY <1>1 DEF UnbookedHeld
    <2>2. ASSUME q = r, Approved(r) PROVE FALSE
      <3>1. PICK p \in Orders : /\ task[r].orders = {p}
                                /\ payments' = [payments EXCEPT ![p].status = "SUCCESS"]
        BY <2>2, BookedInvoice
      <3>2. payments'[o].status = "SUCCESS"
        BY <2>1, <2>2, <3>1 DEF TypeOK
      <3> QED BY <3>2 DEF Unbooked
    <2> QED BY <2>1, <2>2, ApprovedStays
  <1>2. CASE o \notin taken
    <2>1. TossApproves(r)
      BY <1>2 DEF Unbooked, Effects, Quiet, Writes
    <2>2. task'[r].pc = "approved" /\ task'[r].orders = task[r].orders /\ o \in task[r].orders
      BY <1>2, <2>1, Moved DEF TossApproves, Unbooked
    <2> QED BY <2>2
  <1>3. CASE o \in taken /\ payments[o].status = "SUCCESS"
    <2>1. o \in Orders /\ payments'[o].status # "SUCCESS"
      BY <1>3 DEF Unbooked, TypeOK
    <2>2. ~Create(r)
      BY <1>3, <2>1, CreateWrites
    <2>3. ~Approved(r) /\ ~HookTx(r)
      <3>1. ASSUME Approved(r) \/ HookTx(r) PROVE FALSE
        <4>1. PICK p \in Orders : payments' = [payments EXCEPT ![p].status = "SUCCESS"]
          BY <3>1, BookedInvoice
        <4> QED BY <1>3, <2>1, <4>1 DEF TypeOK
      <3> QED BY <3>1
    <2>4. Refused(r)
      BY <1>3, <2>1, <2>2, <2>3 DEF Effects, Quiet, Cancels, Writes
    <2>5. o \in task[r].orders /\ task[r].pc = "refused"
      BY <1>3, <2>1, <2>4 DEF Refused, At
    <2> QED BY <1>3, <2>5 DEF OthersHoldNone
  <1> QED BY <1>1, <1>2, <1>3 DEF Unbooked

LEMMA StepHoldNone ==
  ASSUME TypeOK, OrdersExist, OnePayer, UnbookedHeld, OthersHoldNone, "rivals" \notin mishaps',
         NEW r \in Requests, Step(r), Arrives(r), Effects(r), ~TossAnswerLost(r)
  PROVE  OthersHoldNone'
  <1> SUFFICES ASSUME NEW q \in Requests, task'[q].pc \in {"assertPaid", "toss", "refused"}
               PROVE  task'[q].orders \cap taken' = {}
    BY DEF OthersHoldNone
  <1>1. taken' = taken \/ TossApproves(r)
    BY DEF Effects, Quiet, Writes
  <1>2. CASE q # r
    <2>1. task'[q] = task[q]
      BY <1>2 DEF Arrives, Alone
    <2>2. ASSUME TossApproves(r) PROVE FALSE
      <3>1. task[r].pc \in Paying /\ task[q].pc \in Paying
        BY <2>1, <2>2 DEF TossApproves, At, Paying
      <3> QED BY <1>2, <3>1 DEF OnePayer, Effects
    <2> QED BY <1>1, <2>1, <2>2 DEF OthersHoldNone
  <1>3. CASE q = r /\ task'[r].pc = "assertPaid"
    <2>1. PICK o \in Orders : TakesUp(r, o) /\ payments[o].status = "PENDING"
      BY <1>3 DEF Arrives, Confirms
    <2>2. \A x \in Requests : task[x].pc # "approved"
      BY <1>3, <2>1, PayersFacts DEF TakesUp, At, Paying
    <2>3. o \notin taken
      BY <2>1, <2>2 DEF UnbookedHeld, Unbooked
    <2>4. taken' = taken /\ task'[r].orders = {o}
      BY <2>1 DEF TakesUp, money
    <2> QED BY <1>3, <2>3, <2>4
  <1>4. CASE q = r /\ task'[r].pc \in {"toss", "refused"}
    <2>1. AssertPaid(r) \/ TossRefuses(r)
      BY <1>4 DEF Arrives
    <2>2. task'[r].orders = task[r].orders
      BY <1>4 DEF Arrives
    <2>3. taken' = taken /\ task[r].pc \in {"assertPaid", "toss"}
      BY <2>1 DEF AssertPaid, TossRefuses, At, money
    <2> QED BY <1>4, <2>2, <2>3 DEF OthersHoldNone
  <1> QED BY <1>2, <1>3, <1>4

LEMMA NextUnbookedIsHeld ==
  ASSUME TypeOK, OrdersExist, OrdersLeft, OnePayer, UnbookedIsHeld, [Next]_vars
  PROVE  UnbookedIsHeld'
  <1>1. UnbookedIsHeld <=> (faults = 0 /\ {"rivals"} \cap mishaps = {} =>
                              UnbookedHeld /\ OthersHoldNone)
    BY DEF UnbookedIsHeld, Without, UnbookedHeld, OthersHoldNone
  <1>2. UnbookedIsHeld' <=> (faults' = 0 /\ {"rivals"} \cap mishaps' = {} =>
                               UnbookedHeld' /\ OthersHoldNone')
    BY DEF UnbookedIsHeld, Without, UnbookedHeld, OthersHoldNone
  <1>3. CASE Ambient
    <2>1. /\ UNCHANGED <<task, taken, faults>> /\ mishaps \subseteq mishaps'
          /\ \A o \in Orders : payments'[o].status = "SUCCESS" <=> payments[o].status = "SUCCESS"
      BY <1>3 DEF Ambient, Quiet, Cancels
    <2>2. Unbooked' = Unbooked
      BY <2>1 DEF Unbooked, TypeOK
    <2> QED BY <1>1, <1>2, <2>1, <2>2 DEF UnbookedHeld, OthersHoldNone
  <1>4. CASE Restart
    <2>1. faults' # 0
      BY <1>4 DEF Restart, TypeOK
    <2> QED BY <1>2, <2>1
  <1>5. ASSUME NEW r \in Requests, Step(r), Arrives(r), Effects(r),
               faults' = 0, {"rivals"} \cap mishaps' = {}
        PROVE  UnbookedHeld' /\ OthersHoldNone'
    <2>1. faults = 0 /\ {"rivals"} \cap mishaps = {} /\ ~TossAnswerLost(r)
      BY <1>5, WithoutBefore DEF Without
    <2> QED BY <1>1, <1>5, <2>1, StepHeld, StepHoldNone
  <1> QED BY <1>2, <1>3, <1>4, <1>5, NextKinds

-----------------------------------------------------------------------------
(* The coupon and its discount go together *)

\* Link, BillLink and Complete are the only steps of a request at their awaits.
LEMMA OnlyLinks ==
  ASSUME NEW r, Step(r)
  PROVE  /\ task[r].pc = "complete" => Complete(r)
         /\ task[r].pc = "link" => Link(r)
         /\ task[r].pc = "billLink" => BillLink(r)
  <1> SUFFICES ASSUME task[r].pc \in {"complete", "link", "billLink"}
               PROVE  \/ Complete(r) /\ task[r].pc = "complete"
                      \/ Link(r) /\ task[r].pc = "link"
                      \/ BillLink(r) /\ task[r].pc = "billLink"
    OBVIOUS
  <1>1. CouponStep(r) => Complete(r) /\ task[r].pc = "complete"
    BY DEF At, CouponStep, Reserve, ReserveTx, Release, Complete
  <1>2. FinalizeStep(r) => Link(r) /\ task[r].pc = "link"
    BY DEF At, FinalizeStep, Finalize, FinalizeRead, Freeze, Unfreeze, Price, SumPaid, Store,
       Link
  <1>3. ExitStep(r) => BillLink(r) /\ task[r].pc = "billLink"
    BY DEF At, ExitStep, ManualExit, Close, KeepPaid, BillRead, BillPrice, Upsert, BillLink
  <1>4. ~PrepareStep(r)
    BY DEF At, PrepareStep, Prepare, AssertPrepared, CancelAll, CancelStale, Create
  <1>5. ~ConfirmStep(r) /\ ~OtherStep(r)
    BY DEF At, ConfirmStep, Confirm, AssertPaid, TossApproves, TossRefuses, TossAnswerLost,
       Refused, Approved, OtherStep, Webhook, HookTx, GiveUp, Abandon
  <1> QED BY <1>1, <1>2, <1>3, <1>4, <1>5 DEF Step

\* How the coupon may move while another request goes by what it was told.
LEMMA AnsweredHolds ==
  ASSUME NEW r \in Requests, Effects(r), "couponMoved" \notin mishaps',
         NEW q \in Requests \ {r}, task[q].pc \in Answered
  PROVE  coupon' = coupon \/ (coupon = "RESERVED" /\ coupon' = "USED")
  <1>1. Others(r, Answered) # {}
    BY DEF Others
  <1> QED BY <1>1 DEF Effects, CouponEffect

LEMMA StepTold ==
  ASSUME TypeOK, ToldOfCoupon, "couponMoved" \notin mishaps',
         NEW r \in Requests, Step(r), Arrives(r), Effects(r)
  PROVE  ToldOfCoupon'
  <1> SUFFICES ASSUME NEW q \in Requests
               PROVE  /\ task'[q].pc \in {"toss", "approved"} /\ task'[q].seen.coupon
                           => coupon' \in {"RESERVED", "USED"}
                      /\ task'[q].pc \in Priced =>
                           IF task'[q].coupon THEN coupon' \in {"RESERVED", "USED"}
                                              ELSE coupon' # "RESERVED"
    BY DEF ToldOfCoupon
  <1>1. CASE q # r
    <2>1. task'[q] = task[q]
      BY <1>1 DEF Arrives, Alone
    <2>2. task[q].pc \in Answered =>
            coupon' = coupon \/ (coupon = "RESERVED" /\ coupon' = "USED")
      BY <1>1, AnsweredHolds
    <2> QED BY <2>1, <2>2 DEF ToldOfCoupon, Answered, Priced
  <1>2. CASE q = r /\ task'[r].pc = "toss"
    <2>1. AssertPaid(r) /\ CouponHolds(task[r].seen) /\ task'[r].seen = task[r].seen
      BY <1>2 DEF Arrives
    <2>2. task[r].seen.coupon => coupon = "RESERVED" /\ coupon' = coupon
      BY <2>1 DEF AssertPaid, CouponHolds, AskForCoupon, CleanUp
    <2> QED BY <1>2, <2>1, <2>2 DEF Priced
  <1>3. CASE q = r /\ task'[r].pc = "approved"
    <2>1. TossApproves(r) /\ task'[r].seen = task[r].seen
      BY <1>3 DEF Arrives
    <2>2. coupon' = coupon /\ task[r].pc = "toss"
      BY <2>1 DEF TossApproves, At
    <2> QED BY <1>3, <2>1, <2>2 DEF ToldOfCoupon, Priced
  <1>4. CASE q = r /\ task'[r].pc \in {"sum", "upsert"}
    <2>1. /\ task'[r].coupon = (coupon = "RESERVED")
          /\ coupon = "RESERVED" => coupon' = coupon
      BY <1>4 DEF Arrives
    <2>2. ~ReserveTx(r)
      BY <1>4, Moved DEF ReserveTx
    <2>3. coupon # "RESERVED" => coupon' # "RESERVED"
      BY <2>2 DEF Effects, CouponEffect
    <2> QED BY <1>4, <2>1, <2>3
  <1>5. CASE q = r /\ task'[r].pc \in {"store", "link", "billLink"}
    <2>1. (SumPaid(r) \/ Store(r) \/ Upsert(r)) /\ task'[r].coupon = task[r].coupon
      BY <1>5 DEF Arrives
    <2>2. coupon' = coupon /\ task[r].pc \in Priced
      BY <2>1 DEF SumPaid, Store, Upsert, At, Priced
    <2> QED BY <1>5, <2>1, <2>2 DEF ToldOfCoupon
  <1> QED BY <1>1, <1>2, <1>3, <1>4, <1>5 DEF Priced

\* Who settles the invoice has one to settle.
LEMMA SettledExists ==
  ASSUME OrdersExist, InvoiceFirst, NEW r \in Requests, task[r].pc \in Settling
  PROVE  invoice.status # "none"
  BY DEF OrdersExist, InvoiceFirst

LEMMA StepNoCoupon ==
  ASSUME TypeOK, InvoicesSound, OrdersExist, InvoiceFirst, ToldOfCoupon, NoCouponLater,
         UsedWhenPaid, {"couponMoved", "reissued"} \cap mishaps' = {},
         NEW r \in Requests, Step(r), Arrives(r), Effects(r)
  PROVE  NoCouponLater'
  <1>1. ASSUME Writes(r)
        PROVE  /\ coupon' = coupon /\ invoice'.coupon = task[r].coupon
               /\ IF task[r].coupon THEN coupon \in {"RESERVED", "USED"}
                                    ELSE coupon \notin {"RESERVED", "USED"}
    <2>1. task[r].pc \in Priced /\ coupon' = coupon /\ invoice'.coupon = task[r].coupon
      BY <1>1, WrittenInvoice DEF Writes, At, Priced
    <2>2. invoice.status # "PAID"
      BY <1>1 DEF Writes, WriteInvoice
    <2> QED BY <2>1, <2>2 DEF ToldOfCoupon, UsedWhenPaid
  <1>2. ASSUME Approved(r) \/ HookTx(r)
        PROVE  /\ coupon' = coupon /\ invoice.status # "none"
               /\ \/ invoice'.coupon = invoice.coupon
                  \/ /\ Approved(r) /\ task[r].pc = "approved"
                     /\ invoice'.coupon = task[r].seen.coupon
    <2>1. task[r].pc \in Settling /\ (Approved(r) => task[r].pc = "approved")
      BY <1>2 DEF Approved, HookTx, At, Settling, Paying
    <2> QED BY <1>2, <2>1, BookedInvoice, SettledExists DEF Effects
  <1>3. ASSUME invoice'.status # "none", ~invoice'.coupon
        PROVE  coupon' \notin {"RESERVED", "USED"}
    <2>1. CASE invoice' = invoice
      <3>1. coupon \notin {"RESERVED", "USED"}
        BY <1>3, <2>1 DEF NoCouponLater
      <3> QED BY <1>3, <2>1, <3>1 DEF Effects, CouponEffect
    <2>2. CASE Writes(r)
      BY <1>1, <1>3, <2>2
    <2>3. CASE Approved(r) \/ HookTx(r)
      BY <1>2, <1>3, <2>3 DEF NoCouponLater
    <2> QED BY <2>1, <2>2, <2>3 DEF Effects, Quiet
  <1>4. ASSUME NEW q \in Requests, task'[q].pc \in {"assertPaid", "toss", "approved"},
               ~task'[q].seen.coupon
        PROVE  ~invoice'.coupon
    <2>1. CASE q # r
      <3>1. task'[q] = task[q] /\ task[q].pc \in Settling
        BY <1>4, <2>1 DEF Arrives, Alone, Settling, Paying
      <3>2. ~invoice.coupon /\ invoice.status # "none"
        BY <1>4, <3>1, SettledExists DEF NoCouponLater
      <3>3. coupon \notin {"RESERVED", "USED"}
        BY <3>2 DEF NoCouponLater
      <3>4. CASE invoice' = invoice
        BY <3>2, <3>4
      <3>5. CASE Writes(r)
        BY <1>1, <3>3, <3>5
      <3>6. CASE Approved(r) \/ HookTx(r)
        BY <1>2, <3>2, <3>3, <3>6 DEF ToldOfCoupon
      <3> QED BY <3>4, <3>5, <3>6 DEF Effects, Quiet
    <2>2. CASE q = r /\ task'[r].pc = "assertPaid"
      <3>1. task'[r].seen = invoice /\ invoice' = invoice
        BY <2>2 DEF Arrives, Confirms, TakesUp, money
      <3> QED BY <1>4, <2>2, <3>1
    <2>3. CASE q = r /\ task'[r].pc \in {"toss", "approved"}
      <3>1. (AssertPaid(r) \/ TossApproves(r)) /\ task'[r].seen = task[r].seen
        BY <2>3 DEF Arrives
      <3>2. invoice' = invoice /\ task[r].pc \in {"assertPaid", "toss"}
        BY <3>1 DEF AssertPaid, TossApproves, At
      <3> QED BY <1>4, <2>3, <3>1, <3>2 DEF NoCouponLater
    <2> QED BY <1>4, <2>1, <2>2, <2>3
  <1> QED BY <1>3, <1>4 DEF NoCouponLater

\* Who has stored, or billed, at the discount, no more than was paid, has issued a PAID invoice.
LEMMA IssuesPaid ==
  ASSUME TypeOK, InvoicesSound, NEW r \in Requests, Arrives(r), Effects(r),
         task'[r].pc \in {"link", "billLink"}, Completing(r)'
  PROVE  invoice'.status = "PAID"
  <1>0. task[r] \in Tasks
    BY DEF TypeOK
  <1>1. CASE task'[r].pc = "link"
    <2>1. Store(r) /\ task'[r].price = task[r].price /\ task'[r].paid = task[r].paid
      BY <1>1 DEF Arrives
    <2>2. task[r].price <= task[r].paid /\ task[r].pc = "store"
      BY <1>1, <2>1 DEF Completing, At, Store
    <2>3. task[r].price \in Nat /\ task[r].paid \in Nat
      BY <1>0 DEF Tasks, Amounts
    <2>4. ~(task[r].price > task[r].paid)
      BY <2>2, <2>3
    <2>5. task'[r].pc # "idle"
      BY <1>1
    <2>6. WriteInvoice(r, Issue(task[r].price, task[r].paid, task[r].coupon))
      <3>1. ~End(r)
        BY <2>5, MoveFacts, <1>1
      <3> QED BY <2>1, <2>4, <3>1 DEF Store
    <2>7. invoice' = Issue(task[r].price, task[r].paid, task[r].coupon)
      BY <2>6 DEF WriteInvoice
    <2> QED BY <1>0, <2>2, <2>7, IssueFacts DEF Tasks
  <1>2. CASE task'[r].pc = "billLink"
    <2>1. Upsert(r) /\ task'[r].price = task[r].price /\ task'[r].seen = task[r].seen
      BY <1>2 DEF Arrives
    <2>2. task[r].price <= task[r].seen.paid
      BY <1>2, <2>1 DEF Completing, At
    <2>3. invoice' = Issue(task[r].price, task[r].seen.paid, task[r].coupon)
      BY <2>1 DEF Upsert, WriteInvoice
    <2>4. task[r].price \in Amounts /\ task[r].seen.paid \in Amounts
      BY <1>0 DEF Tasks, Invoices
    <2> QED BY <2>2, <2>3, <2>4, IssueFacts
  <1> QED BY <1>1, <1>2

\* Who is about to use the coupon up still is, or has used it.
LEMMA CompletingStays ==
  ASSUME TypeOK, NEW r \in Requests, Step(r), Arrives(r), Effects(r),
         "couponMoved" \notin mishaps', coupon = "RESERVED",
         NEW q \in Requests, Completing(q)
  PROVE  coupon' = "USED" \/ (coupon' = "RESERVED" /\ \E p \in Requests : Completing(p)')
  <1>1. task[q].pc \in Answered
    BY DEF Completing, At, Answered
  <1>2. CASE q # r
    <2>1. task'[q] = task[q]
      BY <1>2 DEF Arrives, Alone
    <2>2. Completing(q)'
      BY <2>1 DEF Completing, At
    <2>3. coupon' = coupon \/ (coupon = "RESERVED" /\ coupon' = "USED")
      BY <1>1, <1>2, AnsweredHolds
    <2> QED BY <2>2, <2>3
  <1>3. CASE q = r /\ task[r].pc = "complete"
    BY <1>3, OnlyLinks DEF Complete
  <1>4. CASE q = r /\ task[r].pc \in {"link", "billLink"}
    <2>1. /\ Link(r) \/ BillLink(r)
          /\ task[r].pc = "link" => Link(r)
          /\ task[r].pc = "billLink" => BillLink(r)
      BY <1>4, OnlyLinks
    <2>2. coupon' = coupon /\ Last(r, "complete")
      BY <1>4, <2>1 DEF Completing, At, Link, BillLink
    <2>3. Completing(r)'
      BY <2>2, Moved DEF Completing, At
    <2> QED BY <2>2, <2>3
  <1> QED BY <1>2, <1>3, <1>4 DEF Completing, At

LEMMA StepUsed ==
  ASSUME TypeOK, InvoicesSound, OrdersExist, InvoiceFirst, OrdersLeft, BookersHoldTaken,
         TakenIsHeld, ToldOfCoupon, NoCouponLater, UsedWhenPaid,
         faults = 0, {"couponMoved", "reissued"} \cap mishaps' = {},
         NEW r \in Requests, Step(r), Arrives(r), Effects(r)
  PROVE  UsedWhenPaid'
  <1>p. invoice.status = "PAID" => invoice'.status = "PAID"
    BY PaidStays
  <1>1. ASSUME NEW o \in Orders, payments'[o].status = "SUCCESS"
        PROVE  invoice'.status = "PAID"
    <2>1. CASE Approved(r) \/ HookTx(r)
      BY <2>1, BookedInvoice
    <2>2. CASE ~Approved(r) /\ ~HookTx(r)
      <3>1. payments[o].status = "SUCCESS"
        <4>1. CASE Create(r)
          BY <1>1, <4>1, CreateWrites
        <4>2. CASE Refused(r)
          <5>1. [payments[o] EXCEPT !.status = "FAILED"].status = "FAILED"
            BY DEF TypeOK
          <5> QED BY <1>1, <4>2, <5>1 DEF Refused
        <4> QED BY <1>1, <2>2, <4>1, <4>2 DEF Effects, Quiet, Cancels, Writes
      <3> QED BY <1>p, <3>1 DEF UsedWhenPaid
    <2> QED BY <2>1, <2>2
  <1>2. ASSUME NEW q \in Requests, Completing(q)'
        PROVE  invoice'.status = "PAID"
    <2>1. CASE q # r
      <3>1. task'[q] = task[q]
        BY <2>1 DEF Arrives, Alone
      <3>2. Completing(q)
        BY <1>2, <3>1 DEF Completing, At
      <3> QED BY <1>p, <3>2 DEF UsedWhenPaid
    <2>2. CASE q = r /\ task'[r].pc \in {"link", "billLink"}
      BY <1>2, <2>2, IssuesPaid
    <2>3. CASE q = r /\ task'[r].pc = "complete"
      <3>1. Completes(r)
        BY <2>3 DEF Arrives
      <3>2. CASE Approved(r) \/ HookTx(r)
        BY <3>2, BookedInvoice
      <3>3. CASE Completing(r) \/ \E o \in Orders : payments[o].status = "SUCCESS"
        BY <1>p, <3>3 DEF UsedWhenPaid
      <3> QED BY <3>1, <3>2, <3>3 DEF Completes
    <2> QED BY <1>2, <2>1, <2>2, <2>3 DEF Completing, At
  <1>3. ASSUME coupon' = "USED"
        PROVE  invoice'.status = "PAID"
    <2>1. coupon = "USED" \/ At(r, "complete")
      BY <1>3 DEF Effects, CouponEffect
    <2>2. coupon = "USED" \/ Completing(r)
      BY <2>1 DEF Completing
    <2> QED BY <1>p, <2>2 DEF UsedWhenPaid
  <1>4. ASSUME invoice'.status = "PAID", invoice'.coupon
        PROVE  \/ coupon' = "USED"
               \/ coupon' = "RESERVED" /\ (\E q \in Requests : Completing(q)')
    <2>1. ASSUME coupon \in {"RESERVED", "USED"}, coupon' = coupon, Completing(r)'
          PROVE  \/ coupon' = "USED"
                 \/ coupon' = "RESERVED" /\ (\E q \in Requests : Completing(q)')
      BY <2>1
    <2>2. CASE invoice' = invoice
      <3>1. \/ coupon = "USED"
            \/ coupon = "RESERVED" /\ (\E q \in Requests : Completing(q))
        BY <1>4, <2>2 DEF UsedWhenPaid
      <3>2. coupon = "USED" => coupon' = "USED"
        BY DEF Effects, CouponEffect, Reserved
      <3> QED BY <3>1, <3>2, CompletingStays
    <2>3. CASE Writes(r)
      <3>1. coupon' = coupon /\ task[r].coupon /\ task[r].pc \in Priced
        BY <1>4, <2>3, WrittenInvoice DEF Writes, At, Priced
      <3>2. coupon \in {"RESERVED", "USED"}
        BY <3>1 DEF ToldOfCoupon
      <3>3. invoice'.amount <= invoice'.paid /\ invoice'.amount = task[r].price
        BY <1>4, <2>3, WrittenInvoice
      <3>4. CASE At(r, "store") /\ Goto(r, "link")
        <4>1. invoice'.paid = task[r].paid
          BY <2>3, <3>4 DEF Writes, WriteInvoice, Issue, At
        <4>2. /\ task'[r].pc = "link" /\ task'[r].coupon
              /\ task'[r].price <= task'[r].paid
          BY <3>1, <3>3, <3>4, <4>1, Moved
        <4> QED BY <2>1, <3>1, <3>2, <4>2 DEF Completing, At
      <3>5. CASE At(r, "upsert") /\ Goto(r, "billLink")
        <4>1. invoice'.paid = task[r].seen.paid
          BY <2>3, <3>5 DEF Writes, WriteInvoice, Issue, At
        <4>2. /\ task'[r].pc = "billLink" /\ task'[r].coupon
              /\ task'[r].price <= task'[r].seen.paid
          BY <3>1, <3>3, <3>5, <4>1, Moved
        <4> QED BY <2>1, <3>1, <3>2, <4>2 DEF Completing, At
      <3> QED BY <2>3, <3>4, <3>5 DEF Writes
    <2>4. CASE Approved(r) \/ HookTx(r)
      <3>1. coupon' = coupon /\ Completing(r)'
        <4>1. Last(r, "complete")
          BY <2>4 DEF Approved, HookTx
        <4> QED BY <2>4, <4>1, Moved DEF Effects, Completing, At
      <3>2. CASE Approved(r)
        <4>1. task[r].pc = "approved" /\ task[r].seen.coupon
          BY <1>4, <3>2, BookedInvoice DEF Approved, At
        <4> QED BY <2>1, <3>1, <4>1 DEF ToldOfCoupon
      <3>3. CASE ~Approved(r) /\ HookTx(r)
        <4>1. invoice.coupon
          BY <1>4, <3>3, BookedInvoice
        <4>2. CASE invoice.status = "PAID"
          BY <2>1, <3>1, <4>1, <4>2 DEF UsedWhenPaid
        <4>3. CASE invoice.status # "PAID"
          <5>1. taken # {}
            BY <3>3 DEF HookTx, At, BookersHoldTaken
          <5>2. Without({"reissued"})
            BY DEF Without, Effects
          <5>3. PICK q \in Requests : task[q].pc = "approved"
            BY <4>3, <5>1, <5>2 DEF TakenIsHeld
          <5>4. task[q].seen.coupon
            BY <4>1, <5>3 DEF NoCouponLater
          <5> QED BY <2>1, <3>1, <5>3, <5>4 DEF ToldOfCoupon
        <4> QED BY <4>2, <4>3
      <3> QED BY <2>4, <3>2, <3>3
    <2> QED BY <2>2, <2>3, <2>4 DEF Effects, Quiet
  <1> QED BY <1>1, <1>2, <1>3, <1>4 DEF UsedWhenPaid

LEMMA AmbientCoupon ==
  ASSUME TypeOK, Ambient, "couponMoved" \notin mishaps',
         ToldOfCoupon, NoCouponLater, UsedWhenPaid
  PROVE  ToldOfCoupon' /\ NoCouponLater' /\ UsedWhenPaid'
  <1>1. UNCHANGED <<task, invoice>>
    BY DEF Ambient, Quiet
  <1>2. \A q \in Requests : Completing(q)' <=> Completing(q)
    BY <1>1 DEF Completing, At
  <1>3. \A o \in Orders : payments'[o].status = "SUCCESS" => payments[o].status = "SUCCESS"
    BY DEF Ambient, Quiet, Cancels
  <1>4. CASE coupon' = coupon
    BY <1>1, <1>2, <1>3, <1>4 DEF ToldOfCoupon, NoCouponLater, UsedWhenPaid
  <1>5. CASE coupon # "USED" /\ coupon' \in {"ASSIGNED", "LAPSED"}
    <2>1. CASE \E q \in Requests : task[q].pc \in Answered
      BY <1>4, <2>1 DEF Ambient
    <2>2. CASE \A q \in Requests : task[q].pc \notin Answered
      <3>1. ToldOfCoupon'
        BY <1>1, <2>2 DEF ToldOfCoupon, Answered, Priced
      <3>2. NoCouponLater'
        BY <1>1, <1>5 DEF NoCouponLater
      <3>3. \A q \in Requests : ~Completing(q)
        BY <2>2 DEF Completing, At, Answered
      <3>4. UsedWhenPaid'
        BY <1>1, <1>2, <1>3, <1>5, <3>3 DEF UsedWhenPaid
      <3> QED BY <3>1, <3>2, <3>4
    <2> QED BY <2>1, <2>2
  <1> QED BY <1>4, <1>5 DEF Ambient

LEMMA NextCouponInv ==
  ASSUME TypeOK, InvoicesSound, OrdersExist, InvoiceFirst, OrdersLeft, BookersHoldTaken,
         TakenIsHeld, CouponInv, [Next]_vars
  PROVE  CouponInv'
  <1> DEFINE Coupons == ToldOfCoupon /\ NoCouponLater /\ UsedWhenPaid
  <1>1. CouponInv <=> (faults = 0 /\ {"couponMoved", "reissued"} \cap mishaps = {} => Coupons)
    BY DEF CouponInv, Without
  <1>2. CouponInv' <=> (faults' = 0 /\ {"couponMoved", "reissued"} \cap mishaps' = {} => Coupons')
    BY DEF CouponInv, Without
  <1>3. CASE Ambient
    <2>1. faults' = faults /\ mishaps \subseteq mishaps'
      BY <1>3 DEF Ambient
    <2> QED BY <1>1, <1>2, <1>3, <2>1, AmbientCoupon
  <1>4. CASE Restart
    <2>1. faults' # 0
      BY <1>4 DEF Restart, TypeOK
    <2> QED BY <1>2, <2>1
  <1>5. ASSUME NEW r \in Requests, Step(r), Arrives(r), Effects(r),
               faults' = 0, {"couponMoved", "reissued"} \cap mishaps' = {}
        PROVE  Coupons'
    <2>1. faults = 0 /\ Without({"couponMoved", "reissued"})
      BY <1>5, WithoutBefore
    <2>2. Coupons
      BY <1>1, <2>1 DEF Without
    <2>3. ToldOfCoupon'
      BY <1>5, <2>2, StepTold
    <2>4. NoCouponLater'
      BY <1>5, <2>2, StepNoCoupon
    <2>5. UsedWhenPaid'
      BY <1>5, <2>1, <2>2, StepUsed
    <2> QED BY <2>3, <2>4, <2>5
  <1> QED BY <1>2, <1>3, <1>4, <1>5, NextKinds

-----------------------------------------------------------------------------
LEMMA InitChargeInv == Init => ChargeInv
  <1> SUFFICES ASSUME Init PROVE ChargeInv
    OBVIOUS
  <1> USE DEF Init
  <1>1. InvoicesSound
    BY DEF InvoicesSound, Sound, NoInvoice, Idle
  <1>2. OrdersExist /\ InvoiceFirst /\ OnePayer
    BY DEF OrdersExist, InvoiceFirst, OnePayer, Idle, Preparing, Settling, Paying
  <1>3. OrdersLeft
    <2>1. Preparers = {}
      BY DEF Preparers, Preparing, Idle
    <2> QED BY <2>1, Counts, FS_EmptySet DEF OrdersLeft, Preparers
  <1>4. ChargesCounted
    <2>1. Cardinality(taken) = 0 /\ faults = 0
      BY FS_EmptySet
    <2>2. \A r \in Requests : task[r].pc = "idle"
      BY DEF Idle
    <2> QED BY <2>1, <2>2 DEF ChargesCounted, OneCharge
  <1> QED BY <1>1, <1>2, <1>3, <1>4 DEF ChargeInv

LEMMA InitMoneyInv == Init => MoneyInv /\ CouponInv
  <1> SUFFICES ASSUME Init PROVE MoneyInv /\ CouponInv
    OBVIOUS
  <1>1. /\ \A r \in Requests : task[r].pc = "idle"
        /\ invoice.status = "none" /\ invoice.paid = 0
        /\ taken = {} /\ Unbooked = {} /\ coupon = "ASSIGNED"
        /\ \A o \in Orders : payments[o].status = "none"
    BY DEF Init, Idle, NoInvoice, Unbooked
  <1>2. MoneyInv
    BY <1>1 DEF MoneyInv, PricesKept, TakenIsHeld, UnbookedIsHeld, Settling, Paying, Backed
  <1>3. CouponInv
    BY <1>1 DEF CouponInv, ToldOfCoupon, NoCouponLater, UsedWhenPaid, Completing, At, Priced
  <1> QED BY <1>2, <1>3

LEMMA InitIInv == Init => IInv
  BY InitTypeOK, InitChargeInv, InitMoneyInv
     DEF Init, IInv, SuccessWasTaken, BookersHoldTaken, ClosedHasExit, ReadBeforeExit,
         Idle, Finalizing

LEMMA NextIInv == IInv /\ [Next]_vars => IInv'
  <1> SUFFICES ASSUME IInv, [Next]_vars PROVE IInv'
    OBVIOUS
  <1> USE DEF IInv
  <1>1. TypeOK'
    BY NextTypeOK
  <1>2. SuccessWasTaken' /\ BookersHoldTaken'
    BY NextMoney
  <1>3. ClosedHasExit' /\ ReadBeforeExit'
    BY NextExits DEF Exits
  <1>4. ChargeInv'
    BY <1>1, NextInvoicesSound, NextOrdersExist, NextInvoiceFirst, NextOrdersLeft, NextOnePayer,
       NextChargesCounted DEF ChargeInv
  <1>5. MoneyInv'
    BY <1>1, NextPricesKept, NextTakenIsHeld, NextUnbookedIsHeld DEF ChargeInv, MoneyInv
  <1>6. CouponInv'
    BY NextCouponInv DEF ChargeInv, MoneyInv
  <1> QED BY <1>1, <1>2, <1>3, <1>4, <1>5, <1>6

LEMMA SpecIInv == Spec => []IInv
  BY InitIInv, NextIInv, PTL DEF Spec

\* The checkout's tables and requests stay within their types.
THEOREM SpecTypeOK == Spec => []TypeOK
  BY SpecIInv, PTL DEF IInv

\* Whatever overlaps, is refused, lost or restarted, a payment is a SUCCESS only if Toss
\* has taken its money: the confirm's transaction and the webhook are its only writers.
THEOREM SpecSuccessWasTaken == Spec => []SuccessWasTaken
  BY SpecIInv, PTL DEF IInv

\* A session that manualExit has closed keeps its exit time, unless the app's
\* finalize-invoice was between its first read and its last write when it was closed.
THEOREM SpecClosedHasExit == Spec => []ClosedHasExit
  BY SpecIInv, PTL DEF IInv

\* Toss takes the member's money at most once, and once more for every lost answer or
\* restart, unless two confirms were at work together or a paid invoice was issued again:
\* the confirm's checks of the invoice see to that, whatever is cancelled or refused.
THEOREM SpecOneCharge == Spec => []OneCharge
  <1>1. IInv => OneCharge
    BY DEF IInv, ChargeInv, ChargesCounted, OneCharge
  <1> QED BY <1>1, SpecIInv, PTL

\* A PAID invoice is paid in full with an amount that Toss has taken, unless it was priced
\* anew while a confirm or a webhook was going to book the old amount.
THEOREM SpecPaidMatchesTaken == Spec => []PaidMatchesTaken
  <1>1. IInv => PaidMatchesTaken
    BY DEF IInv, MoneyInv, PricesKept, Backed, PaidMatchesTaken
  <1> QED BY <1>1, SpecIInv, PTL

\* Without faults, rivals and a paid invoice issued again, money that was taken is on a
\* payment and on the invoice once nothing is under way.
THEOREM SpecMoneyIsBooked == Spec => []MoneyIsBooked
  <1>1. IInv => MoneyIsBooked
    <2> SUFFICES ASSUME IInv, AtRest, Without({"rivals", "reissued"}), taken # {}
                 PROVE  invoice.status = "PAID" /\ Unbooked = {}
      BY DEF MoneyIsBooked
    <2>1. \A r \in Requests : task[r].pc # "approved"
      BY DEF AtRest, At
    <2>2. Without({"reissued"}) /\ Without({"rivals"})
      BY DEF Without
    <2>3. invoice.status = "PAID"
      BY <2>1, <2>2 DEF IInv, MoneyInv, TakenIsHeld
    <2>4. Unbooked = {}
      BY <2>1, <2>2 DEF IInv, MoneyInv, UnbookedIsHeld
    <2> QED BY <2>3, <2>4
  <1> QED BY <1>1, SpecIInv, PTL

\* An invoice paid at the discount has used the coupon up, and a coupon that is used up
\* has bought its discount, as long as the reservation neither begins nor ends while a
\* request goes by what it was told of it, and no paid invoice is issued again.
THEOREM SpecDiscountCostsCoupon == Spec => []DiscountCostsCoupon
  <1>1. IInv => DiscountCostsCoupon
    <2>1. AtRest => \A r \in Requests : ~Completing(r)
      BY DEF AtRest, At, Completing
    <2> QED BY <2>1 DEF IInv, CouponInv, UsedWhenPaid, DiscountCostsCoupon
  <1> QED BY <1>1, SpecIInv, PTL

\* The same excuses, and the other way round.
THEOREM SpecCouponBuysDiscount == Spec => []CouponBuysDiscount
  <1>1. IInv => CouponBuysDiscount
    BY DEF IInv, CouponInv, UsedWhenPaid, NoCouponLater, CouponBuysDiscount
  <1> QED BY <1>1, SpecIInv, PTL
=============================================================================
