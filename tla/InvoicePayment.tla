--------------------------- MODULE InvoicePayment ---------------------------
(***************************************************************************)
(* One issued invoice, its session and the ways the cloud records money    *)
(* for it: the public payment link, a member's payment in the app, a       *)
(* collector's manual payment, the two confirms that do not ask Toss, a    *)
(* payment the edge reports with an exit, refund and Toss's CANCELED       *)
(* notice.  Each reads invoice and session first and writes them later;    *)
(* the invoice is read and written in separate statements everywhere.      *)
(*                                                                         *)
(* Public checkouts with Toss and the coupon are in InvoiceCheckout, exits *)
(* of the session in SpaceSession and CloudSession.                        *)
(***************************************************************************)
EXTENDS Naturals, FiniteSets, FiniteSetsExt

CONSTANTS
  Requests,         \* requests of one run, each used once
  Kinds,            \* the kinds of request a run has
  Fee, FeeLater,    \* what the fee calculation returns, and returns later
  EdgePaid,         \* amount the edge says was paid there
  StartsExited,     \* whether the session may have left unpaid, or be parked and registered
  MaxActive,        \* how many requests overlap
  MaxStops,         \* bound on requests that stop half-way
  NoRequest

ASSUME FeeAssumption ==
  Fee \in Nat \ {0} /\ FeeLater \in Nat /\ Fee <= FeeLater /\ EdgePaid \in Nat
ASSUME KindsAssumption ==
  Kinds \subseteq {"link", "member", "desk", "confirm", "toss", "edge", "refund", "canceled"}
ASSUME RequestsAssumption == IsFiniteSet(Requests)
ASSUME BoundsAssumption ==
  MaxActive \in Nat /\ MaxStops \in Nat /\ StartsExited \subseteq BOOLEAN /\ NoRequest \notin Requests

VARIABLES
  invoice,          \* amount, paidAmount and unpaidAmount
  session,          \* status, metadata.paymentStatus, paidAmount and unpaidAmount
  fee,              \* what the fee is by now
  booked,           \* amount each request has recorded: APPROVED, SUCCESS or manual
  request,          \* what each request is at and what it has read
  stops,
  overlapped,       \* history: requests that ran beside another
  broken,           \* history: requests that stopped half-way
  beyond,           \* history: requests that took more than was unpaid
  short,            \* history: requests that settled the invoice for less
  undone            \* history: a payment was refunded or cancelled

tables  == <<invoice, session, booked>>
history == <<overlapped, broken, beyond, short, undone>>
vars    == <<invoice, session, fee, booked, request, stops, overlapped, broken, beyond,
             short, undone>>

Amounts  == Nat
Invoices == [amount : Amounts, paid : Amounts, unpaid : Amounts]
Sessions == [status : {"ACTIVE", "PAID", "CLOSED"},
             note   : {"none", "UNPAID", "PARTIALLY_PAID", "PAID"},
             paid   : Amounts, unpaid : Amounts]

\* Where a request stands: named for what it does next.
Steps == {"new", "ensureRead", "ensureWrite", "record", "applyRead", "applyWrite",
          "sessionRead", "sessionWrite", "desk", "tossRead", "confirm", "edgeRead",
          "edgeWrite", "refund", "done"}

Minus(a, b) == IF a > b THEN a - b ELSE 0
Least(a, b) == IF a < b THEN a ELSE b

Issued == [amount |-> Fee, paid |-> 0, unpaid |-> Fee]
Parked == [status |-> "ACTIVE", note |-> "none",   paid |-> 0, unpaid |-> Fee]
Left   == [status |-> "CLOSED", note |-> "UNPAID", paid |-> 0, unpaid |-> Fee]
Request0 == [kind |-> "none", pc |-> "new", inv |-> Issued, ses |-> Parked,
             amount |-> 0, of |-> NoRequest]

TypeOK ==
  /\ invoice \in Invoices
  /\ session \in Sessions
  /\ fee \in {Fee, FeeLater}
  /\ booked \in [Requests -> Amounts]
  /\ request \in [Requests -> [kind   : Kinds \cup {"none"},
                               pc     : Steps,
                               inv    : Invoices,
                               ses    : Sessions,
                               amount : Amounts,
                               of     : Requests \cup {NoRequest}]]
  /\ stops \in Nat
  /\ overlapped \in SUBSET Requests
  /\ broken \in SUBSET Requests
  /\ beyond \in SUBSET Requests
  /\ short \in SUBSET Requests
  /\ undone \in BOOLEAN

Init ==
  /\ invoice = Issued
  /\ \E exited \in StartsExited : session = IF exited THEN Left ELSE Parked
  /\ fee = Fee
  /\ booked = [r \in Requests |-> 0]
  /\ request = [r \in Requests |-> Request0]
  /\ stops = 0
  /\ overlapped = {}
  /\ broken = {}
  /\ beyond = {}
  /\ short = {}
  /\ undone = FALSE

---------------------------------------------------------------------------
\* A prepared payment waits for its member: nothing is at work.
Working == {r \in Requests : request[r].pc \notin {"new", "done", "tossRead"}}

Beside(r) == IF Working \ {r} = {} THEN overlapped ELSE overlapped \cup Working \cup {r}

\* A request of kind comes in, having read the invoice and the session.
Ask(r, kind, pc, amount, of) ==
  /\ kind \in Kinds
  /\ request[r].pc = "new"
  /\ Cardinality(Working) < MaxActive
  /\ request' = [request EXCEPT ![r] =
       [kind |-> kind, pc |-> pc, inv |-> invoice, ses |-> session,
        amount |-> amount, of |-> of]]
  /\ overlapped' = Beside(r)
  /\ UNCHANGED <<tables, fee, stops, broken, beyond, short, undone>>

At(r, kinds, pc) == request[r].kind \in kinds /\ request[r].pc = pc

Go(r, pc) == request' = [request EXCEPT ![r].pc = pc]

\* paymentStatus as the session's metadata gets it.
NoteOf(inv) == IF inv.unpaid = 0 THEN "PAID" ELSE IF inv.paid > 0 THEN "PARTIALLY_PAID"
                                                                  ELSE "UNPAID"

FeeGrows ==
  /\ fee' = FeeLater
  /\ fee # FeeLater
  /\ UNCHANGED <<tables, request, stops, history>>

---------------------------------------------------------------------------
(* The payment link (mockPayInvoice) and a member's payment                *)
(* (mockCompleteSessionPayment).                                           *)

AskLink(r) ==
  \E a \in 1 .. invoice.unpaid : Ask(r, "link", "record", a, NoRequest)

\* A parked car whose payment is still good, or one that has paid and left, is
\* answered at once; otherwise the invoice is priced anew first.  Whether the
\* exit grace of an earlier payment is over is a matter of time.
AskMember(r) ==
  /\ session.status = "ACTIVE" \/ session.note = "UNPAID"
  /\ Ask(r, "member", "ensureRead", 0, NoRequest)

\* ensureInvoiceForSession with forceRecalculate: the fee, then the invoice.
EnsureRead(r) ==
  /\ At(r, {"member", "edge"}, "ensureRead")
  /\ request' = [request EXCEPT ![r].pc = "ensureWrite", ![r].inv = invoice,
                                ![r].amount = fee]
  /\ UNCHANGED <<tables, fee, stops, history>>

\* Slip, for the mutation runs: what was paid is not carried over.
RepricedUnpaid(inv, f) == [amount |-> f, paid |-> 0, unpaid |-> f]

Repriced(inv, f) == [amount |-> f, paid |-> inv.paid, unpaid |-> Minus(f, inv.paid)]

\* resolveMockPaymentAmount: with nothing unpaid it is the whole amount.
Payable(inv) == IF inv.unpaid > 0 THEN 1 .. inv.unpaid ELSE {inv.amount}

EnsureWrite(r) ==
  LET inv == Repriced(request[r].inv, request[r].amount) IN
  /\ At(r, {"member", "edge"}, "ensureWrite")
  /\ invoice' = inv
  /\ IF request[r].kind = "edge"
     THEN request' = [request EXCEPT ![r].pc = "edgeRead"]
     ELSE \E a \in Payable(inv) :
            request' = [request EXCEPT ![r].pc = "record", ![r].inv = inv, ![r].amount = a]
  /\ UNCHANGED <<session, booked, fee, stops, history>>

\* createPaymentTransaction.
Record(r) ==
  /\ At(r, {"link", "member"}, "record")
  /\ booked' = [booked EXCEPT ![r] = request[r].amount]
  /\ beyond' = IF request[r].amount > request[r].inv.unpaid THEN beyond \cup {r} ELSE beyond
  /\ Go(r, "applyRead")
  /\ UNCHANGED <<invoice, session, fee, stops, overlapped, broken, short, undone>>

\* applyPayment reads the invoice ...
ApplyRead(r) ==
  /\ At(r, {"link", "member"}, "applyRead")
  /\ request' = [request EXCEPT ![r].pc = "applyWrite", ![r].inv = invoice]
  /\ UNCHANGED <<tables, fee, stops, history>>

\* Slip, for the mutation runs: the last payment instead of the sum.
PaidByLast(inv, a) == [amount |-> inv.amount, paid |-> Least(inv.amount, a),
                       unpaid |-> Minus(inv.amount, a)]

\* Slip, for the mutation runs: a part counts for the whole.
PaidInFull(inv, a) == [amount |-> inv.amount, paid |-> inv.amount, unpaid |-> 0]

Paid(inv, a) == [amount |-> inv.amount, paid |-> Least(inv.amount, inv.paid + a),
                 unpaid |-> Minus(inv.amount, inv.paid + a)]

\* ... and writes the sum it has worked out; the amount is not written.
ApplyWrite(r) ==
  LET inv == [Paid(request[r].inv, request[r].amount) EXCEPT !.amount = invoice.amount] IN
  /\ At(r, {"link", "member"}, "applyWrite")
  /\ invoice' = inv
  /\ request' = [request EXCEPT
       ![r].pc = IF request[r].kind = "link" THEN "sessionRead" ELSE "sessionWrite",
       ![r].inv = inv]
  /\ UNCHANGED <<session, booked, fee, stops, history>>

SessionRead(r) ==
  /\ At(r, {"link"}, "sessionRead")
  /\ request' = [request EXCEPT ![r].pc = "sessionWrite", ![r].ses = session]
  /\ UNCHANGED <<tables, fee, stops, history>>

\* A member who pays before the exit leaves the session with the status read at first.
StatusAfter(kind, was, inv) ==
  CASE kind = "member" /\ was = "ACTIVE" -> was
    [] kind = "member" /\ was # "ACTIVE" -> IF inv.unpaid = 0 THEN "PAID" ELSE "CLOSED"
    [] OTHER                             -> IF inv.unpaid = 0 THEN "PAID" ELSE was

SessionWrite(r) ==
  LET inv == request[r].inv IN
  /\ At(r, {"link", "member"}, "sessionWrite")
  /\ session' = [status |-> StatusAfter(request[r].kind, request[r].ses.status, inv),
                 note   |-> IF inv.unpaid = 0 THEN "PAID" ELSE "PARTIALLY_PAID",
                 paid   |-> inv.paid,
                 unpaid |-> inv.unpaid]
  /\ Go(r, "done")
  /\ UNCHANGED <<invoice, booked, fee, stops, history>>

---------------------------------------------------------------------------
(* recordManualPayment: the reads, then one transaction of writes.         *)

AskDesk(r) ==
  \E a \in 1 .. invoice.unpaid : Ask(r, "desk", "desk", a, NoRequest)

Desk(r) ==
  LET inv  == request[r].inv
      ses  == request[r].ses
      a    == request[r].amount
      left == Minus(inv.unpaid, a) IN
  /\ At(r, {"desk"}, "desk")
  /\ booked' = [booked EXCEPT ![r] = a]
  /\ invoice' = [amount |-> invoice.amount, paid |-> inv.paid + a, unpaid |-> left]
  /\ session' = [status |-> IF ses.status = "CLOSED" THEN "CLOSED"
                            ELSE IF left = 0 THEN "PAID" ELSE ses.status,
                 note   |-> IF left = 0 THEN "PAID" ELSE "PARTIALLY_PAID",
                 paid   |-> ses.paid + a,
                 unpaid |-> left]
  /\ Go(r, "done")
  /\ UNCHANGED <<fee, stops, history>>

---------------------------------------------------------------------------
(* confirm, and tossConfirm or confirmTossPayment of a prepared payment.   *)

\* confirm asks that its amount is what is unpaid.
AskConfirm(r) ==
  \E a \in 1 .. invoice.amount : a = invoice.unpaid /\ Ask(r, "confirm", "confirm", a, NoRequest)

\* createPendingPayment: a payment of what is unpaid now.
AskToss(r) ==
  /\ invoice.unpaid > 0
  /\ Ask(r, "toss", "tossRead", invoice.unpaid, NoRequest)

\* tossConfirm compares its amount with the payment's, not with the invoice's.
TossRead(r) ==
  /\ At(r, {"toss"}, "tossRead")
  /\ Cardinality(Working) < MaxActive
  /\ request' = [request EXCEPT ![r].pc = "confirm", ![r].inv = invoice]
  /\ overlapped' = Beside(r)
  /\ UNCHANGED <<tables, fee, stops, broken, beyond, short, undone>>

\* Payment, invoice and session in one transaction, from the invoice as read.
Confirm(r) ==
  LET inv == request[r].inv IN
  /\ At(r, {"confirm", "toss"}, "confirm")
  /\ booked' = [booked EXCEPT ![r] = request[r].amount]
  /\ invoice' = [amount |-> invoice.amount, paid |-> inv.amount, unpaid |-> 0]
  /\ session' = [status |-> "PAID", note |-> session.note, paid |-> inv.amount, unpaid |-> 0]
  /\ beyond' = IF request[r].amount > inv.unpaid THEN beyond \cup {r} ELSE beyond
  /\ short' = IF request[r].amount < inv.unpaid THEN short \cup {r} ELSE short
  /\ Go(r, "done")
  /\ UNCHANGED <<fee, stops, overlapped, broken, undone>>

---------------------------------------------------------------------------
(* createCloudInvoiceForEdgePaidExit.  All requests of this kind carry the *)
(* same event: the edge pushes it again until it is answered.              *)

AskEdge(r) == Ask(r, "edge", "ensureRead", 0, NoRequest)

BookedForEvent == \E q \in Requests : request[q].kind = "edge" /\ booked[q] > 0

\* The transaction reads the invoice and whether the event has been booked ...
EdgeRead(r) ==
  /\ At(r, {"edge"}, "edgeRead")
  /\ request' = [request EXCEPT ![r].pc = "edgeWrite", ![r].inv = invoice,
       ![r].amount = IF BookedForEvent THEN 0
                     ELSE Minus(Least(invoice.amount, EdgePaid), invoice.paid)]
  /\ UNCHANGED <<tables, fee, stops, history>>

\* ... and writes all of it.
EdgeWrite(r) ==
  LET inv == [Paid(request[r].inv, request[r].amount) EXCEPT !.amount = invoice.amount] IN
  /\ At(r, {"edge"}, "edgeWrite")
  /\ booked' = [booked EXCEPT ![r] = request[r].amount]
  /\ invoice' = inv
  /\ session' = [session EXCEPT !.note = NoteOf(inv), !.paid = inv.paid, !.unpaid = inv.unpaid]
  /\ Go(r, "done")
  /\ UNCHANGED <<fee, stops, history>>

---------------------------------------------------------------------------
(* refund, and the webhook's CANCELED, of a SUCCESS payment q.             *)

Success(q) == request[q].kind \in {"confirm", "toss"} /\ booked[q] > 0

AskRefund(r) ==
  \E q \in Requests : Success(q) /\ Ask(r, "refund", "refund", 0, q)

\* The invoice is open again at the amount read, whoever else has paid on it.
Refund(r) ==
  LET inv == request[r].inv IN
  /\ At(r, {"refund"}, "refund")
  /\ booked' = [booked EXCEPT ![request[r].of] = 0]
  /\ invoice' = [amount |-> invoice.amount, paid |-> 0, unpaid |-> inv.amount]
  /\ session' = [session EXCEPT !.status = "CLOSED", !.paid = 0, !.unpaid = inv.amount]
  /\ undone' = TRUE
  /\ Go(r, "done")
  /\ UNCHANGED <<fee, stops, overlapped, broken, beyond, short>>

AskCanceled(r) ==
  \E q \in Requests : Success(q) /\ Ask(r, "canceled", "refund", 0, q)

\* Only the payment is marked: invoice and session stay as they are.
Cancel(r) ==
  /\ At(r, {"canceled"}, "refund")
  /\ booked' = [booked EXCEPT ![request[r].of] = 0]
  /\ undone' = TRUE
  /\ Go(r, "done")
  /\ UNCHANGED <<invoice, session, fee, stops, overlapped, broken, beyond, short>>

\* A request throws or its process ends between two statements.
Stop(r) ==
  /\ r \in Working
  /\ stops < MaxStops
  /\ stops' = stops + 1
  /\ broken' = broken \cup {r}
  /\ Go(r, "done")
  /\ UNCHANGED <<tables, fee, overlapped, beyond, short, undone>>

---------------------------------------------------------------------------
Asked(r) ==
  \/ AskLink(r) \/ AskMember(r) \/ AskDesk(r) \/ AskConfirm(r) \/ AskToss(r) \/ AskEdge(r)
  \/ AskRefund(r) \/ AskCanceled(r)

Step(r) ==
  \/ EnsureRead(r) \/ EnsureWrite(r) \/ Record(r) \/ ApplyRead(r) \/ ApplyWrite(r)
  \/ SessionRead(r) \/ SessionWrite(r) \/ Desk(r) \/ TossRead(r) \/ Confirm(r)
  \/ EdgeRead(r) \/ EdgeWrite(r) \/ Refund(r) \/ Cancel(r)

Next == FeeGrows \/ \E r \in Requests : Asked(r) \/ Step(r) \/ Stop(r)

Spec == Init /\ [][Next]_vars

---------------------------------------------------------------------------
(* Safety.                                                                 *)

MoneyOf(rs) == MapThenSumSet(LAMBDA r : booked[r], rs)
Money       == MoneyOf(Requests)

\* No request that priced the invoice anew ran beside another one.
PricedAlone == fee = Fee \/ \A r \in overlapped : request[r].kind \notin {"member", "edge"}

Whole == overlapped = {} /\ broken = {} /\ beyond \cup short = {} /\ ~undone

\* The invoice never shows more than was recorded, whatever overlaps or stops,
\* unless a payment was undone, a prepared one was confirmed for a new price, or
\* the invoice got a new price beside another request.
PaidWithinMoney ==
  PricedAlone /\ ~undone /\ short = {} => invoice.paid <= Money

\* Money a request recorded while no other was at work is on the invoice for
\* good, whatever overlaps afterwards, unless a payment was undone or the invoice
\* got a new price beside another request.
LonelyMoneyKept ==
  LET lonely == {r \in Requests : /\ request[r].pc = "done"
                                  /\ r \notin overlapped \cup broken \cup beyond} IN
  PricedAlone /\ ~undone => MoneyOf(lonely) <= invoice.paid

\* Requests that come one after the other and all end leave an invoice that
\* adds up, and a session that shows it.
QuietBooksAgree ==
  Whole /\ Working = {} =>
    /\ invoice.paid = Money
    /\ invoice.unpaid = Minus(invoice.amount, invoice.paid)
    /\ session.paid = invoice.paid
    /\ session.unpaid = invoice.unpaid

\* However often the edge pushes a paid exit its payment is recorded once,
\* unless two of the pushes are carried out at once.
EdgePaymentOnce ==
  \A q, r \in Requests :
     request[q].kind = "edge" /\ request[r].kind = "edge" /\ booked[q] > 0 /\ booked[r] > 0
     => q = r \/ {q, r} \subseteq overlapped

---------------------------------------------------------------------------
(* The inductive invariant behind EdgePaymentOnce.                         *)

\* Two requests at work are known to overlap.
TogetherOverlap ==
  \A q, r \in Working : q # r => {q, r} \subseteq overlapped

\* r has recorded the edge's payment or is about to.
Claims(r) ==
  /\ request[r].kind = "edge"
  /\ booked[r] > 0 \/ (request[r].pc = "edgeWrite" /\ request[r].amount > 0)

ClaimsOverlap ==
  \A q, r \in Requests : Claims(q) /\ Claims(r) => q = r \/ {q, r} \subseteq overlapped

NothingYet == \A r \in Requests : request[r].pc = "new" => booked[r] = 0

IInv == TypeOK /\ TogetherOverlap /\ ClaimsOverlap /\ NothingYet

---------------------------------------------------------------------------
(* What the proofs about the money add to it.                              *)

\* Only who has come overlaps; a prepared payment is not recorded yet, and one that is
\* recorded stays so unless it is undone.
RecordedInTime ==
  /\ \A r \in overlapped : request[r].pc # "new"
  /\ \A r \in Requests :
       /\ request[r].pc = "tossRead" => booked[r] = 0
       /\ request[r].pc \in {"applyRead", "applyWrite"} /\ ~undone => booked[r] = request[r].amount

\* Who will write back what it has read of the invoice.
Writing == {"ensureWrite", "applyWrite", "desk", "confirm", "edgeWrite", "refund"}

\* Paid and unpaid make up the amount, on the invoice and in what will be written of it.
AddsUp(inv) == inv.paid + inv.unpaid = inv.amount

BooksAddUp ==
  PricedAlone =>
    /\ AddsUp(invoice) /\ Fee <= invoice.amount /\ invoice.amount <= fee
    /\ \A r \in Requests :
         /\ request[r].pc = "ensureWrite" =>
              invoice.amount <= request[r].amount /\ request[r].amount <= fee
         /\ request[r].pc \in Writing => AddsUp(request[r].inv) /\ request[r].inv.amount = invoice.amount
         /\ request[r].pc \in {"desk", "edgeWrite"} => request[r].amount <= request[r].inv.unpaid

\* What a request alone has read still stands, and what it will record is unpaid.
ReadStands ==
  \A r \in Working \ overlapped :
    /\ request[r].pc \in Writing \cup {"record", "sessionRead", "sessionWrite"} =>
         request[r].inv = invoice
    /\ request[r].pc \in {"applyRead", "applyWrite"} /\ r \notin beyond =>
         request[r].amount <= invoice.unpaid

\* Requests whose money is on the invoice, and those whose money stays there.
Entered == {r \in Requests : request[r].pc \in {"sessionRead", "sessionWrite", "done"}}
Kept    == Entered \ (overlapped \cup broken \cup beyond)

\* The invoice, and whatever is written back to it, shows no more than was entered ...
NoMoreThanEntered ==
  PricedAlone /\ ~undone /\ short = {} =>
    /\ invoice.paid <= MoneyOf(Entered)
    /\ \A r \in Requests : request[r].pc \in Writing => request[r].inv.paid <= MoneyOf(Entered)

\* ... and no less than is kept.
NoLessThanKept ==
  PricedAlone /\ ~undone =>
    /\ MoneyOf(Kept) <= invoice.paid
    /\ \A r \in Requests : request[r].pc \in Writing => MoneyOf(Kept) <= request[r].inv.paid

\* The session shows the invoice, unless a request between the two writes is at work.
SessionInStep ==
  Whole =>
    /\ \A r \in Working : request[r].pc = "desk" => request[r].ses.paid = request[r].inv.paid
    /\ \/ session.paid = invoice.paid /\ session.unpaid = invoice.unpaid
       \/ \E r \in Working : request[r].pc \in {"record", "applyRead", "applyWrite", "sessionRead",
                                               "sessionWrite", "edgeRead", "edgeWrite"}

MoneyInv ==
  RecordedInTime /\ BooksAddUp /\ ReadStands /\ NoMoreThanEntered /\ NoLessThanKept /\ SessionInStep
=============================================================================
