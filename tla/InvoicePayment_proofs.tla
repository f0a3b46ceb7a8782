------------------------ MODULE InvoicePayment_proofs ------------------------
(***************************************************************************)
(* Proofs about an invoice's payments, for any finite set of requests,    *)
(* however many of them overlap or stop half-way, and any fee: types, that *)
(* a payment the edge reports again and again is recorded once, that the   *)
(* invoice shows no more than was recorded and keeps what a request        *)
(* recorded alone, and that requests one after the other leave books that  *)
(* agree.                                                                  *)
(***************************************************************************)
EXTENDS InvoicePayment, FiniteSetTheorems, WellFoundedInduction, TLAPS

\* The library's sum of b over S, and the function it is computed by.
One(s) == CHOOSE x \in s : TRUE

Sums(b, S, f) ==
  f = [s \in SUBSET S |-> IF s = {} THEN 0 ELSE b[One(s)] + f[s \ {One(s)}]]

Total(b, S) == (CHOOSE f : Sums(b, S, f))[S]

LEMMA MoneyIsTotal ==
  \A rs : MoneyOf(rs) = Total(booked, rs)
  BY DEF MoneyOf, MapThenSumSet, MapThenFoldSet, Total, Sums, One

\* Of the subsets of a finite set that fail, one is smallest.
LEMMA SmallestSubset ==
  ASSUME NEW S, IsFiniteSet(S), NEW B \in SUBSET SUBSET S, B # {}
  PROVE  \E m \in B : \A t \in B : t \subseteq m => t = m
  <1>1. IsWellFoundedOn(StrictSubsetOrdering(S), SUBSET S)
    BY FS_StrictSubsetOrderingWellFounded, FS_FiniteSubsetsOfFinite
  <1>2. PICK m \in B : \A t \in B : ~ (<<t, m>> \in StrictSubsetOrdering(S))
    BY <1>1, WFMin
  <1>3. ASSUME NEW t \in B, t \subseteq m, t # m PROVE FALSE
    <2>1. <<t, m>> \in StrictSubsetOrdering(S)
      BY <1>3 DEF StrictSubsetOrdering
    <2> QED BY <1>2, <2>1
  <1> QED BY <1>3

\* What is picked of a set that is not empty.
LEMMA OneIn ==
  ASSUME NEW s, s # {}
  PROVE  One(s) \in s /\ s \ {One(s)} \subseteq s /\ s \ {One(s)} # s
  BY DEF One

LEMMA SumsAgree ==
  ASSUME NEW S, IsFiniteSet(S), NEW T \in SUBSET S, NEW b, NEW f, NEW g,
         Sums(b, S, f), Sums(b, T, g)
  PROVE  \A s \in SUBSET T : f[s] = g[s]
  <1> DEFINE B == {s \in SUBSET T : f[s] # g[s]}
  <1>1. SUFFICES ASSUME B # {} PROVE FALSE
    OBVIOUS
  <1>2. B \in SUBSET SUBSET S
    OBVIOUS
  <1>3. PICK m \in B : \A t \in B : t \subseteq m => t = m
    <2> HIDE DEF B
    <2> QED BY <1>1, <1>2, SmallestSubset
  <1>4. m \in SUBSET S /\ m \in SUBSET T /\ f[m] # g[m]
    OBVIOUS
  <1>5. m # {}
    BY <1>4 DEF Sums
  <1>6. m \ {One(m)} \in SUBSET T /\ m \ {One(m)} \notin B
    BY <1>3, <1>4, <1>5, OneIn
  <1>7. f[m] = b[One(m)] + f[m \ {One(m)}] /\ g[m] = b[One(m)] + g[m \ {One(m)}]
    BY <1>4, <1>5 DEF Sums
  <1> QED BY <1>4, <1>6, <1>7

LEMMA TotalUnfolds ==
  ASSUME NEW S, IsFiniteSet(S), NEW b, S # {},
         \E f : Sums(b, S, f), \E f : Sums(b, S \ {One(S)}, f)
  PROVE  Total(b, S) = b[One(S)] + Total(b, S \ {One(S)})
  <1> DEFINE T == S \ {One(S)}
             f == CHOOSE f : Sums(b, S, f)
             g == CHOOSE g : Sums(b, T, g)
  <1>1. Sums(b, S, f) /\ Sums(b, T, g) /\ T \in SUBSET S
    OBVIOUS
  <1>2. Total(b, S) = f[S] /\ Total(b, T) = g[T]
    BY DEF Total
  <1> HIDE DEF f, g
  <1>3. f[S] = b[One(S)] + f[T]
    BY <1>1 DEF Sums
  <1>4. f[T] = g[T]
    BY <1>1, SumsAgree
  <1> QED BY <1>2, <1>3, <1>4

LEMMA TotalOfNone ==
  ASSUME NEW b
  PROVE  Total(b, {}) = 0 /\ \E f : Sums(b, {}, f)
  <1> DEFINE z == [s \in SUBSET {} |-> 0]
  <1>1. \A s \in SUBSET {} : s = {}
    OBVIOUS
  <1>2. Sums(b, {}, z)
    BY <1>1 DEF Sums
  <1> DEFINE f == CHOOSE f : Sums(b, {}, f)
  <1>3. Sums(b, {}, f)
    BY <1>2
  <1> HIDE DEF f
  <1>4. f[{}] = 0
    BY <1>3 DEF Sums
  <1>5. Total(b, {}) = f[{}]
    BY DEF Total, f
  <1> QED BY <1>2, <1>4, <1>5

LEMMA SumsExist ==
  ASSUME NEW S, IsFiniteSet(S), NEW b
  PROVE  \A T \in SUBSET S : \E f : Sums(b, T, f)
  <1> DEFINE B == {T \in SUBSET S : ~ \E f : Sums(b, T, f)}
  <1>1. SUFFICES ASSUME B # {} PROVE FALSE
    OBVIOUS
  <1>2. B \in SUBSET SUBSET S
    OBVIOUS
  <1>3. PICK m \in B : \A t \in B : t \subseteq m => t = m
    <2> HIDE DEF B
    <2> QED BY <1>1, <1>2, SmallestSubset
  <1>4. m \in SUBSET S /\ ~ \E f : Sums(b, m, f)
    OBVIOUS
  <1>5. \A t \in SUBSET m : t # m => \E f : Sums(b, t, f)
    BY <1>3, <1>4
  <1> HIDE DEF B
  <1> DEFINE h == [s \in SUBSET m |-> IF s = {} THEN 0 ELSE b[One(s)] + Total(b, s \ {One(s)})]
  <1>6. \A t \in SUBSET m : t # m => h[t] = Total(b, t)
    <2> SUFFICES ASSUME NEW t \in SUBSET m, t # m PROVE h[t] = Total(b, t)
      OBVIOUS
    <2>1. CASE t = {}
      BY <2>1, TotalOfNone
    <2>2. CASE t # {}
      <3>1. IsFiniteSet(t)
        BY <1>4, FS_Subset
      <3>2. t \ {One(t)} \in SUBSET m /\ t \ {One(t)} # m
        BY <2>2, OneIn
      <3>3. Total(b, t) = b[One(t)] + Total(b, t \ {One(t)})
        BY <1>5, <2>2, <3>1, <3>2, TotalUnfolds
      <3> QED BY <2>2, <3>3
    <2> QED BY <2>1, <2>2
  <1>7. \A s \in SUBSET m : s # {} => s \ {One(s)} \in SUBSET m /\ s \ {One(s)} # m
    BY OneIn
  <1>8. Sums(b, m, h)
    BY <1>6, <1>7 DEF Sums
  <1> QED BY <1>4, <1>8

\* A sum over a finite set begins with the element that is picked.
LEMMA TotalBegins ==
  ASSUME NEW S, IsFiniteSet(S), NEW b
  PROVE  \A T \in SUBSET S : T # {} => Total(b, T) = b[One(T)] + Total(b, T \ {One(T)})
  <1> SUFFICES ASSUME NEW T \in SUBSET S, T # {}
               PROVE  Total(b, T) = b[One(T)] + Total(b, T \ {One(T)})
    OBVIOUS
  <1>1. IsFiniteSet(T) /\ T \ {One(T)} \in SUBSET S
    BY FS_Subset
  <1> QED BY <1>1, SumsExist, TotalUnfolds

LEMMA TotalIsNat ==
  ASSUME NEW S, IsFiniteSet(S), NEW b \in [S -> Nat]
  PROVE  \A T \in SUBSET S : Total(b, T) \in Nat
  <1> DEFINE B == {T \in SUBSET S : Total(b, T) \notin Nat}
  <1>1. SUFFICES ASSUME B # {} PROVE FALSE
    OBVIOUS
  <1>2. B \in SUBSET SUBSET S
    OBVIOUS
  <1>3. PICK m \in B : \A t \in B : t \subseteq m => t = m
    <2> HIDE DEF B
    <2> QED BY <1>1, <1>2, SmallestSubset
  <1>4. m \in SUBSET S /\ m # {}
    BY TotalOfNone
  <1>5. One(m) \in S /\ m \ {One(m)} \in SUBSET S /\ m \ {One(m)} \notin B
    BY <1>3, <1>4, OneIn
  <1>6. Total(b, m) = b[One(m)] + Total(b, m \ {One(m)})
    BY <1>4, TotalBegins
  <1> QED BY <1>5, <1>6

\* ... or with any other.
LEMMA TotalTakes ==
  ASSUME NEW S, IsFiniteSet(S), NEW b \in [S -> Nat]
  PROVE  \A T \in SUBSET S : \A x \in T : Total(b, T) = b[x] + Total(b, T \ {x})
  <1> DEFINE B == {T \in SUBSET S : \E x \in T : Total(b, T) # b[x] + Total(b, T \ {x})}
  <1>1. SUFFICES ASSUME B # {} PROVE FALSE
    OBVIOUS
  <1>2. B \in SUBSET SUBSET S
    OBVIOUS
  <1>3. PICK m \in B : \A t \in B : t \subseteq m => t = m
    <2> HIDE DEF B
    <2> QED BY <1>1, <1>2, SmallestSubset
  <1>4. PICK x \in m : Total(b, m) # b[x] + Total(b, m \ {x})
    OBVIOUS
  <1> DEFINE y == One(m)
  <1>5. m \in SUBSET S /\ y \in m /\ Total(b, m) = b[y] + Total(b, m \ {y})
    BY <1>4, OneIn, TotalBegins
  <1> HIDE DEF y
  <1>6. x # y
    BY <1>4, <1>5
  <1>7. \A z \in m : m \ {z} \in SUBSET S /\ m \ {z} \notin B
    BY <1>3, <1>5
  <1>8. Total(b, m \ {y}) = b[x] + Total(b, (m \ {y}) \ {x})
    BY <1>5, <1>6, <1>7
  <1>9. Total(b, m \ {x}) = b[y] + Total(b, (m \ {x}) \ {y})
    BY <1>5, <1>6, <1>7
  <1>10. (m \ {y}) \ {x} = (m \ {x}) \ {y}
    OBVIOUS
  <1>11. b[x] \in Nat /\ b[y] \in Nat /\ Total(b, (m \ {x}) \ {y}) \in Nat
    <2>1. (m \ {x}) \ {y} \in SUBSET S
      BY <1>5
    <2> QED BY <1>5, <2>1, TotalIsNat
  <1> QED BY <1>4, <1>5, <1>8, <1>9, <1>10, <1>11

\* Of more, and of larger ones, the sum is larger.
LEMMA TotalGrows ==
  ASSUME NEW S, IsFiniteSet(S), NEW b \in [S -> Nat], NEW c \in [S -> Nat]
  PROVE  \A T, U \in SUBSET S : T \subseteq U /\ (\A x \in T : b[x] <= c[x]) => Total(b, T) <= Total(c, U)
  <1> DEFINE Fails(T, U) == T \subseteq U /\ (\A x \in T : b[x] <= c[x]) /\ ~ (Total(b, T) <= Total(c, U))
             B == {T \in SUBSET S : \E U \in SUBSET S : Fails(T, U)}
  <1>1. SUFFICES ASSUME B # {} PROVE FALSE
    OBVIOUS
  <1>2. B \in SUBSET SUBSET S
    OBVIOUS
  <1>3. PICK m \in B : \A t \in B : t \subseteq m => t = m
    <2> HIDE DEF B
    <2> QED BY <1>1, <1>2, SmallestSubset
  <1>4. m \in SUBSET S
    OBVIOUS
  <1>5. PICK U \in SUBSET S : Fails(m, U)
    BY DEF B
  <1>6. Total(c, U) \in Nat
    BY TotalIsNat
  <1>7. m # {}
    BY <1>5, <1>6, TotalOfNone
  <1>8. PICK x \in m : TRUE
    BY <1>7
  <1>9. m \ {x} \in SUBSET S /\ U \ {x} \in SUBSET S /\ m \ {x} \notin B
    BY <1>3, <1>4
  <1>10. Total(b, m \ {x}) <= Total(c, U \ {x})
    <2>1. ~Fails(m \ {x}, U \ {x})
      BY <1>9
    <2> QED BY <1>5, <2>1
  <1>11. /\ Total(b, m) = b[x] + Total(b, m \ {x})
         /\ Total(c, U) = c[x] + Total(c, U \ {x})
    BY <1>4, <1>5, TotalTakes
  <1>12. /\ b[x] \in Nat /\ c[x] \in Nat /\ b[x] <= c[x]
         /\ Total(b, m \ {x}) \in Nat /\ Total(c, U \ {x}) \in Nat
    BY <1>4, <1>5, <1>9, TotalIsNat
  <1>13. ~ (Total(b, m) <= Total(c, U))
    BY <1>5
  <1> HIDE DEF B, Fails
  <1> QED BY <1>10, <1>11, <1>12, <1>13

\* What is nothing adds nothing.
LEMMA TotalOfSome ==
  ASSUME NEW S, IsFiniteSet(S), NEW b \in [S -> Nat], NEW T \in SUBSET S,
         \A x \in S \ T : b[x] = 0
  PROVE  Total(b, S) = Total(b, T)
  <1> DEFINE B == {U \in SUBSET S : T \subseteq U /\ Total(b, U) # Total(b, T)}
  <1>1. SUFFICES ASSUME B # {} PROVE FALSE
    OBVIOUS
  <1>2. B \in SUBSET SUBSET S
    OBVIOUS
  <1>3. PICK m \in B : \A t \in B : t \subseteq m => t = m
    <2> HIDE DEF B
    <2> QED BY <1>1, <1>2, SmallestSubset
  <1>4. m \in SUBSET S /\ T \subseteq m /\ Total(b, m) # Total(b, T)
    OBVIOUS
  <1>5. PICK x \in m : x \notin T
    BY <1>4
  <1>6. Total(b, m \ {x}) = Total(b, T)
    BY <1>3, <1>4, <1>5
  <1>7. Total(b, m) = b[x] + Total(b, m \ {x}) /\ b[x] = 0
    BY <1>4, <1>5, TotalTakes
  <1>8. Total(b, m \ {x}) \in Nat
    BY <1>4, TotalIsNat
  <1> HIDE DEF B
  <1> QED BY <1>4, <1>6, <1>7, <1>8

RequestRows == [kind   : Kinds \cup {"none"},
                pc     : Steps,
                inv    : Invoices,
                ses    : Sessions,
                amount : Amounts,
                of     : Requests \cup {NoRequest}]

\* Sums and differences of amounts are amounts.
LEMMA MoneyFacts ==
  \A a, b \in Nat : /\ Minus(a, b) \in Nat
                    /\ Least(a, b) \in Nat
                    /\ a + b \in Nat
  BY DEF Minus, Least

\* What the operators on invoices return.
LEMMA InvoiceFacts ==
  ASSUME NEW inv \in Invoices, NEW a \in Amounts
  PROVE  /\ inv.amount \in Nat /\ inv.paid \in Nat /\ inv.unpaid \in Nat
         /\ Repriced(inv, a) \in Invoices
         /\ Paid(inv, a) \in Invoices
         /\ \A n \in Nat : [Paid(inv, a) EXCEPT !.amount = n] \in Invoices
         /\ Payable(inv) \subseteq Amounts
         /\ NoteOf(inv) \in {"UNPAID", "PARTIALLY_PAID", "PAID"}
  <1>1. inv.amount \in Nat /\ inv.paid \in Nat /\ inv.unpaid \in Nat
    BY DEF Invoices, Amounts
  <1>2. Repriced(inv, a) \in Invoices
    BY <1>1, MoneyFacts DEF Repriced, Invoices, Amounts
  <1>3. Paid(inv, a) \in Invoices
    BY <1>1, MoneyFacts DEF Paid, Invoices, Amounts
  <1>4. \A n \in Nat : [Paid(inv, a) EXCEPT !.amount = n] \in Invoices
    BY <1>3 DEF Invoices, Amounts
  <1>5. Payable(inv) \subseteq Amounts
    BY <1>1 DEF Payable, Amounts
  <1>6. NoteOf(inv) \in {"UNPAID", "PARTIALLY_PAID", "PAID"}
    BY DEF NoteOf
  <1> QED BY <1>1, <1>2, <1>3, <1>4, <1>5, <1>6

\* The type invariant, in the terms the proofs use.
LEMMA TypeFacts ==
  ASSUME TypeOK
  PROVE  /\ invoice \in Invoices /\ session \in Sessions /\ fee \in Amounts
         /\ booked \in [Requests -> Amounts]
         /\ request \in [Requests -> RequestRows]
         /\ invoice.amount \in Nat /\ invoice.unpaid \in Nat
         /\ \A r \in Requests : /\ request[r].inv \in Invoices
                                /\ request[r].ses \in Sessions
                                /\ request[r].amount \in Amounts
                                /\ booked[r] \in Amounts
  <1>1. /\ invoice \in Invoices /\ session \in Sessions /\ fee \in Amounts
        /\ booked \in [Requests -> Amounts]
        /\ request \in [Requests -> RequestRows]
    BY FeeAssumption DEF TypeOK, RequestRows, Amounts
  <1> QED BY <1>1, InvoiceFacts DEF RequestRows, Invoices, Amounts

\* What a step that gives r a new row does.
LEMMA RowType ==
  ASSUME request \in [Requests -> RequestRows], NEW r \in Requests, NEW row \in RequestRows,
         request' = [request EXCEPT ![r] = row]
  PROVE  /\ request' \in [Requests -> RequestRows]
         /\ request'[r] = row
         /\ \A q \in Requests \ {r} : request'[q] = request[q]
  OBVIOUS

\* The rows a request that goes on may have.
LEMMA RowFacts ==
  ASSUME NEW row \in RequestRows, NEW pc \in Steps
  PROVE  /\ [row EXCEPT !.pc = pc] \in RequestRows
         /\ \A inv \in Invoices : [row EXCEPT !.pc = pc, !.inv = inv] \in RequestRows
         /\ \A ses \in Sessions : [row EXCEPT !.pc = pc, !.ses = ses] \in RequestRows
         /\ \A inv \in Invoices, a \in Amounts :
              [row EXCEPT !.pc = pc, !.inv = inv, !.amount = a] \in RequestRows
  BY DEF RequestRows

\* A step of a request at work gives it a new row, of its own kind: either it
\* goes on, or it gets an invoice, a session or an amount too.
LEMMA StepRow ==
  ASSUME TypeOK, NEW r \in Requests, Step(r) \/ Stop(r)
  PROVE  \E row \in RequestRows :
           /\ request' = [request EXCEPT ![r] = row]
           /\ row.kind = request[r].kind
           /\ row.pc \notin {"new", "tossRead"}
           /\ row.pc = "edgeWrite" =>
                /\ request[r].pc = "edgeRead" /\ request[r].kind = "edge"
                /\ booked' = booked /\ overlapped' = overlapped
                /\ BookedForEvent => row.amount = 0
  <1> DEFINE Moves(row) == /\ request' = [request EXCEPT ![r] = row]
                           /\ row.kind = request[r].kind
                           /\ row.pc \notin {"new", "tossRead"}
                           /\ row.pc = "edgeWrite" =>
                                /\ request[r].pc = "edgeRead" /\ request[r].kind = "edge"
                                /\ booked' = booked /\ overlapped' = overlapped
                                /\ BookedForEvent => row.amount = 0
  <1> USE TypeFacts
  <1>0. request[r] \in RequestRows
    OBVIOUS
  <1>1. ASSUME NEW pc \in Steps \ {"new", "tossRead", "edgeWrite"}, Go(r, pc)
        PROVE  \E row \in RequestRows : Moves(row)
    <2> DEFINE row == [request[r] EXCEPT !.pc = pc]
    <2>1. request' = [request EXCEPT ![r] = row]
      BY <1>1 DEF Go
    <2>2. row \in RequestRows /\ row.kind = request[r].kind /\ row.pc = pc
      BY <1>0, RowFacts DEF RequestRows
    <2> HIDE DEF row
    <2> QED BY <1>1, <2>1, <2>2
  <1>2. ASSUME NEW pc \in Steps \ {"new", "tossRead", "edgeWrite"}, NEW inv \in Invoices,
               NEW a \in Amounts,
               \/ request' = [request EXCEPT ![r].pc = pc, ![r].inv = inv]
               \/ request' = [request EXCEPT ![r].pc = pc, ![r].inv = inv, ![r].amount = a]
        PROVE  \E row \in RequestRows : Moves(row)
    <2>1. CASE request' = [request EXCEPT ![r].pc = pc, ![r].inv = inv]
      <3> DEFINE row == [request[r] EXCEPT !.pc = pc, !.inv = inv]
      <3>1. request' = [request EXCEPT ![r] = row]
        BY <2>1
      <3>2. row \in RequestRows /\ row.kind = request[r].kind /\ row.pc = pc
        BY <1>0, RowFacts DEF RequestRows
      <3> HIDE DEF row
      <3> QED BY <1>2, <3>1, <3>2
    <2>2. CASE request' = [request EXCEPT ![r].pc = pc, ![r].inv = inv, ![r].amount = a]
      <3> DEFINE row == [request[r] EXCEPT !.pc = pc, !.inv = inv, !.amount = a]
      <3>1. request' = [request EXCEPT ![r] = row]
        BY <2>2
      <3>2. row \in RequestRows /\ row.kind = request[r].kind /\ row.pc = pc
        BY <1>0, RowFacts DEF RequestRows
      <3> HIDE DEF row
      <3> QED BY <1>2, <3>1, <3>2
    <2> QED BY <1>2, <2>1, <2>2
  <1>3. CASE SessionRead(r)
    <2> DEFINE row == [request[r] EXCEPT !.pc = "sessionWrite", !.ses = session]
    <2>1. request' = [request EXCEPT ![r] = row]
      BY <1>3 DEF SessionRead
    <2>2. row \in RequestRows /\ row.kind = request[r].kind /\ row.pc = "sessionWrite"
      <3>1. "sessionWrite" \in Steps
        BY DEF Steps
      <3>2. row \in RequestRows
        BY <1>0, <3>1, RowFacts
      <3> QED BY <1>0, <3>2 DEF RequestRows
    <2> HIDE DEF row
    <2> QED BY <2>1, <2>2
  <1>4. CASE EdgeRead(r)
    <2> DEFINE a == IF BookedForEvent THEN 0
                    ELSE Minus(Least(invoice.amount, EdgePaid), invoice.paid)
               row == [request[r] EXCEPT !.pc = "edgeWrite", !.inv = invoice, !.amount = a]
    <2>1. request' = [request EXCEPT ![r] = row]
      BY <1>4 DEF EdgeRead
    <2>2. a \in Amounts
      BY FeeAssumption, InvoiceFacts, MoneyFacts DEF Amounts
    <2>3. BookedForEvent => a = 0
      OBVIOUS
    <2> HIDE DEF a
    <2>4. /\ row \in RequestRows /\ row.kind = request[r].kind /\ row.pc = "edgeWrite"
          /\ row.amount = a
      <3>1. "edgeWrite" \in Steps
        BY DEF Steps
      <3>2. row \in RequestRows
        BY <1>0, <2>2, <3>1, RowFacts
      <3> QED BY <1>0, <3>2 DEF RequestRows
    <2>5. /\ request[r].pc = "edgeRead" /\ request[r].kind = "edge"
          /\ booked' = booked /\ overlapped' = overlapped
      BY <1>4 DEF EdgeRead, At, tables, history
    <2> HIDE DEF row
    <2> QED BY <2>1, <2>3, <2>4, <2>5
  <1>5. CASE EnsureRead(r)
    BY <1>2, <1>5 DEF EnsureRead, Steps
  <1>6. CASE EnsureWrite(r)
    <2> DEFINE inv == Repriced(request[r].inv, request[r].amount)
    <2>1. inv \in Invoices /\ Payable(inv) \subseteq Amounts
      BY InvoiceFacts
    <2>2. \/ request' = [request EXCEPT ![r].pc = "edgeRead"]
          \/ \E a \in Payable(inv) :
               request' = [request EXCEPT ![r].pc = "record", ![r].inv = inv, ![r].amount = a]
      BY <1>6 DEF EnsureWrite
    <2> HIDE DEF inv
    <2> QED BY <1>1, <1>2, <2>1, <2>2 DEF Go, Steps
  <1>7. CASE ApplyRead(r)
    BY <1>2, <1>7 DEF ApplyRead, Steps, Amounts
  <1>8. CASE ApplyWrite(r)
    <2> DEFINE inv == [Paid(request[r].inv, request[r].amount) EXCEPT !.amount = invoice.amount]
               pc == IF request[r].kind = "link" THEN "sessionRead" ELSE "sessionWrite"
    <2>1. inv \in Invoices
      BY InvoiceFacts
    <2>2. request' = [request EXCEPT ![r].pc = pc, ![r].inv = inv]
      BY <1>8 DEF ApplyWrite
    <2>3. pc \in Steps \ {"new", "tossRead", "edgeWrite"}
      BY DEF Steps
    <2> HIDE DEF inv, pc
    <2> QED BY <1>2, <2>1, <2>2, <2>3
  <1>9. CASE TossRead(r)
    BY <1>2, <1>9 DEF TossRead, Steps, Amounts
  <1>10. CASE \/ Record(r) \/ SessionWrite(r) \/ Desk(r) \/ Confirm(r) \/ EdgeWrite(r)
              \/ Refund(r) \/ Cancel(r) \/ Stop(r)
    <2>1. Go(r, "applyRead") \/ Go(r, "done")
      BY <1>10 DEF Record, SessionWrite, Desk, Confirm, EdgeWrite, Refund, Cancel, Stop
    <2> QED BY <1>1, <2>1 DEF Steps
  <1> QED BY <1>3, <1>4, <1>5, <1>6, <1>7, <1>8, <1>9, <1>10 DEF Step

\* A request that comes in gets a row too.
LEMMA AskedRow ==
  ASSUME TypeOK, NEW r \in Requests, Asked(r)
  PROVE  /\ request[r].pc = "new"
         /\ UNCHANGED <<tables, fee, stops, broken, beyond, short, undone>>
         /\ overlapped' = Beside(r)
         /\ \E row \in RequestRows : /\ request' = [request EXCEPT ![r] = row]
                                    /\ row.pc # "edgeWrite"
  <1> DEFINE Comes(row) == request' = [request EXCEPT ![r] = row] /\ row.pc # "edgeWrite"
  <1> USE TypeFacts
  <1>1. ASSUME NEW kind, NEW pc \in Steps \ {"edgeWrite"}, NEW a \in Amounts,
               NEW of \in Requests \cup {NoRequest}, Ask(r, kind, pc, a, of)
        PROVE  /\ request[r].pc = "new" /\ overlapped' = Beside(r)
               /\ UNCHANGED <<tables, fee, stops, broken, beyond, short, undone>>
               /\ \E row \in RequestRows : Comes(row)
    <2> DEFINE row == [kind |-> kind, pc |-> pc, inv |-> invoice, ses |-> session,
                       amount |-> a, of |-> of]
    <2>1. row \in RequestRows /\ row.pc # "edgeWrite"
      BY <1>1 DEF Ask, RequestRows
    <2>2. request' = [request EXCEPT ![r] = row]
      BY <1>1 DEF Ask
    <2>3. \E x \in RequestRows : Comes(x)
      <3> HIDE DEF row
      <3> QED BY <2>1, <2>2
    <2> QED BY <1>1, <2>3 DEF Ask
  <1>2. \E kind, pc, a, of : /\ Ask(r, kind, pc, a, of)
                             /\ pc \in Steps \ {"edgeWrite"}
                             /\ a \in Amounts
                             /\ of \in Requests \cup {NoRequest}
    <2>1. CASE AskLink(r) \/ AskDesk(r) \/ AskConfirm(r)
      <3>1. \A a \in (1 .. invoice.unpaid) \cup (1 .. invoice.amount) : a \in Amounts
        BY InvoiceFacts DEF Amounts
      <3> QED BY <2>1, <3>1 DEF AskLink, AskDesk, AskConfirm, Steps
    <2>2. CASE AskMember(r) \/ AskToss(r) \/ AskEdge(r)
      <3>1. 0 \in Amounts /\ invoice.unpaid \in Amounts
        BY DEF Amounts
      <3> QED BY <2>2, <3>1 DEF AskMember, AskToss, AskEdge, Steps
    <2>3. CASE AskRefund(r) \/ AskCanceled(r)
      <3>1. 0 \in Amounts
        BY DEF Amounts
      <3> QED BY <2>3, <3>1 DEF AskRefund, AskCanceled, Steps
    <2> QED BY <2>1, <2>2, <2>3 DEF Asked
  <1> QED BY <1>1, <1>2

---------------------------------------------------------------------------
\* The initial state has an issued invoice and nothing at work.
LEMMA InitIInv == Init => IInv
  <1> SUFFICES ASSUME Init PROVE IInv
    OBVIOUS
  <1>1. TypeOK
    <2>1. Issued \in Invoices /\ Parked \in Sessions /\ Left \in Sessions
      BY FeeAssumption, BoundsAssumption DEF Issued, Parked, Left, Invoices, Sessions, Amounts
    <2>2. Request0 \in [kind   : Kinds \cup {"none"}, pc     : Steps, inv    : Invoices,
                        ses    : Sessions, amount : Amounts, of : Requests \cup {NoRequest}]
      BY <2>1 DEF Request0, Steps, Amounts
    <2> QED BY <2>1, <2>2 DEF Init, TypeOK, Amounts
  <1>2. \A r \in Requests : request[r].pc = "new" /\ request[r].kind = "none"
    BY DEF Init, Request0
  <1>3. TogetherOverlap /\ ClaimsOverlap /\ NothingYet
    BY <1>2 DEF Init, TogetherOverlap, ClaimsOverlap, NothingYet, Claims, Working
  <1> QED BY <1>1, <1>3 DEF IInv

\* No step breaks the types.
LEMMA NextTypeOK == TypeOK /\ [Next]_vars => TypeOK'
  <1> SUFFICES ASSUME TypeOK, [Next]_vars PROVE TypeOK'
    OBVIOUS
  <1> USE TypeFacts DEF tables, history
  <1> DEFINE Rest == /\ invoice' \in Invoices /\ session' \in Sessions /\ fee' \in {Fee, FeeLater}
                     /\ booked' \in [Requests -> Amounts]
                     /\ stops' \in Nat /\ undone' \in BOOLEAN
                     /\ overlapped' \in SUBSET Requests /\ broken' \in SUBSET Requests
                     /\ beyond' \in SUBSET Requests /\ short' \in SUBSET Requests
  <1>0. /\ fee \in {Fee, FeeLater} /\ stops \in Nat /\ undone \in BOOLEAN
        /\ overlapped \in SUBSET Requests /\ broken \in SUBSET Requests
        /\ beyond \in SUBSET Requests /\ short \in SUBSET Requests
    BY DEF TypeOK
  <1>1. ASSUME request' \in [Requests -> RequestRows], Rest PROVE TypeOK'
    BY <1>1 DEF TypeOK, RequestRows
  <1>2. \A r \in Requests : Beside(r) \in SUBSET Requests
    BY <1>0 DEF Beside, Working
  <1>3. ASSUME NEW r \in Requests, Asked(r) PROVE TypeOK'
    BY <1>0, <1>1, <1>2, <1>3, AskedRow, RowType
  <1>4. ASSUME NEW r \in Requests, Step(r) \/ Stop(r) PROVE request' \in [Requests -> RequestRows]
    BY <1>4, StepRow, RowType
  <1>5. ASSUME NEW r \in Requests, Step(r) \/ Stop(r) PROVE Rest
    <2>1. CASE EnsureRead(r) \/ ApplyRead(r) \/ SessionRead(r) \/ EdgeRead(r)
      BY <1>0, <2>1 DEF EnsureRead, ApplyRead, SessionRead, EdgeRead
    <2>2. CASE EnsureWrite(r)
      <3>1. invoice' \in Invoices
        BY <2>2, InvoiceFacts DEF EnsureWrite
      <3> QED BY <1>0, <2>2, <3>1 DEF EnsureWrite
    <2>3. CASE Record(r)
      BY <1>0, <2>3 DEF Record
    <2>4. CASE ApplyWrite(r)
      <3>1. invoice' \in Invoices
        BY <2>4, InvoiceFacts DEF ApplyWrite
      <3> QED BY <1>0, <2>4, <3>1 DEF ApplyWrite
    <2>5. CASE SessionWrite(r)
      <3>1. request[r].ses.status \in {"ACTIVE", "PAID", "CLOSED"}
        BY DEF Sessions
      <3>2. StatusAfter(request[r].kind, request[r].ses.status, request[r].inv)
              \in {"ACTIVE", "PAID", "CLOSED"}
        BY <3>1 DEF StatusAfter
      <3>3. session' \in Sessions
        BY <2>5, <3>2, InvoiceFacts DEF SessionWrite, Sessions, Amounts
      <3> QED BY <1>0, <2>5, <3>3 DEF SessionWrite
    <2>6. CASE Desk(r)
      <3>1. /\ Minus(request[r].inv.unpaid, request[r].amount) \in Amounts
            /\ request[r].inv.paid + request[r].amount \in Amounts
            /\ request[r].ses.paid + request[r].amount \in Amounts
        BY InvoiceFacts, MoneyFacts DEF Sessions, Amounts
      <3>2. invoice' \in Invoices
        BY <2>6, <3>1 DEF Desk, Invoices, Amounts
      <3>3. session' \in Sessions
        BY <2>6, <3>1 DEF Desk, Sessions
      <3>4. booked' \in [Requests -> Amounts]
        BY <2>6 DEF Desk
      <3> QED BY <1>0, <2>6, <3>2, <3>3, <3>4 DEF Desk
    <2>7. CASE TossRead(r)
      BY <1>0, <1>2, <2>7 DEF TossRead
    <2>8. CASE Confirm(r)
      <3>1. invoice' \in Invoices /\ session' \in Sessions
        BY <2>8, InvoiceFacts DEF Confirm, Invoices, Sessions, Amounts
      <3>2. booked' \in [Requests -> Amounts]
        BY <2>8 DEF Confirm
      <3> QED BY <1>0, <2>8, <3>1, <3>2 DEF Confirm
    <2>9. CASE EdgeWrite(r)
      <3> DEFINE inv == [Paid(request[r].inv, request[r].amount) EXCEPT !.amount = invoice.amount]
      <3>1. inv \in Invoices
        BY InvoiceFacts
      <3>2. /\ invoice' = inv /\ booked' = [booked EXCEPT ![r] = request[r].amount]
            /\ session' = [session EXCEPT !.note = NoteOf(inv), !.paid = inv.paid, !.unpaid = inv.unpaid]
            /\ UNCHANGED <<fee, stops, history>>
        BY <2>9 DEF EdgeWrite
      <3> HIDE DEF inv
      <3>3. session' \in Sessions
        <4>1. inv.paid \in Amounts /\ inv.unpaid \in Amounts
              /\ NoteOf(inv) \in {"none", "UNPAID", "PARTIALLY_PAID", "PAID"}
          BY <3>1 DEF Invoices, NoteOf
        <4> QED BY <3>2, <4>1 DEF Sessions
      <3> QED BY <1>0, <3>1, <3>2, <3>3
    <2>10. CASE Refund(r) \/ Cancel(r)
      <3>1. invoice' \in Invoices
        BY <2>10, InvoiceFacts DEF Refund, Cancel, Invoices, Amounts
      <3>2. session' \in Sessions
        <4>1. request[r].inv.amount \in Amounts /\ 0 \in Amounts
          BY InvoiceFacts DEF Amounts
        <4>2. CASE Refund(r)
          BY <2>10, <4>1, <4>2 DEF Refund, Sessions
        <4>3. CASE Cancel(r)
          BY <4>3 DEF Cancel
        <4> QED BY <2>10, <4>2, <4>3
      <3>3. booked' \in [Requests -> Amounts]
        BY <2>10 DEF Refund, Cancel, Amounts
      <3> QED BY <1>0, <2>10, <3>1, <3>2, <3>3 DEF Refund, Cancel
    <2>11. CASE Stop(r)
      BY <1>0, <2>11 DEF Stop
    <2> QED BY <1>5, <2>1, <2>2, <2>3, <2>4, <2>5, <2>6, <2>7, <2>8, <2>9, <2>10, <2>11 DEF Step
  <1>6. CASE FeeGrows
    BY <1>0, <1>6 DEF FeeGrows, TypeOK
  <1>7. CASE UNCHANGED vars
    BY <1>0, <1>7 DEF vars, TypeOK
  <1> HIDE DEF Rest
  <1> QED BY <1>1, <1>3, <1>4, <1>5, <1>6, <1>7 DEF Next

---------------------------------------------------------------------------
\* A request that takes a step was at work, or is a prepared payment.
LEMMA StepIsWork ==
  ASSUME NEW r \in Requests, Step(r) \/ Stop(r)
  PROVE  /\ request[r].pc # "new"
         /\ ~TossRead(r) => r \in Working /\ UNCHANGED overlapped
         /\ TossRead(r) => overlapped' = Beside(r)
  <1> USE DEF tables, history, At
  <1>1. CASE Stop(r)
    BY <1>1 DEF Stop, Working, TossRead
  <1>2. CASE TossRead(r)
    BY <1>2 DEF TossRead
  <1>3. CASE \/ EnsureRead(r) \/ EnsureWrite(r) \/ Record(r) \/ ApplyRead(r) \/ ApplyWrite(r)
             \/ SessionRead(r) \/ SessionWrite(r)
    BY <1>3 DEF EnsureRead, EnsureWrite, Record, ApplyRead, ApplyWrite, SessionRead,
                SessionWrite, Working, TossRead
  <1>4. CASE \/ Desk(r) \/ Confirm(r) \/ EdgeRead(r) \/ EdgeWrite(r) \/ Refund(r) \/ Cancel(r)
    BY <1>4 DEF Desk, Confirm, EdgeRead, EdgeWrite, Refund, Cancel, Working, TossRead
  <1> QED BY <1>1, <1>2, <1>3, <1>4 DEF Step

\* Whoever comes to work beside another is recorded, and so is the other.
LEMMA NextTogether == IInv /\ [Next]_vars => TogetherOverlap'
  <1> SUFFICES ASSUME IInv, [Next]_vars PROVE TogetherOverlap'
    OBVIOUS
  <1> USE TypeFacts
  <1>0. TypeOK /\ TogetherOverlap
    BY DEF IInv
  <1>1. ASSUME NEW r \in Requests, Working' \subseteq Working \cup {r}, overlapped' = Beside(r)
        PROVE  TogetherOverlap'
    BY <1>0, <1>1 DEF TogetherOverlap, Beside
  <1>2. ASSUME Working' \subseteq Working, UNCHANGED overlapped PROVE TogetherOverlap'
    BY <1>0, <1>2 DEF TogetherOverlap
  <1>3. ASSUME NEW r \in Requests, NEW row \in RequestRows, request' = [request EXCEPT ![r] = row]
        PROVE  Working' \subseteq Working \cup {r}
    BY <1>0, <1>3, RowType DEF Working
  <1>4. ASSUME NEW r \in Requests, Asked(r) PROVE TogetherOverlap'
    BY <1>0, <1>1, <1>3, <1>4, AskedRow
  <1>5. ASSUME NEW r \in Requests, Step(r) \/ Stop(r) PROVE TogetherOverlap'
    <2>1. Working' \subseteq Working \cup {r}
      BY <1>0, <1>3, <1>5, StepRow
    <2> QED BY <1>1, <1>2, <1>5, <2>1, StepIsWork
  <1>6. CASE FeeGrows \/ UNCHANGED vars
    BY <1>2, <1>6 DEF FeeGrows, vars, tables, history, Working
  <1> QED BY <1>4, <1>5, <1>6 DEF Next

\* What a step records: nothing for a request of the edge but its own amount.
LEMMA StepBooks ==
  ASSUME TypeOK, NEW r \in Requests, Step(r) \/ Stop(r)
  PROVE  \A q \in Requests :
           /\ q # r => booked'[q] = booked[q] \/ booked'[q] = 0
           /\ q = r /\ request[q].kind = "edge" =>
                \/ booked'[q] = booked[q]
                \/ request[q].pc = "edgeWrite" /\ booked'[q] = request[q].amount
                \/ booked'[q] = 0
  <1> USE TypeFacts DEF tables, history, At
  <1>1. CASE UNCHANGED booked
    BY <1>1
  <1>2. CASE Record(r)
    BY <1>2 DEF Record
  <1>3. CASE Desk(r)
    BY <1>3 DEF Desk
  <1>4. CASE Confirm(r)
    BY <1>4 DEF Confirm
  <1>5. CASE EdgeWrite(r)
    BY <1>5 DEF EdgeWrite
  <1>6. CASE Refund(r) \/ Cancel(r)
    BY <1>6 DEF Refund, Cancel
  <1>7. CASE \/ EnsureRead(r) \/ EnsureWrite(r) \/ ApplyRead(r) \/ ApplyWrite(r) \/ SessionRead(r)
             \/ SessionWrite(r) \/ TossRead(r) \/ EdgeRead(r) \/ Stop(r)
    BY <1>1, <1>7 DEF EnsureRead, EnsureWrite, ApplyRead, ApplyWrite, SessionRead, SessionWrite,
                      TossRead, EdgeRead, Stop
  <1> QED BY <1>2, <1>3, <1>4, <1>5, <1>6, <1>7 DEF Step

\* A claim is new only when EdgeRead has found no payment of the event.
LEMMA NextClaims == IInv /\ [Next]_vars => ClaimsOverlap' /\ NothingYet'
  <1> SUFFICES ASSUME IInv, [Next]_vars PROVE ClaimsOverlap' /\ NothingYet'
    OBVIOUS
  <1> USE TypeFacts
  <1>0. TypeOK /\ TogetherOverlap /\ ClaimsOverlap /\ NothingYet
    BY DEF IInv
  <1>1. ASSUME \A q \in Requests : Claims(q)' => Claims(q), overlapped \subseteq overlapped'
        PROVE  ClaimsOverlap'
    BY <1>0, <1>1 DEF ClaimsOverlap
  <1>2. ASSUME NEW r \in Requests, Asked(r) PROVE ClaimsOverlap' /\ NothingYet'
    <2>1. PICK row \in RequestRows : /\ request' = [request EXCEPT ![r] = row]
                                     /\ row.pc # "edgeWrite"
      BY <1>0, <1>2, AskedRow
    <2>2. request'[r] = row /\ \A q \in Requests \ {r} : request'[q] = request[q]
      BY <1>0, <2>1, RowType
    <2>3. booked' = booked /\ booked[r] = 0 /\ overlapped' = Beside(r)
      BY <1>0, <1>2, AskedRow DEF NothingYet, tables
    <2>4. \A q \in Requests : Claims(q)' => Claims(q)
      BY <2>1, <2>2, <2>3 DEF Claims
    <2>5. overlapped \subseteq overlapped'
      BY <2>3 DEF Beside
    <2>6. NothingYet'
      BY <1>0, <2>2, <2>3 DEF NothingYet
    <2> QED BY <1>1, <2>4, <2>5, <2>6
  <1>3. ASSUME NEW r \in Requests, Step(r) \/ Stop(r) PROVE ClaimsOverlap' /\ NothingYet'
    <2>1. PICK row \in RequestRows : /\ request' = [request EXCEPT ![r] = row]
                                     /\ row.kind = request[r].kind
                                     /\ row.pc \notin {"new", "tossRead"}
                                     /\ row.pc = "edgeWrite" =>
                                          /\ request[r].pc = "edgeRead"
                                          /\ request[r].kind = "edge"
                                          /\ booked' = booked /\ overlapped' = overlapped
                                          /\ BookedForEvent => row.amount = 0
      BY <1>0, <1>3, StepRow
    <2>2. request'[r] = row /\ \A q \in Requests \ {r} : request'[q] = request[q]
      BY <1>0, <2>1, RowType
    <2>3. overlapped \subseteq overlapped'
      BY <1>3, StepIsWork DEF Beside
    <2>4. NothingYet'
      <3>1. request'[r].pc # "new"
        BY <2>1, <2>2
      <3>2. \A q \in Requests \ {r} : booked'[q] = booked[q] \/ booked'[q] = 0
        BY <1>0, <1>3, StepBooks
      <3> QED BY <1>0, <2>2, <3>1, <3>2 DEF NothingYet
    <2>5. \A q \in Requests \ {r} : Claims(q)' => Claims(q)
      <3> SUFFICES ASSUME NEW q \in Requests \ {r}, Claims(q)' PROVE Claims(q)
        OBVIOUS
      <3>1. request'[q] = request[q] /\ (booked'[q] = booked[q] \/ booked'[q] = 0)
        BY <1>0, <1>3, <2>2, StepBooks
      <3> QED BY <3>1 DEF Claims
    <2>6. CASE row.pc # "edgeWrite"
      <3>1. Claims(r)' => Claims(r)
        <4> SUFFICES ASSUME Claims(r)' PROVE Claims(r)
          OBVIOUS
        <4>1. request[r].kind = "edge" /\ booked'[r] > 0
          BY <2>1, <2>2, <2>6 DEF Claims
        <4>2. \/ booked'[r] = booked[r] \/ booked'[r] = 0
              \/ request[r].pc = "edgeWrite" /\ booked'[r] = request[r].amount
          BY <1>0, <1>3, <4>1, StepBooks
        <4> QED BY <4>1, <4>2 DEF Claims
      <3> QED BY <1>1, <2>3, <2>4, <2>5, <3>1
    <2>7. CASE row.pc = "edgeWrite"
      <3>1. /\ request[r].pc = "edgeRead" /\ request[r].kind = "edge"
            /\ booked' = booked /\ overlapped' = overlapped /\ r \in Working
        BY <2>1, <2>7 DEF Working
      <3>2. CASE BookedForEvent
        <4>1. Claims(r)' => Claims(r)
          BY <2>1, <2>2, <2>7, <3>1, <3>2 DEF Claims, BookedForEvent
        <4> QED BY <1>1, <2>3, <2>4, <2>5, <4>1
      <3>3. CASE ~BookedForEvent
        <4>1. \A q \in Requests \ {r} : Claims(q)' => {q, r} \subseteq overlapped'
          <5> SUFFICES ASSUME NEW q \in Requests \ {r}, Claims(q)'
                       PROVE  {q, r} \subseteq overlapped'
            OBVIOUS
          <5>1. Claims(q)
            BY <2>5
          <5>2. request[q].pc = "edgeWrite"
            BY <3>3, <5>1 DEF Claims, BookedForEvent
          <5>3. q \in Working
            BY <5>2 DEF Working
          <5> QED BY <1>0, <3>1, <5>3 DEF TogetherOverlap
        <4>2. ClaimsOverlap'
          BY <1>0, <2>3, <2>5, <4>1 DEF ClaimsOverlap
        <4> QED BY <2>4, <4>2
      <3> QED BY <3>2, <3>3
    <2> QED BY <2>6, <2>7
  <1>4. CASE FeeGrows \/ UNCHANGED vars
    BY <1>0, <1>4 DEF FeeGrows, vars, tables, history, ClaimsOverlap, Claims, NothingYet
  <1> QED BY <1>2, <1>3, <1>4 DEF Next

---------------------------------------------------------------------------
(* What each step does to its request and to the tables.                   *)

\* Whoever is not r stays as it is.
Only(r) == \A q \in Requests \ {r} : request'[q] = request[q]

Came(r) == request'[r].inv = invoice /\ request'[r].ses = session

LEMMA OthersStay ==
  ASSUME TypeOK, NEW r \in Requests, Asked(r) \/ Step(r) \/ Stop(r)
  PROVE  /\ Only(r)
         /\ Step(r) \/ Stop(r) => request'[r].kind = request[r].kind /\ request'[r].pc # "new"
  <1> USE TypeFacts
  <1>1. CASE Asked(r)
    <2>1. \E row \in RequestRows : request' = [request EXCEPT ![r] = row]
      BY <1>1, AskedRow
    <2>2. request[r].pc = "new"
      BY <1>1, AskedRow
    <2>3. Only(r)
      BY <2>1, RowType DEF Only
    <2>4. ~Step(r) /\ ~Stop(r)
      BY <2>2, StepIsWork
    <2> QED BY <2>3, <2>4
  <1>2. CASE Step(r) \/ Stop(r)
    <2>1. PICK row \in RequestRows : /\ request' = [request EXCEPT ![r] = row]
                                     /\ row.kind = request[r].kind
                                     /\ row.pc \notin {"new", "tossRead"}
      BY <1>2, StepRow
    <2> QED BY <2>1, RowType DEF Only
  <1> QED BY <1>1, <1>2

LEMMA AskedDoes ==
  ASSUME TypeOK, NEW r \in Requests, Asked(r)
  PROVE  /\ request[r].pc = "new" /\ Came(r) /\ overlapped' = Beside(r)
         /\ request'[r].pc \in {"record", "ensureRead", "desk", "confirm", "tossRead", "refund"}
         /\ request'[r].pc \in {"record", "desk"} => request'[r].amount <= invoice.unpaid
         /\ UNCHANGED <<invoice, session, booked, fee, stops, broken, beyond, short, undone>>
  <1> USE TypeFacts
  <1>1. ASSUME NEW kind, NEW pc, NEW a, NEW of, Ask(r, kind, pc, a, of)
        PROVE  /\ request[r].pc = "new" /\ Came(r) /\ overlapped' = Beside(r)
               /\ request'[r].pc = pc /\ request'[r].amount = a
               /\ UNCHANGED <<invoice, session, booked, fee, stops, broken, beyond, short, undone>>
    BY <1>1 DEF Ask, Came, tables
  <1>2. \E kind, pc, a, of : /\ Ask(r, kind, pc, a, of)
                             /\ pc \in {"record", "ensureRead", "desk", "confirm", "tossRead", "refund"}
                             /\ pc \in {"record", "desk"} => a <= invoice.unpaid
    <2>1. CASE AskLink(r) \/ AskDesk(r)
      BY <2>1 DEF AskLink, AskDesk
    <2>2. CASE AskMember(r) \/ AskConfirm(r) \/ AskToss(r) \/ AskEdge(r)
      BY <2>2 DEF AskMember, AskConfirm, AskToss, AskEdge
    <2>3. CASE AskRefund(r) \/ AskCanceled(r)
      BY <2>3 DEF AskRefund, AskCanceled
    <2> QED BY <2>1, <2>2, <2>3 DEF Asked
  <1> QED BY <1>1, <1>2

LEMMA EnsureReadDoes ==
  ASSUME TypeOK, NEW r \in Requests, EnsureRead(r)
  PROVE  /\ request[r].pc = "ensureRead" /\ request'[r].pc = "ensureWrite"
         /\ request'[r].inv = invoice /\ request'[r].amount = fee
         /\ UNCHANGED <<invoice, session, booked, fee, history>>
  BY TypeFacts DEF EnsureRead, At, tables

LEMMA EnsureWriteDoes ==
  ASSUME TypeOK, NEW r \in Requests, EnsureWrite(r)
  PROVE  /\ request[r].pc = "ensureWrite" /\ request'[r].pc \in {"record", "edgeRead"}
         /\ request[r].kind \in {"member", "edge"}
         /\ invoice' = Repriced(request[r].inv, request[r].amount)
         /\ request'[r].pc = "record" => request'[r].inv = invoice'
         /\ UNCHANGED <<session, booked, fee, history>>
  <1> DEFINE inv == Repriced(request[r].inv, request[r].amount)
  <1>1. /\ invoice' = inv
        /\ \/ request' = [request EXCEPT ![r].pc = "edgeRead"]
           \/ \E a \in Payable(inv) :
                request' = [request EXCEPT ![r].pc = "record", ![r].inv = inv, ![r].amount = a]
    BY DEF EnsureWrite
  <1> HIDE DEF inv
  <1>2. request'[r].pc \in {"record", "edgeRead"} /\ (request'[r].pc = "record" => request'[r].inv = inv)
    <2>1. CASE request' = [request EXCEPT ![r].pc = "edgeRead"]
      <3>1. request'[r].pc = "edgeRead"
        BY <2>1, TypeFacts
      <3> QED BY <3>1
    <2>2. ASSUME NEW a,
                 request' = [request EXCEPT ![r].pc = "record", ![r].inv = inv, ![r].amount = a]
          PROVE  request'[r].pc = "record" /\ request'[r].inv = inv
      BY <2>2, TypeFacts
    <2> QED BY <1>1, <2>1, <2>2
  <1>3. request[r].pc = "ensureWrite" /\ request[r].kind \in {"member", "edge"}
    BY DEF EnsureWrite, At
  <1>4. UNCHANGED <<session, booked, fee, history>>
    BY DEF EnsureWrite
  <1> QED BY <1>1, <1>2, <1>3, <1>4 DEF inv

LEMMA RecordDoes ==
  ASSUME TypeOK, NEW r \in Requests, Record(r)
  PROVE  /\ request[r].pc = "record" /\ request'[r].pc = "applyRead"
         /\ request'[r].amount = request[r].amount
         /\ booked' = [booked EXCEPT ![r] = request[r].amount]
         /\ r \in beyond' \/ request[r].amount <= request[r].inv.unpaid
         /\ beyond \subseteq beyond'
         /\ UNCHANGED <<invoice, session, fee, overlapped, broken, short, undone>>
  <1>1. request[r].amount \in Nat /\ request[r].inv.unpaid \in Nat
    BY TypeFacts DEF Invoices, Amounts
  <1> QED BY <1>1, TypeFacts DEF Record, At, Go

LEMMA ApplyReadDoes ==
  ASSUME TypeOK, NEW r \in Requests, ApplyRead(r)
  PROVE  /\ request[r].pc = "applyRead" /\ request'[r].pc = "applyWrite"
         /\ request'[r].inv = invoice /\ request'[r].amount = request[r].amount
         /\ UNCHANGED <<invoice, session, booked, fee, history>>
  BY TypeFacts DEF ApplyRead, At, tables

\* The invoice once a has been added to what was read of it.
After(inv, a) ==
  [amount |-> invoice.amount, paid |-> Least(inv.amount, inv.paid + a),
   unpaid |-> Minus(inv.amount, inv.paid + a)]

LEMMA ApplyWriteDoes ==
  ASSUME TypeOK, NEW r \in Requests, ApplyWrite(r)
  PROVE  /\ request[r].pc = "applyWrite" /\ request'[r].pc \in {"sessionRead", "sessionWrite"}
         /\ invoice' = After(request[r].inv, request[r].amount)
         /\ request'[r].inv = invoice'
         /\ UNCHANGED <<session, booked, fee, history>>
  <1> DEFINE inv == [Paid(request[r].inv, request[r].amount) EXCEPT !.amount = invoice.amount]
             pc  == IF request[r].kind = "link" THEN "sessionRead" ELSE "sessionWrite"
  <1>1. /\ invoice' = inv
        /\ request' = [request EXCEPT ![r].pc = pc, ![r].inv = inv]
    BY DEF ApplyWrite
  <1>2. inv = After(request[r].inv, request[r].amount)
    BY DEF Paid, After
  <1>3. pc \in {"sessionRead", "sessionWrite"}
    OBVIOUS
  <1> HIDE DEF inv, pc
  <1>4. request'[r].pc = pc /\ request'[r].inv = inv
    BY <1>1, TypeFacts
  <1>5. request[r].pc = "applyWrite" /\ UNCHANGED <<session, booked, fee, history>>
    BY DEF ApplyWrite, At
  <1> QED BY <1>1, <1>2, <1>3, <1>4, <1>5

LEMMA SessionReadDoes ==
  ASSUME TypeOK, NEW r \in Requests, SessionRead(r)
  PROVE  /\ request[r].pc = "sessionRead" /\ request'[r].pc = "sessionWrite"
         /\ request'[r].inv = request[r].inv
         /\ UNCHANGED <<invoice, session, booked, fee, history>>
  BY TypeFacts DEF SessionRead, At, tables

LEMMA SessionWriteDoes ==
  ASSUME TypeOK, NEW r \in Requests, SessionWrite(r)
  PROVE  /\ request[r].pc = "sessionWrite" /\ request'[r].pc = "done"
         /\ session'.paid = request[r].inv.paid /\ session'.unpaid = request[r].inv.unpaid
         /\ UNCHANGED <<invoice, booked, fee, history>>
  BY TypeFacts DEF SessionWrite, At, Go

LEMMA DeskDoes ==
  ASSUME TypeOK, NEW r \in Requests, Desk(r)
  PROVE  /\ request[r].pc = "desk" /\ request'[r].pc = "done"
         /\ booked' = [booked EXCEPT ![r] = request[r].amount]
         /\ invoice' = [amount |-> invoice.amount, paid |-> request[r].inv.paid + request[r].amount,
                        unpaid |-> Minus(request[r].inv.unpaid, request[r].amount)]
         /\ session'.paid = request[r].ses.paid + request[r].amount
         /\ session'.unpaid = Minus(request[r].inv.unpaid, request[r].amount)
         /\ UNCHANGED <<fee, history>>
  BY TypeFacts DEF Desk, At, Go

LEMMA TossReadDoes ==
  ASSUME TypeOK, NEW r \in Requests, TossRead(r)
  PROVE  /\ request[r].pc = "tossRead" /\ request'[r].pc = "confirm"
         /\ request'[r].inv = invoice /\ overlapped' = Beside(r)
         /\ UNCHANGED <<invoice, session, booked, fee, broken, beyond, short, undone>>
  BY TypeFacts DEF TossRead, At, tables

LEMMA ConfirmDoes ==
  ASSUME TypeOK, NEW r \in Requests, Confirm(r)
  PROVE  /\ request[r].pc = "confirm" /\ request'[r].pc = "done"
         /\ booked' = [booked EXCEPT ![r] = request[r].amount]
         /\ invoice' = [amount |-> invoice.amount, paid |-> request[r].inv.amount, unpaid |-> 0]
         /\ session'.paid = request[r].inv.amount /\ session'.unpaid = 0
         /\ r \in beyond' \/ request[r].amount <= request[r].inv.unpaid
         /\ r \in short' \/ request[r].inv.unpaid <= request[r].amount
         /\ beyond \subseteq beyond' /\ short \subseteq short'
         /\ UNCHANGED <<fee, overlapped, broken, undone>>
  <1>1. request[r].amount \in Nat /\ request[r].inv.unpaid \in Nat
    BY TypeFacts DEF Invoices, Amounts
  <1>2. /\ r \in beyond' \/ request[r].amount <= request[r].inv.unpaid
        /\ r \in short' \/ request[r].inv.unpaid <= request[r].amount
        /\ beyond \subseteq beyond' /\ short \subseteq short'
    BY <1>1 DEF Confirm
  <1> QED BY <1>2, TypeFacts DEF Confirm, At, Go

LEMMA EdgeReadDoes ==
  ASSUME TypeOK, NEW r \in Requests, EdgeRead(r)
  PROVE  /\ request[r].pc = "edgeRead" /\ request'[r].pc = "edgeWrite"
         /\ request'[r].inv = invoice
         /\ request'[r].amount \in {0, Minus(Least(invoice.amount, EdgePaid), invoice.paid)}
         /\ UNCHANGED <<invoice, session, booked, fee, history>>
  <1> DEFINE a == IF BookedForEvent THEN 0
                  ELSE Minus(Least(invoice.amount, EdgePaid), invoice.paid)
  <1>1. request' = [request EXCEPT ![r].pc = "edgeWrite", ![r].inv = invoice, ![r].amount = a]
    BY DEF EdgeRead
  <1>2. a \in {0, Minus(Least(invoice.amount, EdgePaid), invoice.paid)}
    OBVIOUS
  <1> HIDE DEF a
  <1>3. request'[r].pc = "edgeWrite" /\ request'[r].inv = invoice /\ request'[r].amount = a
    BY <1>1, TypeFacts
  <1> QED BY <1>2, <1>3 DEF EdgeRead, At, tables

LEMMA EdgeWriteDoes ==
  ASSUME TypeOK, NEW r \in Requests, EdgeWrite(r)
  PROVE  /\ request[r].pc = "edgeWrite" /\ request'[r].pc = "done"
         /\ booked' = [booked EXCEPT ![r] = request[r].amount]
         /\ invoice' = After(request[r].inv, request[r].amount)
         /\ session'.paid = invoice'.paid /\ session'.unpaid = invoice'.unpaid
         /\ UNCHANGED <<fee, history>>
  <1> DEFINE inv == [Paid(request[r].inv, request[r].amount) EXCEPT !.amount = invoice.amount]
  <1>1. /\ invoice' = inv /\ booked' = [booked EXCEPT ![r] = request[r].amount]
        /\ session' = [session EXCEPT !.note = NoteOf(inv), !.paid = inv.paid, !.unpaid = inv.unpaid]
        /\ UNCHANGED <<fee, history>>
    BY DEF EdgeWrite
  <1>2. inv = After(request[r].inv, request[r].amount)
    BY DEF Paid, After
  <1> HIDE DEF inv
  <1>3. session'.paid = inv.paid /\ session'.unpaid = inv.unpaid
    BY <1>1, TypeFacts DEF Sessions
  <1>4. request[r].pc = "edgeWrite" /\ request'[r].pc = "done"
    BY TypeFacts DEF EdgeWrite, At, Go
  <1> QED BY <1>1, <1>2, <1>3, <1>4

LEMMA RefundDoes ==
  ASSUME TypeOK, NEW r \in Requests, Refund(r) \/ Cancel(r)
  PROVE  /\ request[r].pc = "refund" /\ request'[r].pc = "done"
         /\ undone'
         /\ \/ invoice' = invoice
            \/ invoice' = [amount |-> invoice.amount, paid |-> 0, unpaid |-> request[r].inv.amount]
         /\ UNCHANGED <<fee, overlapped, broken, beyond, short>>
  <1>1. CASE Refund(r)
    <2>1. request[r].pc = "refund" /\ Go(r, "done")
      BY <1>1 DEF Refund, At
    <2>2. request'[r].pc = "done"
      BY <2>1, TypeFacts DEF Go
    <2> QED BY <1>1, <2>1, <2>2 DEF Refund
  <1>2. CASE Cancel(r)
    <2>1. request[r].pc = "refund" /\ Go(r, "done")
      BY <1>2 DEF Cancel, At
    <2>2. request'[r].pc = "done"
      BY <2>1, TypeFacts DEF Go
    <2> QED BY <1>2, <2>1, <2>2 DEF Cancel
  <1> QED BY <1>1, <1>2

LEMMA StopDoes ==
  ASSUME TypeOK, NEW r \in Requests, Stop(r)
  PROVE  /\ r \in Working /\ request'[r].pc = "done" /\ broken' = broken \cup {r}
         /\ UNCHANGED <<invoice, session, booked, fee, overlapped, beyond, short, undone>>
  BY TypeFacts DEF Stop, Go, tables

---------------------------------------------------------------------------
(* The money.  A step of r either leaves the invoice alone, prices it anew *)
(* or enters r's amount on it.                                             *)

LEMMA Numbers ==
  ASSUME TypeOK
  PROVE  /\ invoice.amount \in Nat /\ invoice.paid \in Nat /\ invoice.unpaid \in Nat /\ fee \in Nat
         /\ \A r \in Requests : /\ request[r].inv.amount \in Nat /\ request[r].inv.paid \in Nat
                                /\ request[r].inv.unpaid \in Nat /\ request[r].amount \in Nat
                                /\ booked[r] \in Nat
  BY TypeFacts DEF Invoices, Amounts

Fits(r) == request[r].amount <= request[r].inv.unpaid

\* The other requests' money is as it was.
OnlyBooks(r) == \A q \in Requests \ {r} : booked'[q] = booked[q]

Reads(r) ==
  /\ invoice' = invoice
  /\ request'[r].pc \in Writing => request'[r].inv = invoice
  /\ request'[r].pc = "ensureWrite" => request'[r].amount = fee
  /\ request'[r].pc = "desk" => request'[r].amount <= invoice.unpaid
  /\ request'[r].pc = "edgeWrite" =>
       request'[r].amount \in {0, Minus(Least(invoice.amount, EdgePaid), invoice.paid)}
  /\ ~undone' => /\ r \in Entered' => r \in Entered \cup broken'
                 /\ booked' = booked \/ (OnlyBooks(r) /\ r \notin Entered')

Reprices(r) ==
  /\ request[r].pc = "ensureWrite" /\ request'[r].pc \in {"record", "edgeRead"}
  /\ request[r].kind \in {"member", "edge"}
  /\ invoice' = Repriced(request[r].inv, request[r].amount)
  /\ UNCHANGED <<booked, fee, overlapped>>

Enters(r) ==
  LET inv == request[r].inv
      a   == request[r].amount IN
  /\ request[r].pc \in {"applyWrite", "desk", "confirm", "edgeWrite", "refund"}
  /\ request'[r].pc \in {"sessionRead", "sessionWrite", "done"}
  /\ r \in Working /\ overlapped' = overlapped
  /\ invoice'.amount = invoice.amount
  /\ AddsUp(inv) /\ inv.amount = invoice.amount /\ (request[r].pc \in {"desk", "edgeWrite"} => Fits(r)) =>
       /\ AddsUp(invoice')
       /\ ~undone' => inv.paid <= invoice'.paid
       /\ ~undone' /\ short' = {} => invoice'.paid <= inv.paid + a
       /\ ~undone' /\ Fits(r) => inv.paid + a <= invoice'.paid
  /\ request[r].pc = "confirm" /\ r \notin beyond' => Fits(r)
  /\ ~undone' => OnlyBooks(r) /\ booked'[r] = a

\* What is recorded of a step that stops, is answered or is only prepared.
LEMMA AtWork ==
  \A r \in Requests : request[r].pc \in Writing => r \in Working /\ r \notin Entered
  BY DEF Writing, Working, Entered

LEMMA StepReads ==
  ASSUME TypeOK, NEW r \in Requests,
         \/ Asked(r) \/ EnsureRead(r) \/ Record(r) \/ ApplyRead(r) \/ SessionRead(r) \/ SessionWrite(r)
         \/ TossRead(r) \/ EdgeRead(r) \/ Cancel(r) \/ Stop(r)
  PROVE  Reads(r)
  <1>1. CASE Asked(r)
    <2>1. booked' = booked /\ invoice' = invoice /\ r \notin Entered'
      BY <1>1, AskedDoes DEF Entered
    <2> QED BY <1>1, <2>1, AskedDoes DEF Reads, Came
  <1>2. CASE EnsureRead(r)
    <2>1. r \notin Entered'
      BY <1>2, EnsureReadDoes DEF Entered
    <2> QED BY <1>2, <2>1, EnsureReadDoes DEF Reads
  <1>3. CASE Record(r)
    <2>1. r \notin Entered'
      BY <1>3, RecordDoes DEF Entered
    <2>2. OnlyBooks(r)
      BY <1>3, RecordDoes, TypeFacts DEF OnlyBooks
    <2> QED BY <1>3, <2>1, <2>2, RecordDoes DEF Reads, Writing
  <1>4. CASE ApplyRead(r)
    <2>1. r \notin Entered'
      BY <1>4, ApplyReadDoes DEF Entered
    <2> QED BY <1>4, <2>1, ApplyReadDoes DEF Reads
  <1>5. CASE SessionRead(r)
    <2>1. r \in Entered
      BY <1>5, SessionReadDoes DEF Entered
    <2> QED BY <1>5, <2>1, SessionReadDoes DEF Reads, Writing
  <1>6. CASE SessionWrite(r)
    <2>1. r \in Entered
      BY <1>6, SessionWriteDoes DEF Entered
    <2> QED BY <1>6, <2>1, SessionWriteDoes DEF Reads, Writing
  <1>7. CASE TossRead(r)
    <2>1. r \notin Entered'
      BY <1>7, TossReadDoes DEF Entered
    <2> QED BY <1>7, <2>1, TossReadDoes DEF Reads
  <1>8. CASE EdgeRead(r)
    <2>1. r \notin Entered'
      BY <1>8, EdgeReadDoes DEF Entered
    <2> QED BY <1>8, <2>1, EdgeReadDoes DEF Reads
  <1>9. CASE Cancel(r)
    <2>1. invoice' = invoice
      BY <1>9 DEF Cancel
    <2> QED BY <1>9, <2>1, RefundDoes DEF Reads, Writing
  <1>10. CASE Stop(r)
    <2>1. r \in broken'
      BY <1>10, StopDoes
    <2> QED BY <1>10, <2>1, StopDoes DEF Reads, Writing
  <1> QED BY <1>1, <1>2, <1>3, <1>4, <1>5, <1>6, <1>7, <1>8, <1>9, <1>10

LEMMA StepReprices ==
  ASSUME TypeOK, NEW r \in Requests, EnsureWrite(r)
  PROVE  Reprices(r)
  BY EnsureWriteDoes DEF Reprices, history

\* What After does to the paid and the unpaid.
LEMMA AfterAddsUp ==
  ASSUME TypeOK, NEW r \in Requests
  PROVE  LET inv == request[r].inv
             a   == request[r].amount
             new == After(inv, a) IN
         /\ new.amount = invoice.amount
         /\ AddsUp(inv) /\ inv.amount = invoice.amount =>
              /\ AddsUp(new) /\ inv.paid <= new.paid /\ new.paid <= inv.paid + a
              /\ Fits(r) => inv.paid + a <= new.paid
  BY Numbers DEF After, AddsUp, Fits, Least, Minus

LEMMA StepEnters ==
  ASSUME TypeOK, RecordedInTime, NEW r \in Requests,
         ApplyWrite(r) \/ Desk(r) \/ Confirm(r) \/ EdgeWrite(r) \/ Refund(r)
  PROVE  Enters(r)
  <1> DEFINE inv == request[r].inv
             a   == request[r].amount
  <1>0. inv.amount \in Nat /\ inv.paid \in Nat /\ inv.unpaid \in Nat /\ a \in Nat /\ invoice.amount \in Nat
    BY Numbers
  <1>b. booked' = [booked EXCEPT ![r] = a] => OnlyBooks(r) /\ booked'[r] = a
    BY TypeFacts DEF OnlyBooks
  <1>1. CASE ApplyWrite(r)
    <2>1. /\ request[r].pc = "applyWrite" /\ request'[r].pc \in {"sessionRead", "sessionWrite"}
          /\ invoice' = After(inv, a)
          /\ UNCHANGED <<booked, overlapped, undone>>
      BY <1>1, ApplyWriteDoes DEF history
    <2>2. r \in Working
      BY <2>1 DEF Working
    <2>3. ~undone' => OnlyBooks(r) /\ booked'[r] = a
      BY <2>1 DEF RecordedInTime, OnlyBooks
    <2> QED BY <2>1, <2>2, <2>3, AfterAddsUp DEF Enters
  <1>2. CASE Desk(r)
    <2>1. /\ request[r].pc = "desk" /\ request'[r].pc = "done"
          /\ invoice' = [amount |-> invoice.amount, paid |-> inv.paid + a, unpaid |-> Minus(inv.unpaid, a)]
          /\ booked' = [booked EXCEPT ![r] = a] /\ overlapped' = overlapped
      BY <1>2, DeskDoes DEF history
    <2>2. r \in Working
      BY <2>1 DEF Working
    <2>3. /\ invoice'.amount = invoice.amount /\ invoice'.paid = inv.paid + a
          /\ invoice'.unpaid = Minus(inv.unpaid, a)
      BY <2>1
    <2>4. AddsUp(inv) /\ inv.amount = invoice.amount /\ Fits(r) => AddsUp(invoice')
      BY <1>0, <2>3 DEF AddsUp, Fits, Minus
    <2>5. inv.paid <= invoice'.paid /\ invoice'.paid <= inv.paid + a /\ inv.paid + a <= invoice'.paid
      BY <1>0, <2>3
    <2> QED BY <1>b, <2>1, <2>2, <2>3, <2>4, <2>5 DEF Enters
  <1>3. CASE Confirm(r)
    <2>1. /\ request[r].pc = "confirm" /\ request'[r].pc = "done"
          /\ invoice' = [amount |-> invoice.amount, paid |-> inv.amount, unpaid |-> 0]
          /\ booked' = [booked EXCEPT ![r] = a] /\ overlapped' = overlapped
          /\ r \in beyond' \/ a <= inv.unpaid
          /\ r \in short' \/ inv.unpaid <= a
      BY <1>3, ConfirmDoes
    <2>2. r \in Working
      BY <2>1 DEF Working
    <2>3. invoice'.amount = invoice.amount /\ invoice'.paid = inv.amount /\ invoice'.unpaid = 0
      BY <2>1
    <2>4. r \notin beyond' => Fits(r)
      BY <2>1 DEF Fits
    <2>5. AddsUp(inv) /\ inv.amount = invoice.amount =>
            /\ AddsUp(invoice') /\ inv.paid <= invoice'.paid
            /\ short' = {} => invoice'.paid <= inv.paid + a
            /\ Fits(r) => inv.paid + a <= invoice'.paid
      BY <1>0, <2>1, <2>3 DEF AddsUp, Fits
    <2> QED BY <1>b, <2>1, <2>2, <2>3, <2>4, <2>5 DEF Enters
  <1>4. CASE EdgeWrite(r)
    <2>1. /\ request[r].pc = "edgeWrite" /\ request'[r].pc = "done"
          /\ invoice' = After(inv, a)
          /\ booked' = [booked EXCEPT ![r] = a] /\ overlapped' = overlapped
      BY <1>4, EdgeWriteDoes DEF history
    <2>2. r \in Working
      BY <2>1 DEF Working
    <2> QED BY <1>b, <2>1, <2>2, AfterAddsUp DEF Enters
  <1>5. CASE Refund(r)
    <2>1. /\ request[r].pc = "refund" /\ request'[r].pc = "done"
          /\ invoice' = [amount |-> invoice.amount, paid |-> 0, unpaid |-> inv.amount]
          /\ overlapped' = overlapped /\ undone'
      BY <1>5, RefundDoes DEF Refund
    <2>2. r \in Working
      BY <2>1 DEF Working
    <2>3. invoice'.amount = invoice.amount /\ invoice'.paid = 0 /\ invoice'.unpaid = inv.amount
      BY <2>1
    <2>4. inv.amount = invoice.amount => AddsUp(invoice')
      BY <1>0, <2>3 DEF AddsUp
    <2> QED BY <2>1, <2>2, <2>3, <2>4 DEF Enters
  <1> QED BY <1>1, <1>2, <1>3, <1>4, <1>5

LEMMA StepKinds ==
  ASSUME TypeOK, RecordedInTime, NEW r \in Requests, Asked(r) \/ Step(r) \/ Stop(r)
  PROVE  Reads(r) \/ Reprices(r) \/ Enters(r)
  BY StepReads, StepReprices, StepEnters DEF Step

\* Whoever is at work beside r after its step overlaps with it.
LEMMA Bystanders ==
  ASSUME IInv, NEW r \in Requests, Asked(r) \/ Step(r) \/ Stop(r)
  PROVE  \A q \in Requests \ {r} : q \in Working' \/ q \in Working => {q, r} \subseteq overlapped'
  <1>0. TypeOK
    BY DEF IInv
  <1> SUFFICES ASSUME NEW q \in Requests \ {r}, q \in Working' \/ q \in Working
               PROVE  {q, r} \subseteq overlapped'
    OBVIOUS
  <1>1. q \in Working
    BY <1>0, OthersStay DEF Only, Working
  <1>2. CASE Asked(r) \/ TossRead(r)
    <2>1. overlapped' = Beside(r)
      BY <1>0, <1>2, AskedDoes, TossReadDoes
    <2> QED BY <1>1, <2>1 DEF Beside
  <1>3. CASE ~Asked(r) /\ ~TossRead(r)
    <2>1. r \in Working /\ overlapped' = overlapped
      BY <1>3, StepIsWork
    <2> QED BY <1>1, <2>1 DEF IInv, TogetherOverlap
  <1> QED BY <1>2, <1>3

\* What has happened stays so.
LEMMA HistoryGrows ==
  ASSUME IInv, RecordedInTime, NEW r \in Requests, Asked(r) \/ Step(r) \/ Stop(r)
  PROVE  /\ overlapped \subseteq overlapped' /\ broken \subseteq broken'
         /\ beyond \subseteq beyond' /\ short \subseteq short' /\ (undone => undone')
         /\ fee' = fee
         /\ PricedAlone' => PricedAlone
         /\ Whole' => Whole
  <1>0. TypeOK
    BY DEF IInv
  <1>1. /\ overlapped \subseteq overlapped' /\ broken \subseteq broken'
        /\ beyond \subseteq beyond' /\ short \subseteq short' /\ (undone => undone') /\ fee' = fee
    <2>1. CASE Asked(r)
      BY <1>0, <2>1, AskedDoes DEF Beside
    <2>2. CASE \/ EnsureRead(r) \/ EnsureWrite(r) \/ ApplyRead(r) \/ ApplyWrite(r) \/ SessionRead(r)
               \/ SessionWrite(r) \/ Desk(r) \/ EdgeRead(r) \/ EdgeWrite(r)
      <3>1. UNCHANGED <<fee, history>>
        BY <1>0, <2>2, EnsureReadDoes, EnsureWriteDoes, ApplyReadDoes, ApplyWriteDoes, SessionReadDoes,
           SessionWriteDoes, DeskDoes, EdgeReadDoes, EdgeWriteDoes
      <3> QED BY <3>1 DEF history
    <2>3. CASE Record(r) \/ Confirm(r)
      BY <1>0, <2>3, RecordDoes, ConfirmDoes
    <2>4. CASE TossRead(r)
      BY <1>0, <2>4, TossReadDoes DEF Beside
    <2>5. CASE Refund(r) \/ Cancel(r) \/ Stop(r)
      BY <1>0, <2>5, RefundDoes, StopDoes
    <2> QED BY <2>1, <2>2, <2>3, <2>4, <2>5 DEF Step
  <1>2. PricedAlone' => PricedAlone
    <2>1. CASE fee = Fee
      BY <2>1 DEF PricedAlone
    <2>2. CASE fee # Fee
      <3> SUFFICES ASSUME PricedAlone', NEW q \in overlapped PROVE request[q].kind \notin {"member", "edge"}
        BY DEF PricedAlone
      <3>1. q \in Requests /\ q \in overlapped' /\ request[q].pc # "new"
        BY <1>0, <1>1 DEF TypeOK, RecordedInTime
      <3>2. request'[q].kind = request[q].kind
        BY <1>0, <3>1, OthersStay, AskedDoes DEF Only
      <3> QED BY <1>1, <2>2, <3>1, <3>2 DEF PricedAlone
    <2> QED BY <2>1, <2>2
  <1>3. Whole' => Whole
    BY <1>1 DEF Whole
  <1> QED BY <1>1, <1>2, <1>3

LEMMA NextRecorded == IInv /\ RecordedInTime /\ [Next]_vars => RecordedInTime'
  <1> SUFFICES ASSUME IInv, RecordedInTime, [Next]_vars PROVE RecordedInTime'
    OBVIOUS
  <1>0. TypeOK /\ overlapped \subseteq Requests
    BY DEF IInv, TypeOK
  <1>1. CASE FeeGrows \/ UNCHANGED vars
    BY <1>1 DEF FeeGrows, vars, tables, history, RecordedInTime
  <1>2. ASSUME NEW r \in Requests, Asked(r) \/ Step(r) \/ Stop(r) PROVE RecordedInTime'
    <2>1. \A q \in overlapped' : request'[q].pc # "new"
      <3> SUFFICES ASSUME NEW q \in overlapped' PROVE request'[q].pc # "new"
        OBVIOUS
      <3>1. q \in overlapped \cup Working \cup {r}
        <4>1. overlapped' = overlapped \/ overlapped' = Beside(r)
          BY <1>0, <1>2, AskedDoes, TossReadDoes, StepIsWork
        <4> QED BY <4>1 DEF Beside
      <3>2. CASE q = r
        BY <1>0, <1>2, <3>2, AskedDoes, OthersStay
      <3>3. CASE q # r
        <4>1. q \in Requests /\ request[q].pc # "new"
          BY <1>0, <3>1, <3>3 DEF RecordedInTime, Working
        <4> QED BY <1>0, <1>2, <3>3, <4>1, OthersStay DEF Only
      <3> QED BY <3>2, <3>3
    <2>2. /\ request'[r].pc = "tossRead" => booked'[r] = 0
          /\ request'[r].pc \in {"applyRead", "applyWrite"} /\ ~undone' => booked'[r] = request'[r].amount
      <3>1. CASE Asked(r)
        <4>1. request[r].pc = "new" /\ booked' = booked /\ request'[r].pc \notin {"applyRead", "applyWrite"}
          BY <1>0, <3>1, AskedDoes
        <4> QED BY <4>1 DEF IInv, NothingYet
      <3>2. CASE Record(r)
        BY <1>0, <3>2, RecordDoes, TypeFacts
      <3>3. CASE ApplyRead(r)
        BY <1>0, <3>3, ApplyReadDoes DEF RecordedInTime, history
      <3>4. CASE \/ EnsureRead(r) \/ EnsureWrite(r) \/ ApplyWrite(r) \/ SessionRead(r)
                 \/ SessionWrite(r) \/ Desk(r) \/ TossRead(r) \/ Confirm(r)
        <4>1. request'[r].pc \notin {"tossRead", "applyRead", "applyWrite"}
          BY <1>0, <3>4, EnsureReadDoes, EnsureWriteDoes, ApplyWriteDoes, SessionReadDoes, SessionWriteDoes,
             DeskDoes, TossReadDoes, ConfirmDoes
        <4> QED BY <4>1
      <3>5. CASE EdgeRead(r) \/ EdgeWrite(r) \/ Refund(r) \/ Cancel(r) \/ Stop(r)
        <4>1. request'[r].pc \notin {"tossRead", "applyRead", "applyWrite"}
          BY <1>0, <3>5, EdgeReadDoes, EdgeWriteDoes, RefundDoes, StopDoes
        <4> QED BY <4>1
      <3> QED BY <1>2, <3>1, <3>2, <3>3, <3>4, <3>5 DEF Step
    <2>3. ASSUME NEW q \in Requests \ {r}
          PROVE  /\ request'[q].pc = "tossRead" => booked'[q] = 0
                 /\ request'[q].pc \in {"applyRead", "applyWrite"} /\ ~undone' => booked'[q] = request'[q].amount
      <3>1. request'[q] = request[q]
        BY <1>0, <1>2, OthersStay DEF Only
      <3>2. (booked'[q] = booked[q] \/ booked'[q] = 0) /\ (~undone' => booked'[q] = booked[q])
        <4>1. booked'[q] = booked[q] \/ booked'[q] = 0
          BY <1>0, <1>2, StepBooks, AskedDoes
        <4>2. ~undone' => booked'[q] = booked[q]
          <5>1. Reads(r) \/ Reprices(r) \/ Enters(r)
            BY <1>0, <1>2, StepKinds
          <5> QED BY <5>1 DEF Reads, Reprices, Enters, OnlyBooks
        <4> QED BY <4>1, <4>2
      <3>3. undone => undone'
        BY <1>2, HistoryGrows
      <3> QED BY <3>1, <3>2, <3>3 DEF RecordedInTime
    <2> QED BY <2>1, <2>2, <2>3 DEF RecordedInTime
  <1> QED BY <1>1, <1>2 DEF Next

LEMMA NextBooksAddUp == IInv /\ MoneyInv /\ [Next]_vars => BooksAddUp'
  <1> SUFFICES ASSUME IInv, MoneyInv, [Next]_vars PROVE BooksAddUp'
    OBVIOUS
  <1>0. TypeOK /\ RecordedInTime /\ BooksAddUp
    BY DEF IInv, MoneyInv
  <1>1. CASE UNCHANGED vars
    BY <1>0, <1>1 DEF vars, history, BooksAddUp, PricedAlone
  <1>2. CASE FeeGrows
    <2> SUFFICES ASSUME PricedAlone'
                 PROVE  BooksAddUp'
      BY DEF BooksAddUp
    <2>1. fee' = FeeLater /\ fee = Fee /\ fee' # Fee
      BY <1>0, <1>2 DEF FeeGrows, TypeOK
    <2>2. UNCHANGED <<invoice, request, overlapped>>
      BY <1>2 DEF FeeGrows, tables, history
    <2>3. PricedAlone
      BY <2>1 DEF PricedAlone
    <2>4. \A n \in Nat : n <= fee => n <= fee'
      BY <2>1, FeeAssumption
    <2> QED BY <1>0, <2>2, <2>3, <2>4, Numbers DEF BooksAddUp
  <1>3. ASSUME NEW r \in Requests, Asked(r) \/ Step(r) \/ Stop(r) PROVE BooksAddUp'
    <2> SUFFICES ASSUME PricedAlone' PROVE BooksAddUp'
      BY DEF BooksAddUp
    <2>0. PricedAlone /\ fee' = fee
      BY <1>0, <1>3, HistoryGrows
    <2>1. /\ AddsUp(invoice) /\ Fee <= invoice.amount /\ invoice.amount <= fee
          /\ \A q \in Requests :
               /\ request[q].pc = "ensureWrite" =>
                    invoice.amount <= request[q].amount /\ request[q].amount <= fee
               /\ request[q].pc \in Writing => AddsUp(request[q].inv) /\ request[q].inv.amount = invoice.amount
               /\ request[q].pc \in {"desk", "edgeWrite"} => request[q].amount <= request[q].inv.unpaid
      BY <1>0, <2>0 DEF BooksAddUp
    <2>2. \A q \in Requests \ {r} : request'[q] = request[q]
      BY <1>0, <1>3, OthersStay DEF Only
    <2>3. CASE Reads(r)
      <3>1. invoice' = invoice
        BY <2>3 DEF Reads
      <3>2. request'[r].pc = "ensureWrite" =>
              invoice.amount <= request'[r].amount /\ request'[r].amount <= fee
        BY <1>0, <2>1, <2>3, Numbers DEF Reads
      <3>3. request'[r].pc \in Writing => request'[r].inv = invoice
        BY <2>3 DEF Reads
      <3>4. request'[r].pc \in {"desk", "edgeWrite"} => request'[r].amount <= request'[r].inv.unpaid
        <4>1. request'[r].pc = "desk" => request'[r].amount <= request'[r].inv.unpaid
          BY <2>3, <3>3 DEF Reads, Writing
        <4>2. request'[r].pc = "edgeWrite" => request'[r].amount <= request'[r].inv.unpaid
          <5> SUFFICES ASSUME request'[r].pc = "edgeWrite"
                       PROVE  request'[r].amount <= invoice.unpaid
            BY <3>3 DEF Writing
          <5>1. request'[r].amount \in {0, Minus(Least(invoice.amount, EdgePaid), invoice.paid)}
            BY <2>3 DEF Reads
          <5>2. Minus(Least(invoice.amount, EdgePaid), invoice.paid) <= invoice.unpaid
            BY <1>0, <2>1, Numbers, FeeAssumption DEF AddsUp, Minus, Least
          <5> QED BY <1>0, <5>1, <5>2, Numbers
        <4> QED BY <4>1, <4>2
      <3> QED BY <2>0, <2>1, <2>2, <3>1, <3>2, <3>3, <3>4 DEF BooksAddUp
    <2>4. CASE Enters(r)
      <3>1. request[r].pc \in Writing /\ request'[r].pc \notin Writing \cup {"ensureWrite", "desk", "edgeWrite"}
        BY <2>4 DEF Enters, Writing
      <3>2. request[r].pc \in {"desk", "edgeWrite"} => Fits(r)
        BY <2>1 DEF Fits
      <3>3. invoice'.amount = invoice.amount /\ AddsUp(invoice')
        BY <2>1, <2>4, <3>1, <3>2 DEF Enters
      <3>4. AddsUp(invoice)'
        BY <3>3 DEF AddsUp
      <3> QED BY <2>0, <2>1, <2>2, <3>1, <3>3, <3>4 DEF BooksAddUp
    <2>5. CASE Reprices(r)
      <3> DEFINE inv == request[r].inv
                 f   == request[r].amount
      <3>1. /\ request[r].pc = "ensureWrite" /\ request'[r].pc \in {"record", "edgeRead"}
            /\ invoice' = [amount |-> f, paid |-> inv.paid, unpaid |-> Minus(f, inv.paid)]
        BY <2>5 DEF Reprices, Repriced
      <3>2. request[r].pc \in Writing /\ request'[r].pc \notin Writing \cup {"ensureWrite", "desk", "edgeWrite"}
        BY <3>1 DEF Writing
      <3>3. invoice.amount <= f /\ f <= fee /\ AddsUp(inv) /\ inv.amount = invoice.amount
        BY <2>1, <3>1, <3>2
      <3>4. invoice'.amount = f /\ invoice'.paid = inv.paid /\ invoice'.unpaid = Minus(f, inv.paid)
        BY <3>1
      <3>5. AddsUp(invoice')
        BY <1>0, <3>3, <3>4, Numbers DEF AddsUp, Minus
      <3>6. Fee <= invoice'.amount /\ invoice'.amount <= fee
        BY <1>0, <2>1, <3>3, <3>4, Numbers, FeeAssumption
      <3>7. ASSUME NEW q \in Requests \ {r}, request[q].pc \in Writing PROVE invoice'.amount = invoice.amount
        <4>1. CASE fee = Fee
          BY <1>0, <2>1, <3>3, <3>4, <4>1, Numbers, FeeAssumption
        <4>2. CASE fee # Fee
          <5>1. r \in overlapped'
            BY <1>3, <3>7, AtWork, Bystanders
          <5>2. request'[r].kind \in {"member", "edge"}
            <6>1. request[r].kind \in {"member", "edge"} /\ ~Asked(r)
              BY <1>0, <2>5, <3>1, AskedDoes DEF Reprices
            <6> QED BY <1>0, <1>3, <6>1, OthersStay
          <5> QED BY <2>0, <4>2, <5>1, <5>2 DEF PricedAlone
        <4> QED BY <4>1, <4>2
      <3>8. ASSUME NEW q \in Requests \ {r}
            PROVE  /\ request'[q].pc = "ensureWrite" =>
                        invoice'.amount <= request'[q].amount /\ request'[q].amount <= fee
                   /\ request'[q].pc \in Writing =>
                        AddsUp(request'[q].inv) /\ request'[q].inv.amount = invoice'.amount
                   /\ request'[q].pc \in {"desk", "edgeWrite"} => request'[q].amount <= request'[q].inv.unpaid
        BY <2>1, <2>2, <3>7 DEF Writing
      <3>9. AddsUp(invoice)' /\ \A q \in Requests : AddsUp(request[q].inv)' <=> AddsUp(request'[q].inv)
        BY <3>5 DEF AddsUp
      <3> QED BY <2>0, <3>2, <3>6, <3>8, <3>9 DEF BooksAddUp
    <2> QED BY <1>0, <1>3, <2>3, <2>4, <2>5, StepKinds
  <1> QED BY <1>1, <1>2, <1>3 DEF Next

LEMMA NextReadStands == IInv /\ MoneyInv /\ [Next]_vars => ReadStands'
  <1> SUFFICES ASSUME IInv, MoneyInv, [Next]_vars PROVE ReadStands'
    OBVIOUS
  <1>0. TypeOK /\ RecordedInTime /\ ReadStands
    BY DEF IInv, MoneyInv
  <1>1. CASE FeeGrows \/ UNCHANGED vars
    BY <1>0, <1>1 DEF FeeGrows, vars, tables, history, ReadStands, Working
  <1>2. ASSUME NEW r \in Requests, Asked(r) \/ Step(r) \/ Stop(r) PROVE ReadStands'
    <2>1. SUFFICES ASSUME r \in Working' \ overlapped'
                   PROVE  /\ request'[r].pc \in Writing \cup {"record", "sessionRead", "sessionWrite"} =>
                               request'[r].inv = invoice'
                          /\ request'[r].pc \in {"applyRead", "applyWrite"} /\ r \notin beyond' =>
                               request'[r].amount <= invoice'.unpaid
      <3>1. \A q \in Working' \ overlapped' : q = r
        <4>1. \A q \in Working' : q \in Requests
          BY DEF Working
        <4> QED BY <1>2, <4>1, Bystanders
      <3> QED BY <3>1 DEF ReadStands
    <2>2. overlapped \subseteq overlapped' /\ beyond \subseteq beyond'
      BY <1>0, <1>2, HistoryGrows
    <2>3. r \in Working =>
            /\ request[r].pc \in Writing \cup {"record", "sessionRead", "sessionWrite"} =>
                 request[r].inv = invoice
            /\ request[r].pc \in {"applyRead", "applyWrite"} /\ r \notin beyond =>
                 request[r].amount <= invoice.unpaid
      BY <1>0, <2>1, <2>2 DEF ReadStands
    <2>4. CASE Asked(r)
      BY <1>0, <2>4, AskedDoes DEF Came, Writing
    <2>5. CASE EnsureRead(r)
      BY <1>0, <2>5, EnsureReadDoes
    <2>6. CASE EnsureWrite(r)
      BY <1>0, <2>6, EnsureWriteDoes DEF Writing
    <2>7. CASE Record(r)
      <3>1. request[r].pc = "record" /\ r \in Working
        BY <1>0, <2>7, RecordDoes DEF Working
      <3> QED BY <1>0, <2>3, <2>7, <3>1, RecordDoes DEF Writing
    <2>8. CASE ApplyRead(r)
      <3>1. request[r].pc = "applyRead" /\ r \in Working
        BY <1>0, <2>8, ApplyReadDoes DEF Working
      <3> QED BY <1>0, <2>2, <2>3, <2>8, <3>1, ApplyReadDoes
    <2>9. CASE ApplyWrite(r)
      BY <1>0, <2>9, ApplyWriteDoes
    <2>10. CASE SessionRead(r)
      <3>1. request[r].pc = "sessionRead" /\ r \in Working
        BY <1>0, <2>10, SessionReadDoes DEF Working
      <3> QED BY <1>0, <2>3, <2>10, <3>1, SessionReadDoes
    <2>11. CASE SessionWrite(r) \/ Desk(r) \/ Confirm(r) \/ EdgeWrite(r) \/ Refund(r) \/ Cancel(r) \/ Stop(r)
      <3>1. request'[r].pc = "done"
        BY <1>0, <2>11, SessionWriteDoes, DeskDoes, ConfirmDoes, EdgeWriteDoes, RefundDoes, StopDoes
      <3> QED BY <2>1, <3>1 DEF Working
    <2>12. CASE TossRead(r)
      BY <1>0, <2>12, TossReadDoes
    <2>13. CASE EdgeRead(r)
      BY <1>0, <2>13, EdgeReadDoes
    <2> QED BY <1>2, <2>4, <2>5, <2>6, <2>7, <2>8, <2>9, <2>10, <2>11, <2>12, <2>13 DEF Step
  <1> QED BY <1>1, <1>2 DEF Next

\* Sums of what requests have recorded, before and after a step.
LEMMA TotalsOfStep ==
  ASSUME TypeOK, TypeOK', NEW S \in SUBSET Requests, NEW T \in SUBSET Requests
  PROVE  /\ Total(booked, S) \in Nat /\ Total(booked', T) \in Nat
         /\ S \subseteq T /\ (\A q \in S : booked'[q] = booked[q]) => Total(booked, S) <= Total(booked', T)
         /\ T \subseteq S /\ (\A q \in T : booked'[q] = booked[q]) => Total(booked', T) <= Total(booked, S)
         /\ \A r \in T : Total(booked', T) = booked'[r] + Total(booked', T \ {r})
  <1>1. booked \in [Requests -> Nat] /\ booked' \in [Requests -> Nat]
    BY DEF TypeOK, Amounts
  <1>2. Total(booked, S) \in Nat /\ Total(booked', T) \in Nat
    BY <1>1, RequestsAssumption, TotalIsNat
  <1>3. \A q \in Requests : booked[q] <= booked[q]
    BY <1>1
  <1>4. S \subseteq T /\ (\A q \in S : booked'[q] = booked[q]) => Total(booked, S) <= Total(booked', T)
    BY <1>1, <1>3, RequestsAssumption, TotalGrows
  <1>5. T \subseteq S /\ (\A q \in T : booked'[q] = booked[q]) => Total(booked', T) <= Total(booked, S)
    BY <1>1, <1>3, RequestsAssumption, TotalGrows
  <1>6. \A r \in T : Total(booked', T) = booked'[r] + Total(booked', T \ {r})
    BY <1>1, RequestsAssumption, TotalTakes
  <1> QED BY <1>2, <1>4, <1>5, <1>6

\* The sums of the invariant, after a step.
LEMMA MoneyAfter ==
  MoneyOf(Entered)' = Total(booked', Entered') /\ MoneyOf(Kept)' = Total(booked', Kept')
  BY DEF MoneyOf, MapThenSumSet, MapThenFoldSet, Total, Sums, One

LEMMA EnteredGrows ==
  ASSUME TypeOK, NEW r \in Requests, Asked(r) \/ Step(r) \/ Stop(r)
  PROVE  /\ Entered \in SUBSET Requests /\ Kept \in SUBSET Requests
         /\ Entered' \in SUBSET Requests /\ Kept' \in SUBSET Requests
         /\ \A q \in Requests \ {r} : q \in Entered' <=> q \in Entered
  <1>1. Only(r)
    BY OthersStay
  <1> QED BY <1>1 DEF Entered, Kept, Only

LEMMA NextNoMore == IInv /\ MoneyInv /\ [Next]_vars => NoMoreThanEntered'
  <1> SUFFICES ASSUME IInv, MoneyInv, [Next]_vars PROVE NoMoreThanEntered'
    OBVIOUS
  <1>0. TypeOK /\ TypeOK' /\ RecordedInTime /\ BooksAddUp /\ NoMoreThanEntered
    BY NextTypeOK DEF IInv, MoneyInv
  <1> DEFINE N  == Total(booked, Entered)
             N1 == Total(booked', Entered')
  <1>a. /\ NoMoreThanEntered' <=>
             (PricedAlone' /\ ~undone' /\ short' = {} =>
                /\ invoice'.paid <= N1
                /\ \A q \in Requests : request'[q].pc \in Writing => request'[q].inv.paid <= N1)
        /\ NoMoreThanEntered <=>
             (PricedAlone /\ ~undone /\ short = {} =>
                /\ invoice.paid <= N
                /\ \A q \in Requests : request[q].pc \in Writing => request[q].inv.paid <= N)
    BY MoneyIsTotal, MoneyAfter DEF NoMoreThanEntered
  <1>1. CASE UNCHANGED vars
    BY <1>0, <1>1, <1>a DEF vars, history, Entered, PricedAlone
  <1>2. CASE FeeGrows
    <2>1. PricedAlone' => PricedAlone
      BY <1>0, <1>2 DEF FeeGrows, PricedAlone, TypeOK
    <2> QED BY <1>0, <1>2, <1>a, <2>1 DEF FeeGrows, tables, history, Entered
  <1>3. ASSUME NEW r \in Requests, Asked(r) \/ Step(r) \/ Stop(r) PROVE NoMoreThanEntered'
    <2> SUFFICES ASSUME PricedAlone', ~undone', short' = {}
                 PROVE  /\ invoice'.paid <= N1
                        /\ \A q \in Requests : request'[q].pc \in Writing => request'[q].inv.paid <= N1
      BY <1>a
    <2>0. PricedAlone /\ ~undone /\ short = {}
      BY <1>0, <1>3, HistoryGrows
    <2>1. /\ invoice.paid <= N
          /\ \A q \in Requests : request[q].pc \in Writing => request[q].inv.paid <= N
      BY <1>0, <1>a, <2>0
    <2>2. Only(r) /\ TypeOK'
      BY <1>0, <1>3, OthersStay
    <2>3. /\ Entered \in SUBSET Requests /\ Entered' \in SUBSET Requests
          /\ \A q \in Requests \ {r} : q \in Entered' <=> q \in Entered
      BY <1>0, <1>3, EnteredGrows
    <2>4. N \in Nat /\ N1 \in Nat /\ (r \in Entered' => N1 = booked'[r] + Total(booked', Entered' \ {r}))
      <3>1. N \in Nat
        BY <1>0, <2>3, TotalsOfStep
      <3> QED BY <1>0, <2>3, <3>1, TotalsOfStep
    <2>5. r \in Entered => r \in Entered'
      <3> SUFFICES ASSUME r \in Entered PROVE r \in Entered'
        OBVIOUS
      <3>1. ~Asked(r) /\ ~TossRead(r)
        BY <1>0, AskedDoes, TossReadDoes DEF Entered
      <3>2. SessionRead(r) \/ SessionWrite(r) \/ Stop(r)
        BY <1>3, <3>1 DEF Step, Entered, EnsureRead, EnsureWrite, Record, ApplyRead, ApplyWrite, Desk, Confirm,
                          EdgeRead, EdgeWrite, Refund, Cancel, At
      <3> QED BY <1>0, <3>2, SessionReadDoes, SessionWriteDoes, StopDoes DEF Entered
    <2>6. /\ invoice.paid \in Nat
          /\ \A q \in Requests : /\ request[q].inv.paid \in Nat /\ request[q].amount \in Nat
      BY <1>0, Numbers
    <2>7. CASE Reads(r) \/ Reprices(r)
      <3>1. N <= N1
        <4>1. \A q \in Entered : booked'[q] = booked[q]
          BY <2>3, <2>5, <2>7 DEF Reads, Reprices, OnlyBooks
        <4>2. Entered \subseteq Entered'
          BY <2>3, <2>5
        <4> QED BY <1>0, <2>3, <4>1, <4>2, TotalsOfStep
      <3>2. invoice'.paid <= N
        <4>1. CASE Reads(r)
          BY <2>1, <4>1 DEF Reads
        <4>2. CASE Reprices(r)
          <5>1. request[r].pc \in Writing /\ invoice'.paid = request[r].inv.paid
            BY <4>2 DEF Reprices, Repriced, Writing
          <5> QED BY <2>1, <5>1
        <4> QED BY <2>7, <4>1, <4>2
      <3>3. ASSUME NEW q \in Requests, request'[q].pc \in Writing PROVE request'[q].inv.paid <= N
        <4>1. CASE q # r
          <5>1. request'[q] = request[q]
            BY <2>2, <4>1 DEF Only
          <5> QED BY <2>1, <3>3, <5>1
        <4>2. CASE q = r
          BY <2>1, <2>7, <3>3, <4>2 DEF Reads, Reprices, Writing
        <4> QED BY <4>1, <4>2
      <3>4. \A n : n \in Nat /\ n <= N => n <= N1
        BY <2>4, <3>1
      <3>5. invoice'.paid \in Nat /\ \A q \in Requests : request'[q].inv.paid \in Nat
        <4>1. TypeOK'
          BY <1>0
        <4> QED BY <4>1 DEF TypeOK, Invoices, Amounts
      <3> QED BY <3>2, <3>3, <3>4, <3>5
    <2>8. CASE Enters(r)
      <3> DEFINE inv == request[r].inv
                 a   == request[r].amount
      <3>1. /\ r \in Working /\ r \notin Entered /\ request[r].pc \in Writing
            /\ r \in Entered' /\ OnlyBooks(r) /\ booked'[r] = a
            /\ request'[r].pc \notin Writing
        BY <2>8 DEF Enters, Writing, Entered
      <3>2. N <= Total(booked', Entered' \ {r})
        <4>1. \A q \in Entered : booked'[q] = booked[q]
          BY <2>3, <3>1 DEF OnlyBooks
        <4>2. Entered \subseteq Entered' \ {r} /\ Entered' \ {r} \in SUBSET Requests
          BY <2>3, <3>1
        <4> QED BY <1>0, <2>3, <4>1, <4>2, TotalsOfStep
      <3>3. Total(booked', Entered' \ {r}) \in Nat
        <4>1. Entered' \ {r} \in SUBSET Requests
          BY <2>3
        <4> QED BY <1>0, <4>1, TotalsOfStep
      <3>4. N + a <= N1
        BY <2>4, <2>6, <3>1, <3>2, <3>3
      <3>5. invoice'.paid <= inv.paid + a
        <4>1. AddsUp(inv) /\ inv.amount = invoice.amount /\ (request[r].pc \in {"desk", "edgeWrite"} => Fits(r))
          BY <1>0, <2>0, <3>1 DEF BooksAddUp, Fits
        <4> QED BY <2>8, <4>1 DEF Enters
      <3>6. invoice'.paid \in Nat
        <4>1. TypeOK'
          BY <1>0
        <4> QED BY <4>1 DEF TypeOK, Invoices, Amounts
      <3>7. invoice'.paid <= N1
        BY <2>1, <2>4, <2>6, <3>1, <3>4, <3>5, <3>6
      <3>8. ASSUME NEW q \in Requests, request'[q].pc \in Writing PROVE request'[q].inv.paid <= N1
        <4>1. q # r /\ request'[q] = request[q]
          BY <2>2, <3>1, <3>8 DEF Only
        <4> QED BY <2>1, <2>4, <2>6, <3>4, <3>8, <4>1
      <3> QED BY <3>7, <3>8
    <2> QED BY <1>0, <1>3, <2>7, <2>8, StepKinds
  <1> QED BY <1>1, <1>2, <1>3 DEF Next

LEMMA NextNoLess == IInv /\ MoneyInv /\ [Next]_vars => NoLessThanKept'
  <1> SUFFICES ASSUME IInv, MoneyInv, [Next]_vars PROVE NoLessThanKept'
    OBVIOUS
  <1>0. TypeOK /\ TypeOK' /\ RecordedInTime /\ BooksAddUp /\ ReadStands /\ NoLessThanKept
    BY NextTypeOK DEF IInv, MoneyInv
  <1> DEFINE K  == Total(booked, Kept)
             K1 == Total(booked', Kept')
  <1>a. /\ NoLessThanKept' <=>
             (PricedAlone' /\ ~undone' =>
                /\ K1 <= invoice'.paid
                /\ \A q \in Requests : request'[q].pc \in Writing => K1 <= request'[q].inv.paid)
        /\ NoLessThanKept <=>
             (PricedAlone /\ ~undone =>
                /\ K <= invoice.paid
                /\ \A q \in Requests : request[q].pc \in Writing => K <= request[q].inv.paid)
    BY MoneyIsTotal, MoneyAfter DEF NoLessThanKept
  <1>1. CASE UNCHANGED vars
    BY <1>0, <1>1, <1>a DEF vars, history, Kept, Entered, PricedAlone
  <1>2. CASE FeeGrows
    <2>1. PricedAlone' => PricedAlone
      BY <1>0, <1>2 DEF FeeGrows, PricedAlone, TypeOK
    <2> QED BY <1>0, <1>2, <1>a, <2>1 DEF FeeGrows, tables, history, Kept, Entered
  <1>3. ASSUME NEW r \in Requests, Asked(r) \/ Step(r) \/ Stop(r) PROVE NoLessThanKept'
    <2> SUFFICES ASSUME PricedAlone', ~undone'
                 PROVE  /\ K1 <= invoice'.paid
                        /\ \A q \in Requests : request'[q].pc \in Writing => K1 <= request'[q].inv.paid
      BY <1>a
    <2>0. PricedAlone /\ ~undone /\ overlapped \subseteq overlapped' /\ broken \subseteq broken'
          /\ beyond \subseteq beyond'
      BY <1>0, <1>3, HistoryGrows
    <2>1. /\ K <= invoice.paid
          /\ \A q \in Requests : request[q].pc \in Writing => K <= request[q].inv.paid
      BY <1>0, <1>a, <2>0
    <2>2. Only(r)
      BY <1>0, <1>3, OthersStay
    <2>3. /\ Kept \in SUBSET Requests /\ Kept' \in SUBSET Requests
          /\ \A q \in Requests \ {r} : q \in Entered' <=> q \in Entered
      BY <1>0, <1>3, EnteredGrows
    <2>4. K \in Nat /\ K1 \in Nat
      <3>1. K \in Nat
        BY <1>0, <2>3, TotalsOfStep
      <3> QED BY <1>0, <2>3, <3>1, TotalsOfStep
    <2>5. Kept' \ {r} \subseteq Kept
      BY <2>0, <2>3 DEF Kept
    <2>6. /\ invoice.paid \in Nat /\ invoice'.paid \in Nat
          /\ \A q \in Requests : /\ request[q].inv.paid \in Nat /\ request[q].amount \in Nat
                                 /\ request'[q].inv.paid \in Nat
      <3>1. TypeOK'
        BY <1>0
      <3>2. invoice'.paid \in Nat /\ \A q \in Requests : request'[q].inv.paid \in Nat
        BY <3>1 DEF TypeOK, Invoices, Amounts
      <3> QED BY <1>0, <3>2, Numbers
    <2>7. CASE Reads(r) \/ Reprices(r)
      <3>1. K1 <= K
        <4>1. r \in Kept' => r \in Kept
          <5>1. CASE Reads(r)
            BY <2>0, <5>1 DEF Reads, Kept
          <5>2. CASE Reprices(r)
            BY <5>2 DEF Reprices, Kept, Entered
          <5> QED BY <2>7, <5>1, <5>2
        <4>2. \A q \in Kept' : booked'[q] = booked[q]
          <5>1. Kept' \subseteq Entered'
            BY DEF Kept
          <5>2. booked' = booked \/ (OnlyBooks(r) /\ r \notin Entered')
            BY <2>7 DEF Reads, Reprices
          <5> QED BY <2>3, <5>1, <5>2 DEF OnlyBooks
        <4>3. Kept' \subseteq Kept
          BY <2>5, <4>1
        <4> QED BY <1>0, <2>3, <4>2, <4>3, TotalsOfStep
      <3>2. K <= invoice'.paid
        <4>1. CASE Reads(r)
          BY <2>1, <4>1 DEF Reads
        <4>2. CASE Reprices(r)
          <5>1. request[r].pc \in Writing /\ invoice'.paid = request[r].inv.paid
            BY <4>2 DEF Reprices, Repriced, Writing
          <5> QED BY <2>1, <5>1
        <4> QED BY <2>7, <4>1, <4>2
      <3>3. ASSUME NEW q \in Requests, request'[q].pc \in Writing PROVE K <= request'[q].inv.paid
        <4>1. CASE q # r
          <5>1. request'[q] = request[q]
            BY <2>2, <4>1 DEF Only
          <5> QED BY <2>1, <3>3, <5>1
        <4>2. CASE q = r
          BY <2>1, <2>7, <3>3, <4>2 DEF Reads, Reprices, Writing
        <4> QED BY <4>1, <4>2
      <3>4. \A n \in Nat : K <= n => K1 <= n
        BY <2>4, <3>1
      <3> QED BY <2>6, <3>2, <3>3, <3>4
    <2>8. CASE Enters(r)
      <3> DEFINE inv == request[r].inv
                 a   == request[r].amount
      <3>1. /\ r \in Working /\ r \notin Entered /\ request[r].pc \in Writing
            /\ OnlyBooks(r) /\ booked'[r] = a /\ overlapped' = overlapped
            /\ request'[r].pc \notin Writing
        BY <2>8 DEF Enters, Writing, Entered
      <3>2. AddsUp(inv) /\ inv.amount = invoice.amount /\ (request[r].pc \in {"desk", "edgeWrite"} => Fits(r))
        BY <1>0, <2>0, <3>1 DEF BooksAddUp, Fits
      <3>3. inv.paid <= invoice'.paid /\ (Fits(r) => inv.paid + a <= invoice'.paid)
        BY <2>8, <3>2 DEF Enters
      <3>4. \A q \in Kept' \ {r} : booked'[q] = booked[q]
        BY <2>3, <3>1 DEF OnlyBooks
      <3>5. CASE r \notin Kept'
        <4>1. K1 <= K
          <5>1. Kept' \subseteq Kept /\ \A q \in Kept' : booked'[q] = booked[q]
            BY <2>5, <3>4, <3>5
          <5> QED BY <1>0, <2>3, <5>1, TotalsOfStep
        <4>2. K1 <= invoice'.paid
          BY <2>1, <2>4, <2>6, <3>1, <3>3, <4>1
        <4>3. ASSUME NEW q \in Requests, request'[q].pc \in Writing PROVE K1 <= request'[q].inv.paid
          <5>1. q # r /\ request'[q] = request[q]
            BY <2>2, <3>1, <4>3 DEF Only
          <5> QED BY <2>1, <2>4, <2>6, <4>1, <4>3, <5>1
        <4> QED BY <4>2, <4>3
      <3>6. CASE r \in Kept'
        <4>1. r \notin overlapped' /\ r \notin beyond'
          BY <3>6 DEF Kept
        <4>2. Fits(r)
          <5>1. CASE request[r].pc = "applyWrite"
            <6>1. r \in Working \ overlapped /\ r \notin beyond
              BY <2>0, <3>1, <4>1
            <6>2. inv = invoice /\ a <= invoice.unpaid
              BY <1>0, <5>1, <6>1 DEF ReadStands, Writing
            <6> QED BY <6>2 DEF Fits
          <5>2. CASE request[r].pc = "confirm"
            BY <2>8, <4>1, <5>2 DEF Enters
          <5>3. CASE request[r].pc = "refund"
            <6>1. Refund(r) \/ Cancel(r) \/ Stop(r)
              <7>1. ~Asked(r) /\ ~TossRead(r)
                BY <1>0, <5>3, AskedDoes, TossReadDoes
              <7> QED BY <1>3, <5>3, <7>1
                      DEF Step, EnsureRead, EnsureWrite, Record, ApplyRead, ApplyWrite, SessionRead,
                          SessionWrite, Desk, Confirm, EdgeRead, EdgeWrite, At
            <6>2. Stop(r)
              BY <1>0, <6>1, RefundDoes
            <6>3. r \in broken'
              BY <1>0, <6>2, StopDoes
            <6> QED BY <3>6, <6>3 DEF Kept
          <5> QED BY <2>8, <3>2, <5>1, <5>2, <5>3 DEF Enters
        <4>3. K1 = a + Total(booked', Kept' \ {r}) /\ Total(booked', Kept' \ {r}) \in Nat
          <5>1. Kept' \ {r} \in SUBSET Requests
            BY <2>3
          <5>2. K1 = booked'[r] + Total(booked', Kept' \ {r})
            BY <1>0, <2>3, <3>6, TotalsOfStep
          <5> QED BY <1>0, <3>1, <5>1, <5>2, TotalsOfStep
        <4>4. Total(booked', Kept' \ {r}) <= K
          <5>1. Kept' \ {r} \in SUBSET Requests
            BY <2>3
          <5> QED BY <1>0, <2>3, <2>5, <3>4, <5>1, TotalsOfStep
        <4>5. K1 <= invoice'.paid
          BY <2>1, <2>4, <2>6, <3>1, <3>3, <4>2, <4>3, <4>4
        <4>6. \A q \in Requests : request'[q].pc \notin Writing
          <5> SUFFICES ASSUME NEW q \in Requests, request'[q].pc \in Writing PROVE FALSE
            OBVIOUS
          <5>1. q # r /\ request'[q] = request[q]
            BY <2>2, <3>1 DEF Only
          <5>2. q \in Working
            BY <5>1, AtWork
          <5> QED BY <1>3, <4>1, <5>1, <5>2, Bystanders
        <4> QED BY <4>5, <4>6
      <3> QED BY <3>5, <3>6
    <2> QED BY <1>0, <1>3, <2>7, <2>8, StepKinds
  <1> QED BY <1>1, <1>2, <1>3 DEF Next

\* Where r may be while the session does not show the invoice.
Between == {"record", "applyRead", "applyWrite", "sessionRead", "sessionWrite", "edgeRead", "edgeWrite"}

LEMMA NextInStep == IInv /\ MoneyInv /\ [Next]_vars => SessionInStep'
  <1> SUFFICES ASSUME IInv, MoneyInv, [Next]_vars PROVE SessionInStep'
    OBVIOUS
  <1>0. TypeOK /\ RecordedInTime /\ BooksAddUp /\ ReadStands /\ SessionInStep
    BY DEF IInv, MoneyInv
  <1>1. CASE FeeGrows \/ UNCHANGED vars
    BY <1>0, <1>1 DEF FeeGrows, vars, tables, history, SessionInStep, Whole, Working
  <1>2. ASSUME NEW r \in Requests, Asked(r) \/ Step(r) \/ Stop(r) PROVE SessionInStep'
    <2> SUFFICES ASSUME Whole' PROVE SessionInStep'
      BY DEF SessionInStep
    <2>0. Whole /\ overlapped' = {} /\ overlapped = {} /\ broken' = {} /\ ~undone'
      BY <1>0, <1>2, HistoryGrows DEF Whole
    <2>1. \A q \in Requests \ {r} : q \notin Working /\ q \notin Working'
      BY <1>2, <2>0, Bystanders
    <2>2. Working \subseteq {r} /\ Working' \subseteq {r}
      <3>1. Working \subseteq Requests /\ Working' \subseteq Requests
        BY DEF Working
      <3> QED BY <2>1, <3>1
    <2>3. \/ session.paid = invoice.paid /\ session.unpaid = invoice.unpaid
          \/ r \in Working /\ request[r].pc \in Between
      BY <1>0, <2>0, <2>2 DEF SessionInStep, Between
    <2>4. r \in Working /\ request[r].pc = "desk" => request[r].ses.paid = request[r].inv.paid
      BY <1>0, <2>0 DEF SessionInStep
    <2>5. r \in Working /\ request[r].pc \in Writing \cup {"sessionWrite"} => request[r].inv = invoice
      BY <1>0, <2>0 DEF ReadStands
    <2>6. SUFFICES /\ request'[r].pc = "desk" => request'[r].ses.paid = request'[r].inv.paid
                   /\ \/ session'.paid = invoice'.paid /\ session'.unpaid = invoice'.unpaid
                      \/ r \in Working' /\ request'[r].pc \in Between
      BY <2>2 DEF SessionInStep, Between
    <2>7. ASSUME request'[r].pc \in Between PROVE r \in Working'
      BY <2>7 DEF Working, Between
    <2>8. CASE Asked(r)
      <3>1. request[r].pc \notin Between
        BY <1>0, <2>8, AskedDoes DEF Between
      <3> QED BY <1>0, <2>3, <2>8, <3>1, AskedDoes DEF Came
    <2>9. CASE EnsureRead(r) \/ TossRead(r)
      <3>1. request[r].pc \notin Between /\ request'[r].pc # "desk" /\ UNCHANGED <<invoice, session>>
        BY <1>0, <2>9, EnsureReadDoes, TossReadDoes DEF Between
      <3> QED BY <2>3, <3>1
    <2>10. CASE EnsureWrite(r) \/ Record(r) \/ ApplyRead(r) \/ ApplyWrite(r) \/ SessionRead(r) \/ EdgeRead(r)
      <3>1. request'[r].pc \in Between /\ request'[r].pc # "desk"
        BY <1>0, <2>10, EnsureWriteDoes, RecordDoes, ApplyReadDoes, ApplyWriteDoes, SessionReadDoes,
           EdgeReadDoes DEF Between
      <3> QED BY <2>7, <3>1
    <2>11. CASE SessionWrite(r)
      <3>1. request[r].pc = "sessionWrite" /\ r \in Working
        BY <1>0, <2>11, SessionWriteDoes DEF Working
      <3> QED BY <1>0, <2>5, <2>11, <3>1, SessionWriteDoes
    <2>12. CASE Desk(r)
      <3>1. request[r].pc = "desk" /\ r \in Working
        BY <1>0, <2>12, DeskDoes DEF Working
      <3> QED BY <1>0, <2>4, <2>12, <3>1, DeskDoes
    <2>13. CASE Confirm(r)
      BY <1>0, <2>13, ConfirmDoes
    <2>14. CASE EdgeWrite(r)
      BY <1>0, <2>14, EdgeWriteDoes
    <2>15. CASE Refund(r) \/ Cancel(r) \/ Stop(r)
      BY <1>0, <2>0, <2>15, RefundDoes, StopDoes
    <2> QED BY <1>2, <2>8, <2>9, <2>10, <2>11, <2>12, <2>13, <2>14, <2>15 DEF Step
  <1> QED BY <1>1, <1>2 DEF Next

LEMMA InitMoneyInv == Init => MoneyInv
  <1> SUFFICES ASSUME Init PROVE MoneyInv
    OBVIOUS
  <1>1. /\ \A r \in Requests : request[r].pc = "new" /\ booked[r] = 0
        /\ overlapped = {} /\ invoice = Issued /\ fee = Fee
        /\ session.paid = 0 /\ session.unpaid = Fee
    BY DEF Init, Request0, Left, Parked
  <1>2. invoice.amount = Fee /\ invoice.paid = 0 /\ invoice.unpaid = Fee
    BY <1>1 DEF Issued
  <1>3. RecordedInTime
    BY <1>1 DEF RecordedInTime
  <1>4. BooksAddUp
    BY <1>1, <1>2, FeeAssumption DEF BooksAddUp, AddsUp, Writing
  <1>5. Working = {} /\ Entered = {} /\ Kept = {}
    BY <1>1 DEF Working, Entered, Kept
  <1>6. MoneyOf(Entered) = 0 /\ MoneyOf(Kept) = 0
    BY <1>5, MoneyIsTotal, TotalOfNone
  <1>7. ReadStands
    BY <1>5 DEF ReadStands
  <1>8. NoMoreThanEntered /\ NoLessThanKept
    BY <1>1, <1>2, <1>6 DEF NoMoreThanEntered, NoLessThanKept, Writing
  <1>9. SessionInStep
    BY <1>1, <1>2, <1>5 DEF SessionInStep
  <1> QED BY <1>3, <1>4, <1>7, <1>8, <1>9 DEF MoneyInv

---------------------------------------------------------------------------
\* IInv holds at first and every step keeps it.
THEOREM SpecIInv == Spec => []IInv
  <1>1. IInv /\ [Next]_vars => IInv'
    <2> SUFFICES ASSUME IInv, [Next]_vars PROVE IInv'
      OBVIOUS
    <2>1. TypeOK'
      BY NextTypeOK DEF IInv
    <2>2. TogetherOverlap' /\ ClaimsOverlap' /\ NothingYet'
      BY NextTogether, NextClaims
    <2> QED BY <2>1, <2>2 DEF IInv
  <1> QED BY InitIInv, <1>1, PTL DEF Spec

\* Type correctness of the invoice, the session and the requests.
THEOREM SpecTypeOK == Spec => []TypeOK
  <1>1. IInv => TypeOK
    BY DEF IInv
  <1> QED BY SpecIInv, <1>1, PTL

\* However often the edge pushes its paid exit, and whatever else is paid or
\* stops, createCloudInvoiceForEdgePaidExit records its payment once, unless two
\* of the pushes were carried out at once.
THEOREM SpecEdgePaymentOnce == Spec => []EdgePaymentOnce
  <1>1. IInv => EdgePaymentOnce
    BY DEF IInv, ClaimsOverlap, Claims, EdgePaymentOnce
  <1> QED BY SpecIInv, <1>1, PTL

\* What is known of the money holds at first and every step keeps it.
THEOREM SpecMoneyInv == Spec => [](IInv /\ MoneyInv)
  <1>1. Init => IInv /\ MoneyInv
    BY InitIInv, InitMoneyInv
  <1>2. IInv /\ MoneyInv /\ [Next]_vars => (IInv /\ MoneyInv)'
    <2> SUFFICES ASSUME IInv, MoneyInv, [Next]_vars PROVE IInv' /\ MoneyInv'
      OBVIOUS
    <2>1. IInv'
      BY NextTypeOK, NextTogether, NextClaims DEF IInv
    <2>2. RecordedInTime'
      BY NextRecorded DEF MoneyInv
    <2>3. BooksAddUp' /\ ReadStands' /\ NoMoreThanEntered' /\ NoLessThanKept' /\ SessionInStep'
      BY NextBooksAddUp, NextReadStands, NextNoMore, NextNoLess, NextInStep
    <2> QED BY <2>1, <2>2, <2>3 DEF MoneyInv
  <1> QED BY <1>1, <1>2, PTL DEF Spec

\* What the requests recorded, as sums over a finite set.
LEMMA RecordedSums ==
  ASSUME TypeOK, NEW S \in SUBSET Requests, NEW T \in SUBSET Requests
  PROVE  /\ MoneyOf(S) = Total(booked, S) /\ MoneyOf(S) \in Nat
         /\ S \subseteq T => MoneyOf(S) <= MoneyOf(T)
         /\ (\A q \in Requests \ S : booked[q] = 0) => Money = MoneyOf(S)
  <1>1. booked \in [Requests -> Nat] /\ Requests \in SUBSET Requests
    BY DEF TypeOK, Amounts
  <1>2. \A q \in Requests : booked[q] <= booked[q]
    BY <1>1
  <1>3. /\ MoneyOf(S) = Total(booked, S) /\ MoneyOf(T) = Total(booked, T)
        /\ Money = Total(booked, Requests)
    BY MoneyIsTotal DEF Money
  <1>4. Total(booked, S) \in Nat
    BY <1>1, RequestsAssumption, TotalIsNat
  <1>5. S \subseteq T => Total(booked, S) <= Total(booked, T)
    BY <1>1, <1>2, RequestsAssumption, TotalGrows
  <1>6. (\A q \in Requests \ S : booked[q] = 0) => Total(booked, Requests) = Total(booked, S)
    BY <1>1, RequestsAssumption, TotalOfSome
  <1> QED BY <1>3, <1>4, <1>5, <1>6

\* The invoice never shows more than mockPayInvoice, applyPayment, the confirms, the
\* collector and the edge have recorded, whatever overlaps or stops half-way, unless a
\* payment was undone, confirmed for a new price, or the invoice was priced anew beside
\* another request.
THEOREM SpecPaidWithinMoney == Spec => []PaidWithinMoney
  <1>1. IInv /\ MoneyInv => PaidWithinMoney
    <2> SUFFICES ASSUME IInv, MoneyInv, PricedAlone, ~undone, short = {}
                 PROVE  invoice.paid <= Money
      BY DEF PaidWithinMoney
    <2>1. TypeOK /\ invoice.paid <= MoneyOf(Entered)
      BY DEF IInv, MoneyInv, NoMoreThanEntered
    <2>2. Entered \in SUBSET Requests /\ Requests \in SUBSET Requests
      BY DEF Entered
    <2>3. /\ MoneyOf(Entered) \in Nat /\ Money \in Nat /\ MoneyOf(Entered) <= Money
          /\ invoice.paid \in Nat
      BY <2>1, <2>2, RecordedSums, Numbers DEF Money
    <2> QED BY <2>1, <2>3
  <1> QED BY SpecMoneyInv, <1>1, PTL

\* Money a request recorded while no other was at work stays on the invoice, whatever
\* overlaps or stops afterwards, unless a payment was undone or the invoice was priced anew
\* beside another request.
THEOREM SpecLonelyMoneyKept == Spec => []LonelyMoneyKept
  <1>1. IInv /\ MoneyInv => LonelyMoneyKept
    <2> DEFINE lonely == {r \in Requests : /\ request[r].pc = "done"
                                           /\ r \notin overlapped \cup broken \cup beyond}
    <2> SUFFICES ASSUME IInv, MoneyInv, PricedAlone, ~undone
                 PROVE  MoneyOf(lonely) <= invoice.paid
      BY DEF LonelyMoneyKept
    <2>1. TypeOK /\ MoneyOf(Kept) <= invoice.paid
      BY DEF IInv, MoneyInv, NoLessThanKept
    <2>2. lonely \subseteq Kept /\ lonely \in SUBSET Requests /\ Kept \in SUBSET Requests
      BY DEF Kept, Entered
    <2> HIDE DEF lonely
    <2>3. /\ MoneyOf(lonely) \in Nat /\ MoneyOf(Kept) \in Nat /\ MoneyOf(lonely) <= MoneyOf(Kept)
          /\ invoice.paid \in Nat
      BY <2>1, <2>2, RecordedSums, Numbers
    <2> QED BY <2>1, <2>3
  <1> QED BY SpecMoneyInv, <1>1, PTL

\* Requests that come one after the other and all end leave an invoice that shows what was
\* recorded and adds up, and a session that shows the invoice.
THEOREM SpecQuietBooksAgree == Spec => []QuietBooksAgree
  <1>1. IInv /\ MoneyInv => QuietBooksAgree
    <2> SUFFICES ASSUME IInv, MoneyInv, Whole, Working = {}
                 PROVE  /\ invoice.paid = Money
                        /\ invoice.unpaid = Minus(invoice.amount, invoice.paid)
                        /\ session.paid = invoice.paid
                        /\ session.unpaid = invoice.unpaid
      BY DEF QuietBooksAgree
    <2>0. TypeOK /\ RecordedInTime /\ BooksAddUp /\ NoMoreThanEntered /\ NoLessThanKept /\ SessionInStep
      BY DEF IInv, MoneyInv
    <2>1. overlapped = {} /\ broken = {} /\ beyond = {} /\ short = {} /\ ~undone
      BY DEF Whole
    <2>2. PricedAlone
      BY <2>1 DEF PricedAlone
    <2>3. Kept = Entered
      BY <2>1 DEF Kept
    <2>4. \A q \in Requests \ Entered : booked[q] = 0
      <3>1. \A q \in Requests : request[q].pc \in {"new", "tossRead", "done"}
        BY DEF Working
      <3>2. \A q \in Requests : request[q].pc = "new" => booked[q] = 0
        BY DEF IInv, NothingYet
      <3> QED BY <2>0, <3>1, <3>2 DEF Entered, RecordedInTime
    <2>5. Entered \in SUBSET Requests
      BY DEF Entered
    <2>6. Money = MoneyOf(Entered) /\ MoneyOf(Entered) \in Nat
      BY <2>0, <2>4, <2>5, RecordedSums
    <2>7. MoneyOf(Entered) <= invoice.paid
      BY <2>0, <2>1, <2>2, <2>3 DEF NoLessThanKept
    <2>8. invoice.paid <= MoneyOf(Entered)
      BY <2>0, <2>1, <2>2 DEF NoMoreThanEntered
    <2>9. invoice.paid = Money
      BY <2>0, <2>6, <2>7, <2>8, Numbers
    <2>10. invoice.unpaid = Minus(invoice.amount, invoice.paid)
      <3>1. invoice.paid + invoice.unpaid = invoice.amount
        BY <2>0, <2>2 DEF BooksAddUp, AddsUp
      <3> QED BY <2>0, <3>1, Numbers DEF Minus
    <2>11. session.paid = invoice.paid /\ session.unpaid = invoice.unpaid
      BY <2>0 DEF SessionInStep
    <2> QED BY <2>9, <2>10, <2>11
  <1> QED BY SpecMoneyInv, <1>1, PTL
=============================================================================
