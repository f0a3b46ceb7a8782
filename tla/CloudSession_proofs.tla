------------------------- MODULE CloudSession_proofs -------------------------
(***************************************************************************)
(* Proofs about the session on the cloud, for every feed of the edge, any  *)
(* number of handlers and any number of faults: an exited session stays    *)
(* closed unless two of its writers ran at once, an exit the edge drops    *)
(* has been applied, and the space shows the newest event.                 *)
(***************************************************************************)
EXTENDS CloudSession, TLAPS

Kinds == {"ENTERED", "EXITED", "UNPAID", "SPACE"}
Tasks == [pc    : {"idle", "read", "apply", "reread", "invoice", "mark"},
          event : Events \cup {0},
          seen  : SessionRows]

\* What the assumptions say of one event.
LEMMA FeedFacts ==
  /\ Events \subseteq Nat
  /\ \A e \in Events :
       /\ Feed[e].kind \in Kinds
       /\ Feed[e].visit \in Sessions
       /\ Feed[e].at \in Nat
       /\ Feed[e].at > 0 /\ Feed[e].at # 0
       /\ Feed[e].kind = "ENTERED" => Feed[e].status = "ACTIVE"
       /\ Feed[e].kind = "EXITED"  => Feed[e].status \in {"CLOSED", "PAID"}
       /\ Feed[e].kind = "SPACE"   => Feed[e].status \in {"EMPTY", "OCCUPIED"}
  <1> DEFINE Payloads == [kind : Kinds, visit : Sessions, at : Nat \ {0},
                          status : {"ACTIVE", "CLOSED", "PAID", "EMPTY", "OCCUPIED"}]
  <1>1. Feed \in Seq(Payloads)
    BY FeedAssumption DEF Kinds
  <1>2. Events = 1 .. Len(Feed) /\ Len(Feed) \in Nat
    BY <1>1 DEF Events
  <1>3. \A e \in Events : Feed[e] \in Payloads
    <2> HIDE DEF Payloads
    <2> QED BY <1>1, <1>2
  <1>4. ASSUME NEW e \in Events
        PROVE  /\ Feed[e].kind = "ENTERED" => Feed[e].status = "ACTIVE"
               /\ Feed[e].kind = "EXITED"  => Feed[e].status \in {"CLOSED", "PAID"}
               /\ Feed[e].kind = "SPACE"   => Feed[e].status \in {"EMPTY", "OCCUPIED"}
    <2>1. Feed[e].status \in CASE Feed[e].kind = "ENTERED" -> {"ACTIVE"}
                               [] Feed[e].kind = "EXITED"  -> {"CLOSED", "PAID"}
                               [] Feed[e].kind = "UNPAID"  -> {"CLOSED"}
                               [] Feed[e].kind = "SPACE"   -> {"EMPTY", "OCCUPIED"}
      BY PayloadAssumption
    <2> QED BY <2>1
  <1> QED BY <1>2, <1>3, <1>4

\* A visit's entry is older than its exit.
LEMMA EntryBeforeExit ==
  \A d, e \in Events :
     Feed[d].visit = Feed[e].visit /\ Feed[d].kind = "ENTERED" /\ Feed[e].kind = "EXITED"
     => Feed[d].at < Feed[e].at
  BY PayloadAssumption

\* What Go does to the tasks.
LEMMA GoFacts ==
  ASSUME task \in [Handlers -> Tasks], NEW h \in Handlers, NEW pc, NEW row, Go(h, pc, row)
  PROVE  /\ task'[h].pc = pc /\ task'[h].event = task[h].event /\ task'[h].seen = row
         /\ \A g \in Handlers \ {h} : task'[g] = task[g]
         /\ pc \in {"read", "apply", "reread", "invoice", "mark"} /\ row \in SessionRows
            => task' \in [Handlers -> Tasks]
  <1> DEFINE new == [task[h] EXCEPT !.pc = pc, !.seen = row]
  <1>1. task' = [task EXCEPT ![h] = new]
    BY DEF Go
  <1>2. new.pc = pc /\ new.event = task[h].event /\ new.seen = row
    BY DEF Tasks
  <1>3. pc \in {"read", "apply", "reread", "invoice", "mark"} /\ row \in SessionRows
        => new \in Tasks
    BY DEF Tasks
  <1> HIDE DEF new
  <1> QED BY <1>1, <1>2, <1>3

---------------------------------------------------------------------------
\* The initial state: nothing has come yet.
LEMMA InitIInv == Init => IInv
  <1> SUFFICES ASSUME Init PROVE IInv
    OBVIOUS
  <1> USE DEF Init, Missing, Idle, NoPayer
  <1>1. TypeOK
    BY DEF TypeOK, SessionRows
  <1>2. StepsFit /\ OneWriter /\ DoneWasApplied
    BY BoundsAssumption DEF StepsFit, OneWriter, DoneWasApplied, AckedExitWasApplied, WorksOn,
                            Busy, At
  <1>3. ClockKnown
    BY FeedFacts, BoundsAssumption DEF ClockKnown, WorksOn, Busy
  <1>4. ClockPastEntry /\ ExitedStaysClosed
    BY DEF ClockPastEntry, ExitedStaysClosed
  <1> QED BY <1>1, <1>2, <1>3, <1>4 DEF IInv

---------------------------------------------------------------------------
\* What the invariant says of the handler and the payer that take a step.
LEMMA HandlerFacts ==
  ASSUME IInv
  PROVE  /\ task \in [Handlers -> Tasks]
         /\ session \in [Sessions -> SessionRows]
         /\ payer.visit \in Sessions \cup {None} /\ payer.seen \in SessionRows
         /\ payer.gives \in {"ACTIVE", "PAID"}
         /\ \A h \in Handlers : Busy(h) =>
              /\ task[h].event \in Events
              /\ About(h) \in Sessions
              /\ task[h].seen \in SessionRows
              /\ session[About(h)] \in SessionRows
  <1>1. /\ task \in [Handlers -> Tasks]
        /\ session \in [Sessions -> SessionRows]
        /\ payer \in [visit : Sessions \cup {None}, seen : SessionRows,
                      gives : {"ACTIVE", "PAID"}]
    BY DEF IInv, TypeOK, Tasks
  <1>2. \A h \in Handlers : Busy(h) => task[h].event \in Events
    BY DEF IInv, StepsFit
  <1>3. \A h \in Handlers : Busy(h) => About(h) \in Sessions
    BY <1>2, FeedFacts DEF About
  <1>4. \A h \in Handlers : task[h].seen \in SessionRows
    BY <1>1 DEF Tasks
  <1> QED BY <1>1, <1>2, <1>3, <1>4

\* The rows the handlers write are rows.
LEMMA RowFacts ==
  ASSUME NEW e \in Events, NEW row \in SessionRows
  PROVE  /\ Feed[e].kind \in {"ENTERED", "EXITED"} => Applied(row, e) \in SessionRows
         /\ Applied(row, e).clock = Feed[e].at
         /\ Applied(row, e).status = Feed[e].status
         /\ Feed[e].kind = "EXITED" => Applied(row, e).exit = Feed[e].at
         /\ UnpaidRow(row, e) \in SessionRows
         /\ UnpaidRow(row, e).status = "CLOSED"
         /\ UnpaidRow(row, e).exit = Feed[e].at
         /\ UnpaidRow(row, e).clock = row.clock
         /\ Missing \in SessionRows
  BY FeedFacts DEF Applied, UnpaidRow, SessionRows, Missing

\* No step breaks the types, and no handler goes on with a foreign event.
LEMMA NextTypes == IInv /\ [Next]_vars => TypeOK' /\ StepsFit'
  <1> SUFFICES ASSUME IInv, [Next]_vars PROVE TypeOK' /\ StepsFit'
    OBVIOUS
  <1> USE HandlerFacts DEF cloud, worker, history
  <1>0. TypeOK /\ StepsFit
    BY DEF IInv
  <1>1. ASSUME NEW h \in Handlers, NEW e \in Events, Deliver(h, e)
        PROVE  TypeOK' /\ StepsFit'
    <2>1. task' \in [Handlers -> Tasks]
      BY <1>1 DEF Deliver, Tasks, Missing, SessionRows
    <2>2. overlapped' \in SUBSET Sessions
      BY <1>0, <1>1, FeedFacts DEF Deliver, TypeOK
    <2>3. reached' \in Events \cup {0}
      BY <1>0, <1>1 DEF Deliver, TypeOK
    <2>4. inverted' \in BOOLEAN
      BY <1>0, <1>1, Zenon DEF Deliver, TypeOK
    <2> QED BY <1>0, <1>1, <2>1, <2>2, <2>3, <2>4 DEF Deliver, TypeOK, StepsFit, Tasks, Busy, At
  <1>2. ASSUME NEW h \in Handlers, NEW pc \in {"read", "apply", "reread", "invoice", "mark"},
               NEW row \in SessionRows, Busy(h), Go(h, pc, row),
               pc = "apply" => Feed[task[h].event].kind # "SPACE",
               UNCHANGED <<waiting, payer>>
        PROVE  task' \in [Handlers -> Tasks] /\ StepsFit'
    <2>1. task' \in [Handlers -> Tasks]
      BY <1>2, GoFacts
    <2>2. task'[h].pc = pc /\ task'[h].event = task[h].event
      BY <1>2, GoFacts
    <2>3. \A g \in Handlers \ {h} : task'[g] = task[g]
      BY <1>2, GoFacts
    <2> QED BY <1>0, <1>2, <2>1, <2>2, <2>3 DEF StepsFit, Busy, At
  <1>3. ASSUME NEW h \in Handlers, ReadSession(h) PROVE TypeOK' /\ StepsFit'
    <2>1. Busy(h)
      BY <1>3 DEF ReadSession, At, Busy
    <2>2. task' \in [Handlers -> Tasks] /\ StepsFit'
      BY <1>3, <2>1, <1>2 DEF ReadSession, At
    <2> QED BY <1>0, <1>3, <2>2 DEF ReadSession, TypeOK, Tasks
  <1>4. ASSUME NEW h \in Handlers, ApplySession(h) PROVE TypeOK' /\ StepsFit'
    <2>1. Busy(h) /\ Feed[task[h].event].kind \in {"ENTERED", "EXITED"}
      BY <1>4 DEF ApplySession, At, Busy
    <2>2. task' \in [Handlers -> Tasks] /\ StepsFit'
      BY <1>4, <2>1, <1>2, RowFacts DEF ApplySession
    <2>3. Applied(task[h].seen, task[h].event) \in SessionRows
      BY <2>1, RowFacts
    <2>4. session' \in [Sessions -> SessionRows]
      BY <1>4, <2>1, <2>3 DEF ApplySession
    <2> QED BY <1>0, <1>4, <2>1, <2>2, <2>4 DEF ApplySession, WriteSpace, TypeOK, Tasks
  <1>5. ASSUME NEW h \in Handlers, Reread(h) PROVE TypeOK' /\ StepsFit'
    <2>1. Busy(h)
      BY <1>5 DEF Reread, At, Busy
    <2>2. task' \in [Handlers -> Tasks] /\ StepsFit'
      BY <1>5, <2>1, <1>2 DEF Reread
    <2> QED BY <1>0, <1>5, <2>2 DEF Reread, TypeOK, Tasks
  <1>6. ASSUME NEW h \in Handlers, ApplyUnpaid(h) PROVE TypeOK' /\ StepsFit'
    <2>1. Busy(h)
      BY <1>6 DEF ApplyUnpaid, At, Busy
    <2>2. UnpaidRow(task[h].seen, task[h].event) \in SessionRows
      BY <2>1, RowFacts
    <2>3. task' \in [Handlers -> Tasks] /\ StepsFit'
      BY <1>6, <2>1, <2>2, <1>2 DEF ApplyUnpaid
    <2>4. session' \in [Sessions -> SessionRows]
      BY <1>6, <2>1, <2>2 DEF ApplyUnpaid
    <2> QED BY <1>0, <1>6, <2>3, <2>4 DEF ApplyUnpaid, TypeOK, Tasks
  <1>7. ASSUME NEW h \in Handlers, AddInvoice(h) PROVE TypeOK' /\ StepsFit'
    <2>1. Busy(h)
      BY <1>7 DEF AddInvoice, At, Busy
    <2>2. task' \in [Handlers -> Tasks] /\ StepsFit'
      BY <1>7, <2>1, <1>2, RowFacts DEF AddInvoice
    <2>3. session' \in [Sessions -> SessionRows]
      BY <1>7, <2>1 DEF AddInvoice, SessionRows
    <2> QED BY <1>0, <1>7, <2>1, <2>2, <2>3 DEF AddInvoice, TypeOK, Tasks
  <1>8. ASSUME NEW h \in Handlers, ApplySpace(h) PROVE TypeOK' /\ StepsFit'
    <2>1. Busy(h) /\ Feed[task[h].event].kind = "SPACE"
      BY <1>8 DEF ApplySpace, At, Busy
    <2>2. task' \in [Handlers -> Tasks] /\ StepsFit'
      BY <1>8, <2>1, <1>2, RowFacts DEF ApplySpace
    <2> QED BY <1>0, <1>8, <2>1, <2>2, FeedFacts DEF ApplySpace, WriteSpace, TypeOK, Tasks
  <1>9. ASSUME NEW h \in Handlers, task' = [task EXCEPT ![h] = Idle],
               waiting' = IF waiting = h THEN None ELSE waiting, UNCHANGED payer
        PROVE  task' \in [Handlers -> Tasks] /\ StepsFit'
    <2>1. task' \in [Handlers -> Tasks]
      BY <1>9 DEF Tasks, Idle, Missing, SessionRows
    <2> QED BY <1>0, <1>9, <2>1, BoundsAssumption DEF StepsFit, Busy, At, Idle
  <1>10. ASSUME NEW h \in Handlers, Busy(h), Fail(h),
                UNCHANGED <<session, space, invoiced, payer, acked, history>>, faults' \in Nat
         PROVE  TypeOK' /\ StepsFit'
    BY <1>0, <1>9, <1>10 DEF Fail, TypeOK, Tasks
  <1>11. ASSUME NEW h \in Handlers, Clash(h) \/ Throw(h) PROVE TypeOK' /\ StepsFit'
    BY <1>0, <1>10, <1>11 DEF Clash, Throw, At, Busy, TypeOK
  <1>12. ASSUME NEW h \in Handlers, Mark(h) PROVE TypeOK' /\ StepsFit'
    <2>1. Busy(h)
      BY <1>12 DEF Mark, Busy
    <2> QED BY <1>0, <1>9, <1>12, <2>1 DEF Mark, TypeOK, Tasks
  <1>13. ASSUME NEW h \in Handlers, TimeOut(h) PROVE TypeOK' /\ StepsFit'
    BY <1>0, <1>13, BoundsAssumption DEF TimeOut, TypeOK, StepsFit, Busy, At
  <1>14. ASSUME Restart PROVE TypeOK' /\ StepsFit'
    <2>1. task' \in [Handlers -> Tasks]
      BY <1>14 DEF Restart, Tasks, Idle, Missing, SessionRows
    <2>2. tried' \in SUBSET Events
      BY <1>0, <1>14 DEF Restart, TypeOK, StepsFit
    <2>3. payer' \in [visit : Sessions \cup {None}, seen : SessionRows, gives : {"ACTIVE", "PAID"}]
      BY <1>14 DEF Restart, NoPayer, Missing, SessionRows
    <2> QED BY <1>0, <1>14, <2>1, <2>2, <2>3, BoundsAssumption
            DEF Restart, TypeOK, StepsFit, Tasks, Busy, At, Idle, NoPayer
  <1>15. ASSUME NEW v \in Sessions, PayInvoice(v) \/ PayBeforeExit(v) \/ PayWrite(v)
         PROVE  TypeOK' /\ StepsFit'
    <2>1. session' \in [Sessions -> SessionRows]
      BY <1>15 DEF PayInvoice, PayBeforeExit, PayRead, PayWrite, SessionRows
    <2>2. payer' \in [visit : Sessions \cup {None}, seen : SessionRows, gives : {"ACTIVE", "PAID"}]
      BY <1>15 DEF PayInvoice, PayBeforeExit, PayRead, PayWrite, NoPayer, Missing, SessionRows
    <2>3. /\ payer'.visit = None => payer' = NoPayer
          /\ payer'.gives = "ACTIVE" => payer'.seen.status = "ACTIVE"
      BY <1>15, BoundsAssumption DEF PayInvoice, PayBeforeExit, PayRead, PayWrite, NoPayer
    <2> QED BY <1>0, <1>15, <2>1, <2>2, <2>3
            DEF PayInvoice, PayBeforeExit, PayRead, PayWrite, TypeOK, StepsFit, Busy, At
  <1>16. CASE UNCHANGED vars
    BY <1>0, <1>16 DEF vars, TypeOK, StepsFit, Busy, At
  <1> QED BY <1>1, <1>3, <1>4, <1>5, <1>6, <1>7, <1>8, <1>11, <1>12, <1>13, <1>14, <1>15, <1>16
          DEF Next, Handler

---------------------------------------------------------------------------
\* A handler that goes on works on the session it has worked on.
LEMMA GoKeepsWork ==
  ASSUME IInv, NEW h \in Handlers, Busy(h), NEW row \in SessionRows,
         NEW pc \in {"read", "apply", "reread", "invoice", "mark"}, Go(h, pc, row)
  PROVE  /\ \A g \in Handlers, v \in Sessions : WorksOn(g, v)' <=> WorksOn(g, v)
         /\ task'[h].pc = pc /\ task'[h].event = task[h].event /\ task'[h].seen = row
         /\ \A g \in Handlers \ {h} : task'[g] = task[g]
  <1>1. /\ task'[h].pc = pc /\ task'[h].event = task[h].event /\ task'[h].seen = row
        /\ \A g \in Handlers \ {h} : task'[g] = task[g]
    BY HandlerFacts, GoFacts
  <1>2. Busy(h)' <=> Busy(h)
    BY <1>1 DEF Busy
  <1>3. About(h)' = About(h)
    BY <1>1 DEF About
  <1> QED BY <1>1, <1>2, <1>3 DEF WorksOn, Busy, About

\* The handlers that work on v after a step that only ends some of them.
LEMMA IdleEndsWork ==
  ASSUME NEW h \in Handlers, task \in [Handlers -> Tasks], task' = [task EXCEPT ![h] = Idle]
  PROVE  /\ ~Busy(h)'
         /\ \A g \in Handlers \ {h} : task'[g] = task[g]
         /\ \A g \in Handlers, v \in Sessions : WorksOn(g, v)' => g # h /\ WorksOn(g, v)
  <1>1. task'[h] = Idle /\ \A g \in Handlers \ {h} : task'[g] = task[g]
    OBVIOUS
  <1>2. ~Busy(h)'
    BY <1>1 DEF Busy, Idle
  <1> QED BY <1>1, <1>2 DEF WorksOn, Busy, About

LEMMA NextOneWriter == IInv /\ [Next]_vars => OneWriter'
  <1> SUFFICES ASSUME IInv, [Next]_vars PROVE OneWriter'
    OBVIOUS
  <1> USE HandlerFacts DEF cloud, worker, history
  <1>0. OneWriter
    BY DEF IInv
  <1>1. ASSUME NEW h \in Handlers, NEW e \in Events, Deliver(h, e) PROVE OneWriter'
    <2>1. CASE e \in processed
      BY <1>0, <1>1, <2>1 DEF Deliver, OneWriter, WorksOn, Busy, About
    <2>2. CASE e \notin processed
      <3>1. /\ task'[h] = [pc |-> "read", event |-> e, seen |-> Missing]
            /\ \A g \in Handlers \ {h} : task'[g] = task[g]
        BY <1>1, <2>2 DEF Deliver
      <3>2. \A g \in Handlers, v \in Sessions :
              WorksOn(g, v)' <=> IF g = h THEN Feed[e].kind # "SPACE" /\ Feed[e].visit = v
                                          ELSE WorksOn(g, v)
        BY <3>1 DEF WorksOn, Busy, About
      <3>3. /\ UNCHANGED <<session, payer>> /\ overlapped \subseteq overlapped'
            /\ ~Busy(h)
            /\ \A g \in Handlers : WorksOn(g, Feed[e].visit) /\ Feed[e].kind # "SPACE"
                                  => Feed[e].visit \in overlapped'
            /\ payer.visit = Feed[e].visit /\ Feed[e].kind # "SPACE"
                                  => Feed[e].visit \in overlapped'
        BY <1>1, <2>2 DEF Deliver
      <3> QED BY <1>0, <3>1, <3>2, <3>3 DEF OneWriter
    <2> QED BY <2>1, <2>2
  <1>2. ASSUME NEW h \in Handlers, Busy(h), NEW row \in SessionRows,
               NEW pc \in {"read", "apply", "reread", "invoice", "mark"}, Go(h, pc, row),
               Feed[task[h].event].kind # "SPACE" \/ UNCHANGED session,
               \A v \in Sessions \ {About(h)} : session'[v] = session[v],
               pc \in {"apply", "invoice"} => row = session'[About(h)],
               UNCHANGED <<payer, overlapped>>
        PROVE  OneWriter'
    <2>1. /\ \A g \in Handlers, v \in Sessions : WorksOn(g, v)' <=> WorksOn(g, v)
          /\ task'[h].pc = pc /\ task'[h].event = task[h].event /\ task'[h].seen = row
          /\ \A g \in Handlers \ {h} : task'[g] = task[g]
      BY <1>2, GoKeepsWork
    <2>2. Feed[task[h].event].kind # "SPACE" => WorksOn(h, About(h))
      BY <1>2 DEF WorksOn
    <2>3. \A v \in Sessions : WorksOn(h, v) => v = About(h)
      BY DEF WorksOn
    <2> QED BY <1>0, <1>2, <2>1, <2>2, <2>3 DEF OneWriter
  <1>3. ASSUME NEW h \in Handlers, ReadSession(h) PROVE OneWriter'
    <2>1. Busy(h)
      BY <1>3 DEF ReadSession, At, Busy
    <2> QED BY <1>2, <1>3, <2>1 DEF ReadSession
  <1>4. ASSUME NEW h \in Handlers, ApplySession(h) PROVE OneWriter'
    <2>1. Busy(h) /\ Feed[task[h].event].kind # "SPACE"
      BY <1>4 DEF ApplySession, At, Busy
    <2> QED BY <1>2, <1>4, <2>1, RowFacts DEF ApplySession
  <1>5. ASSUME NEW h \in Handlers, Reread(h) PROVE OneWriter'
    <2>1. Busy(h)
      BY <1>5 DEF Reread, At, Busy
    <2> QED BY <1>2, <1>5, <2>1 DEF Reread
  <1>6. ASSUME NEW h \in Handlers, ApplyUnpaid(h) PROVE OneWriter'
    <2>1. Busy(h) /\ Feed[task[h].event].kind # "SPACE"
      BY <1>6 DEF ApplyUnpaid, At, Busy
    <2>2. UnpaidRow(task[h].seen, task[h].event) \in SessionRows
      BY <2>1, RowFacts
    <2> QED BY <1>2, <1>6, <2>1, <2>2 DEF ApplyUnpaid
  <1>7. ASSUME NEW h \in Handlers, AddInvoice(h) PROVE OneWriter'
    <2>1. Busy(h) /\ Feed[task[h].event].kind # "SPACE"
      BY <1>7 DEF AddInvoice, At, Busy
    <2> QED BY <1>2, <1>7, <2>1, RowFacts DEF AddInvoice
  <1>8. ASSUME NEW h \in Handlers, ApplySpace(h) PROVE OneWriter'
    <2>1. Busy(h)
      BY <1>8 DEF ApplySpace, At, Busy
    <2> QED BY <1>2, <1>8, <2>1, RowFacts DEF ApplySpace
  <1>9. ASSUME NEW h \in Handlers, task' = [task EXCEPT ![h] = Idle],
               UNCHANGED <<session, payer, overlapped>>
        PROVE  OneWriter'
    <2>1. \A g \in Handlers, v \in Sessions :
            WorksOn(g, v)' => WorksOn(g, v) /\ task'[g] = task[g]
      BY <1>9, IdleEndsWork
    <2> QED BY <1>0, <1>9, <2>1 DEF OneWriter
  <1>10. ASSUME NEW h \in Handlers, Clash(h) \/ Throw(h) \/ Mark(h) PROVE OneWriter'
    BY <1>9, <1>10 DEF Clash, Throw, Mark, Fail
  <1>11. ASSUME NEW h \in Handlers, TimeOut(h) PROVE OneWriter'
    BY <1>0, <1>11 DEF TimeOut, OneWriter, WorksOn, Busy, About
  <1>12. ASSUME Restart PROVE OneWriter'
    BY <1>0, <1>12, BoundsAssumption
       DEF Restart, OneWriter, WorksOn, Busy, Idle, NoPayer
  <1>13. ASSUME NEW v \in Sessions, NEW gives, PayRead(v, gives) PROVE OneWriter'
    <2>1. \A g \in Handlers, u \in Sessions : WorksOn(g, u)' <=> WorksOn(g, u)
      BY <1>13 DEF PayRead, WorksOn, Busy, About
    <2> QED BY <1>0, <1>13, <2>1 DEF PayRead, OneWriter
  <1>14. ASSUME NEW v \in Sessions, PayWrite(v) PROVE OneWriter'
    <2>1. \A g \in Handlers, u \in Sessions : WorksOn(g, u)' <=> WorksOn(g, u)
      BY <1>14 DEF PayWrite, WorksOn, Busy, About
    <2>2. \A u \in Sessions : payer'.visit # u
      BY <1>14, BoundsAssumption DEF PayWrite, NoPayer
    <2> QED BY <1>0, <1>14, <2>1, <2>2 DEF PayWrite, OneWriter
  <1>15. CASE UNCHANGED vars
    BY <1>0, <1>15 DEF vars, OneWriter, WorksOn, Busy, About
  <1> QED BY <1>1, <1>3, <1>4, <1>5, <1>6, <1>7, <1>8, <1>10, <1>11, <1>12, <1>13, <1>14, <1>15
          DEF Next, Handler, PayInvoice, PayBeforeExit

---------------------------------------------------------------------------
\* What holds of v once its exit was applied, as long as its writers never met.
Closed(v) ==
  /\ session[v].status \in {"CLOSED", "PAID"} /\ session[v].exit # 0
  /\ \A e \in Events :
       Feed[e].kind = "ENTERED" /\ Feed[e].visit = v => Feed[e].at < session[v].clock
  /\ \A h \in Handlers : WorksOn(h, v) => ~At(h, "apply", {"ENTERED"})

LEMMA ClosedIsInvariant ==
  (\A v \in exited \ overlapped : Closed(v)) <=> ExitedStaysClosed /\ ClockPastEntry
  BY DEF Closed, ExitedStaysClosed, ClockPastEntry

\* A session that is exited stays closed and keeps its clock past its entries.
LEMMA NextClosed == IInv /\ [Next]_vars => \A v \in exited' \ overlapped' : Closed(v)'
  <1> SUFFICES ASSUME IInv, [Next]_vars, NEW v \in exited', v \notin overlapped'
               PROVE  Closed(v)'
    OBVIOUS
  <1> USE HandlerFacts DEF cloud, worker, history
  <1>0. (\A u \in exited \ overlapped : Closed(u)) /\ OneWriter /\ exited \subseteq Sessions
    BY ClosedIsInvariant DEF IInv, TypeOK
  \* A step of h that leaves v as it is, and does not go on to apply an entry.
  <1>1. ASSUME NEW h \in Handlers, Busy(h), NEW row \in SessionRows,
               NEW pc \in {"read", "apply", "reread", "invoice", "mark"}, Go(h, pc, row),
               v \in exited, v \notin overlapped,
               session'[v].status \in {"CLOSED", "PAID"}, session'[v].exit # 0,
               session'[v].clock = session[v].clock,
               pc = "apply" => ~(WorksOn(h, v) /\ Feed[task[h].event].kind = "ENTERED")
        PROVE  Closed(v)'
    <2>1. Closed(v) /\ v \in Sessions
      BY <1>0, <1>1
    <2>2. /\ \A g \in Handlers : WorksOn(g, v)' <=> WorksOn(g, v)
          /\ task'[h].pc = pc /\ task'[h].event = task[h].event
          /\ \A g \in Handlers \ {h} : task'[g] = task[g]
      BY <1>1, <2>1, GoKeepsWork
    <2> QED BY <1>1, <2>1, <2>2 DEF Closed, At
  <1>2. ASSUME NEW h \in Handlers, ReadSession(h) PROVE Closed(v)'
    <2>1. Busy(h)
      BY <1>2 DEF ReadSession, At, Busy
    <2>2. v \in exited /\ v \notin overlapped /\ Closed(v)
      BY <1>0, <1>2 DEF ReadSession
    <2>3. WorksOn(h, v) /\ Feed[task[h].event].kind = "ENTERED"
          => Stale(session[About(h)], task[h].event)
      BY <1>0, <2>1, <2>2, FeedFacts DEF Closed, WorksOn, Stale, About, SessionRows
    <2> DEFINE to == IF Feed[task[h].event].kind # "UNPAID"
                        /\ Stale(session[About(h)], task[h].event) THEN "mark" ELSE "apply"
    <2>4. Go(h, to, session[About(h)]) /\ session[About(h)] \in SessionRows
      BY <1>2, <2>1 DEF ReadSession
    <2>5. UNCHANGED session
      BY <1>2 DEF ReadSession
    <2>6. session[v].status \in {"CLOSED", "PAID"} /\ session[v].exit # 0
      BY <2>2 DEF Closed
    <2>7. to \in {"mark", "apply"}
          /\ (to = "apply" => ~(WorksOn(h, v) /\ Feed[task[h].event].kind = "ENTERED"))
      BY <2>3
    <2> HIDE DEF to
    <2> QED BY <1>1, <2>1, <2>2, <2>4, <2>5, <2>6, <2>7
  <1>3. ASSUME NEW h \in Handlers, ApplySession(h) PROVE Closed(v)'
    <2> DEFINE e == task[h].event
               to == IF e \in PaidExits THEN "reread" ELSE "mark"
    <2>1. Busy(h) /\ Feed[e].kind \in {"ENTERED", "EXITED"} /\ e \in Events
      BY <1>3 DEF ApplySession, At, Busy
    <2>2. Go(h, to, Missing) /\ to \in {"reread", "mark"} /\ Missing \in SessionRows
      BY <1>3, <2>1, RowFacts DEF ApplySession
    <2>3. /\ session' = [session EXCEPT ![About(h)] = Applied(task[h].seen, e)]
          /\ exited' = IF Feed[e].kind = "EXITED" THEN exited \cup {About(h)} ELSE exited
          /\ v \notin overlapped
      BY <1>3 DEF ApplySession
    <2> HIDE DEF e, to
    <2>4. CASE v # About(h)
      <3>1. v \in exited /\ Closed(v)
        BY <1>0, <2>3, <2>4
      <3>2. session'[v] = session[v]
        BY <2>3, <2>4
      <3> QED BY <1>1, <2>1, <2>2, <2>3, <3>1, <3>2 DEF Closed
    <2>5. CASE v = About(h) /\ Feed[e].kind = "ENTERED"
      <3>1. v \in exited /\ Closed(v) /\ WorksOn(h, v)
        BY <1>0, <2>1, <2>3, <2>5 DEF WorksOn, e
      <3>2. At(h, "apply", {"ENTERED"})
        BY <1>3, <2>5 DEF ApplySession, At, e
      <3> QED BY <3>1, <3>2 DEF Closed
    <2>6. CASE v = About(h) /\ Feed[e].kind = "EXITED"
      <3>1. /\ session'[v].status = Feed[e].status
            /\ session'[v].exit = Feed[e].at
            /\ session'[v].clock = Feed[e].at
        BY <2>1, <2>3, <2>6, RowFacts
      <3>2. session'[v].status \in {"CLOSED", "PAID"} /\ session'[v].exit # 0
        BY <2>1, <2>6, <3>1, FeedFacts
      <3>3. \A d \in Events : Feed[d].kind = "ENTERED" /\ Feed[d].visit = v
                                => Feed[d].at < session'[v].clock
        BY <2>1, <2>6, <3>1, EntryBeforeExit DEF About, e
      <3>4. \A g \in Handlers : WorksOn(g, v)' => g = h
        <4>1. v \in Sessions /\ WorksOn(h, v)
          BY <2>1, <2>6 DEF WorksOn, e
        <4> QED BY <1>0, <2>1, <2>2, <2>3, <4>1, GoKeepsWork DEF OneWriter
      <3>5. task'[h].pc # "apply"
        BY <2>1, <2>2, GoKeepsWork
      <3> QED BY <3>2, <3>3, <3>4, <3>5 DEF Closed, At
    <2> QED BY <2>1, <2>4, <2>5, <2>6
  <1>4. ASSUME NEW h \in Handlers, Reread(h) \/ ApplySpace(h) PROVE Closed(v)'
    <2>1. Busy(h)
      BY <1>4 DEF Reread, ApplySpace, At, Busy
    <2>2. v \in exited /\ v \notin overlapped /\ UNCHANGED session
      BY <1>4 DEF Reread, ApplySpace
    <2>3. session[v].status \in {"CLOSED", "PAID"} /\ session[v].exit # 0
      BY <1>0, <2>2 DEF Closed
    <2>4. Go(h, "invoice", session[About(h)]) \/ Go(h, "mark", Missing)
      BY <1>4 DEF Reread, ApplySpace
    <2> QED BY <1>1, <2>1, <2>2, <2>3, <2>4, RowFacts
  <1>5. ASSUME NEW h \in Handlers, ApplyUnpaid(h) PROVE Closed(v)'
    <2> DEFINE row == UnpaidRow(task[h].seen, task[h].event)
    <2>1. Busy(h) /\ Feed[task[h].event].kind = "UNPAID" /\ task[h].pc = "apply"
      BY <1>5 DEF ApplyUnpaid, At, Busy
    <2>2. /\ v \in exited /\ v \notin overlapped
          /\ session' = [session EXCEPT ![About(h)] = row]
          /\ Go(h, "invoice", row)
      BY <1>5 DEF ApplyUnpaid
    <2>3. Closed(v) /\ v \in Sessions
      BY <1>0, <2>2
    <2>4. /\ row \in SessionRows /\ row.status = "CLOSED" /\ row.exit # 0
          /\ row.clock = task[h].seen.clock
      <3>1. task[h].event \in Events /\ task[h].seen \in SessionRows
        BY <2>1
      <3>2. Feed[task[h].event].at # 0
        BY <3>1, FeedFacts
      <3> QED BY <3>1, <3>2, RowFacts
    <2> HIDE DEF row
    <2>5. v = About(h) => task[h].seen = session[v]
      BY <1>0, <2>1, <2>2, <2>3 DEF OneWriter, WorksOn
    <2>6. /\ session'[v].status \in {"CLOSED", "PAID"} /\ session'[v].exit # 0
          /\ session'[v].clock = session[v].clock
      BY <2>2, <2>3, <2>4, <2>5 DEF Closed
    <2> QED BY <1>1, <2>1, <2>2, <2>4, <2>6
  <1>6. ASSUME NEW h \in Handlers, AddInvoice(h) PROVE Closed(v)'
    <2>1. Busy(h) /\ Feed[task[h].event].kind # "SPACE" /\ task[h].pc = "invoice"
      BY <1>6 DEF AddInvoice, At, Busy
    <2>2. /\ v \in exited /\ v \notin overlapped
          /\ session' = [session EXCEPT ![About(h)].clock = task[h].seen.clock]
          /\ Go(h, "mark", Missing)
      BY <1>6 DEF AddInvoice
    <2>3. Closed(v) /\ v \in Sessions
      BY <1>0, <2>2
    <2>4. v = About(h) => task[h].seen = session[v]
      BY <1>0, <2>1, <2>2, <2>3 DEF OneWriter, WorksOn
    <2>5. /\ session'[v].status = session[v].status /\ session'[v].exit = session[v].exit
          /\ session'[v].clock = session[v].clock
      BY <2>2, <2>3, <2>4 DEF SessionRows
    <2> QED BY <1>1, <2>1, <2>2, <2>3, <2>5, RowFacts DEF Closed
  <1>7. ASSUME NEW h \in Handlers, NEW e \in Events, Deliver(h, e) PROVE Closed(v)'
    <2>1. v \in exited /\ v \notin overlapped /\ Closed(v) /\ UNCHANGED session
      BY <1>0, <1>7 DEF Deliver
    <2>2. \A g \in Handlers : \/ task'[g] = task[g]
                              \/ task'[g].pc = "read"
      BY <1>7 DEF Deliver
    <2> QED BY <2>1, <2>2 DEF Closed, At, WorksOn, Busy, About
  <1>8. ASSUME NEW h \in Handlers, Clash(h) \/ Throw(h) \/ Mark(h) PROVE Closed(v)'
    <2>1. v \in exited /\ v \notin overlapped /\ Closed(v) /\ UNCHANGED session
      BY <1>0, <1>8 DEF Clash, Throw, Mark
    <2>2. task' = [task EXCEPT ![h] = Idle]
      BY <1>8 DEF Clash, Throw, Mark, Fail
    <2>3. \A g \in Handlers : task'[g] = task[g] \/ task'[g] = Idle
      BY <2>2
    <2> QED BY <2>1, <2>3 DEF Closed, At, WorksOn, Busy, About, Idle
  <1>9. ASSUME Restart PROVE Closed(v)'
    BY <1>0, <1>9 DEF Restart, Closed, At, WorksOn, Busy, Idle
  <1>10. ASSUME NEW h \in Handlers, TimeOut(h) PROVE Closed(v)'
    BY <1>0, <1>10 DEF TimeOut, Closed, At, WorksOn, Busy, About
  <1>11. ASSUME NEW u \in Sessions, NEW gives, PayRead(u, gives) PROVE Closed(v)'
    BY <1>0, <1>11 DEF PayRead, Closed, At, WorksOn, Busy, About
  <1>12. ASSUME NEW u \in Sessions, PayWrite(u) PROVE Closed(v)'
    <2>1. v \in exited /\ v \notin overlapped /\ Closed(v) /\ UNCHANGED task /\ v \in Sessions
      BY <1>0, <1>12 DEF PayWrite
    <2>2. payer.visit = u
          /\ session' = [session EXCEPT ![u].status = payer.gives, ![u].clock = payer.seen.clock]
      BY <1>12 DEF PayWrite
    <2>3. u = v => payer.seen = session[v]
      BY <1>0, <2>1, <2>2 DEF OneWriter
    <2>4. u = v => payer.gives = "PAID"
      <3>1. session[v].status # "ACTIVE"
        BY <2>1 DEF Closed
      <3>2. payer.gives = "ACTIVE" => payer.seen.status = "ACTIVE"
        BY DEF IInv, StepsFit
      <3> QED BY <2>3, <3>1, <3>2
    <2>5. /\ session'[v].status \in {"CLOSED", "PAID"} /\ session'[v].exit = session[v].exit
          /\ session'[v].clock = session[v].clock
      BY <2>1, <2>2, <2>3, <2>4 DEF Closed, SessionRows
    <2> QED BY <2>1, <2>5 DEF Closed, At, WorksOn, Busy, About
  <1>13. CASE UNCHANGED vars
    BY <1>0, <1>13 DEF vars, Closed, At, WorksOn, Busy, About
  <1> QED BY <1>2, <1>3, <1>4, <1>5, <1>6, <1>7, <1>8, <1>9, <1>10, <1>11, <1>12, <1>13
          DEF Next, Handler, PayInvoice, PayBeforeExit

---------------------------------------------------------------------------
\* A clock somebody knows of a session that is not exited is before its exits.
Before(v, clock) ==
  \A e \in Events : Feed[e].kind = "EXITED" /\ Feed[e].visit = v => clock < Feed[e].at

LEMMA ClockKnownIsBefore ==
  ClockKnown <=>
    \A v \in Sessions \ exited :
       /\ Before(v, session[v].clock)
       /\ \A h \in Handlers : WorksOn(h, v) => Before(v, task[h].seen.clock)
       /\ payer.visit = v => Before(v, payer.seen.clock)
  BY DEF ClockKnown, Before

LEMMA NextClockKnown == IInv /\ [Next]_vars => ClockKnown'
  <1> SUFFICES ASSUME IInv, [Next]_vars, NEW v \in Sessions, v \notin exited'
               PROVE  /\ Before(v, session'[v].clock)
                      /\ \A h \in Handlers : WorksOn(h, v)' => Before(v, task'[h].seen.clock)
                      /\ payer'.visit = v => Before(v, payer'.seen.clock)
    BY DEF ClockKnown, Before
  <1> DEFINE Goal == /\ Before(v, session'[v].clock)
                     /\ \A h \in Handlers : WorksOn(h, v)' => Before(v, task'[h].seen.clock)
                     /\ payer'.visit = v => Before(v, payer'.seen.clock)
  <1> USE HandlerFacts DEF cloud, worker, history
  <1>0. v \notin exited =>
          /\ Before(v, session[v].clock)
          /\ \A h \in Handlers : WorksOn(h, v) => Before(v, task[h].seen.clock)
          /\ payer.visit = v => Before(v, payer.seen.clock)
    BY ClockKnownIsBefore DEF IInv
  <1>1. Before(v, Missing.clock)
    BY FeedFacts DEF Before, Missing
  <1>2. ASSUME NEW h \in Handlers, Busy(h), NEW row \in SessionRows,
               NEW pc \in {"read", "apply", "reread", "invoice", "mark"}, Go(h, pc, row),
               v \notin exited, Before(v, session'[v].clock),
               WorksOn(h, v) => Before(v, row.clock), UNCHANGED payer
        PROVE  Goal
    <2>1. /\ \A g \in Handlers : WorksOn(g, v)' <=> WorksOn(g, v)
          /\ task'[h].seen = row
          /\ \A g \in Handlers \ {h} : task'[g] = task[g]
      BY <1>2, GoKeepsWork
    <2> QED BY <1>0, <1>2, <2>1
  <1>3. ASSUME NEW h \in Handlers, ReadSession(h) \/ Reread(h) \/ ApplySpace(h) PROVE Goal
    <2>1. Busy(h) /\ v \notin exited /\ UNCHANGED <<session, payer>>
      BY <1>3 DEF ReadSession, Reread, ApplySpace, At, Busy
    <2>2. \E pc \in {"apply", "invoice", "mark"} :
            Go(h, pc, session[About(h)]) \/ Go(h, pc, Missing)
      BY <1>3 DEF ReadSession, Reread, ApplySpace
    <2>3. WorksOn(h, v) => About(h) = v
      BY DEF WorksOn
    <2>4. PICK pc \in {"read", "apply", "reread", "invoice", "mark"},
               row \in {session[About(h)], Missing} : Go(h, pc, row)
      BY <2>2
    <2>5. row \in SessionRows /\ (WorksOn(h, v) => Before(v, row.clock))
      BY <1>0, <1>1, <2>1, <2>3, <2>4, RowFacts
    <2>6. Before(v, session'[v].clock)
      BY <1>0, <2>1
    <2> QED BY <1>2, <2>1, <2>4, <2>5, <2>6
  <1>4. ASSUME NEW h \in Handlers, ApplySession(h) PROVE Goal
    <2> DEFINE e == task[h].event
               to == IF e \in PaidExits THEN "reread" ELSE "mark"
    <2>1. Busy(h) /\ Feed[e].kind \in {"ENTERED", "EXITED"} /\ e \in Events
      BY <1>4 DEF ApplySession, At, Busy
    <2>2. Go(h, to, Missing) /\ to \in {"reread", "mark"} /\ Missing \in SessionRows
      BY <1>4, <2>1, RowFacts DEF ApplySession
    <2>3. /\ session' = [session EXCEPT ![About(h)] = Applied(task[h].seen, e)]
          /\ exited' = IF Feed[e].kind = "EXITED" THEN exited \cup {About(h)} ELSE exited
          /\ UNCHANGED payer
      BY <1>4 DEF ApplySession
    <2> HIDE DEF to
    <2>4. v \notin exited
      BY <2>3
    <2>5. CASE v # About(h)
      BY <1>0, <1>1, <1>2, <2>1, <2>2, <2>3, <2>4, <2>5
    <2>6. CASE v = About(h)
      <3>1. Feed[e].kind = "ENTERED" /\ Feed[e].visit = v
        BY <2>1, <2>3, <2>6 DEF About
      <3>2. session'[v].clock = Feed[e].at
        BY <2>1, <2>3, <2>6, RowFacts
      <3>3. Before(v, session'[v].clock)
        BY <2>1, <3>1, <3>2, EntryBeforeExit DEF Before
      <3> QED BY <1>1, <1>2, <2>1, <2>2, <2>3, <2>4, <3>3
    <2> QED BY <2>5, <2>6
  <1>5. ASSUME NEW h \in Handlers, ApplyUnpaid(h) PROVE Goal
    <2> DEFINE row == UnpaidRow(task[h].seen, task[h].event)
    <2>1. Busy(h) /\ Feed[task[h].event].kind = "UNPAID"
      BY <1>5 DEF ApplyUnpaid, At, Busy
    <2>2. /\ v \notin exited /\ UNCHANGED payer
          /\ session' = [session EXCEPT ![About(h)] = row]
          /\ Go(h, "invoice", row)
      BY <1>5 DEF ApplyUnpaid
    <2>3. row \in SessionRows /\ row.clock = task[h].seen.clock
      BY <2>1, RowFacts
    <2> HIDE DEF row
    <2>4. v = About(h) <=> WorksOn(h, v)
      BY <2>1 DEF WorksOn
    <2>5. Before(v, session'[v].clock) /\ (WorksOn(h, v) => Before(v, row.clock))
      BY <1>0, <2>2, <2>3, <2>4
    <2> QED BY <1>2, <2>1, <2>2, <2>3, <2>5
  <1>6. ASSUME NEW h \in Handlers, AddInvoice(h) PROVE Goal
    <2>1. Busy(h) /\ Feed[task[h].event].kind # "SPACE"
      BY <1>6 DEF AddInvoice, At, Busy
    <2>2. /\ v \notin exited /\ UNCHANGED payer
          /\ session' = [session EXCEPT ![About(h)].clock = task[h].seen.clock]
          /\ Go(h, "mark", Missing)
      BY <1>6 DEF AddInvoice
    <2>3. v = About(h) => WorksOn(h, v)
      BY <2>1 DEF WorksOn
    <2>4. session'[v].clock = IF v = About(h) THEN task[h].seen.clock ELSE session[v].clock
      BY <2>2 DEF SessionRows
    <2>5. Before(v, session'[v].clock)
      BY <1>0, <2>2, <2>3, <2>4
    <2> QED BY <1>1, <1>2, <2>1, <2>2, <2>5, RowFacts
  <1>7. ASSUME NEW h \in Handlers, NEW e \in Events, Deliver(h, e) PROVE Goal
    <2>1. v \notin exited /\ UNCHANGED <<session, payer>>
      BY <1>7 DEF Deliver
    <2>2. \A g \in Handlers : task'[g] = task[g] \/ task'[g].seen = Missing
      BY <1>7 DEF Deliver
    <2> QED BY <1>0, <1>1, <2>1, <2>2 DEF WorksOn, Busy, About
  <1>8. ASSUME NEW h \in Handlers, Clash(h) \/ Throw(h) \/ Mark(h) PROVE Goal
    <2>1. v \notin exited /\ UNCHANGED <<session, payer>>
      BY <1>8 DEF Clash, Throw, Mark
    <2>2. task' = [task EXCEPT ![h] = Idle]
      BY <1>8 DEF Clash, Throw, Mark, Fail
    <2> QED BY <1>0, <2>1, <2>2, IdleEndsWork
  <1>9. ASSUME Restart PROVE Goal
    BY <1>0, <1>1, <1>9 DEF Restart, WorksOn, Busy, Idle, NoPayer
  <1>10. ASSUME NEW h \in Handlers, TimeOut(h) PROVE Goal
    BY <1>0, <1>10 DEF TimeOut, WorksOn, Busy, About
  <1>11. ASSUME NEW u \in Sessions, NEW gives, PayRead(u, gives) PROVE Goal
    <2>1. /\ v \notin exited /\ UNCHANGED <<session, task>>
          /\ payer'.visit = u /\ payer'.seen = session[u]
      BY <1>11 DEF PayRead
    <2> QED BY <1>0, <2>1 DEF WorksOn, Busy, About
  <1>12. ASSUME NEW u \in Sessions, PayWrite(u) PROVE Goal
    <2>1. /\ v \notin exited /\ UNCHANGED task /\ payer.visit = u
          /\ session' = [session EXCEPT ![u].status = payer.gives, ![u].clock = payer.seen.clock]
      BY <1>12 DEF PayWrite
    <2>2. session'[v].clock = IF u = v THEN payer.seen.clock ELSE session[v].clock
      BY <2>1 DEF SessionRows
    <2>3. payer' = NoPayer
      BY <1>12 DEF PayWrite
    <2>4. payer'.seen.clock = Missing.clock
      BY <2>3 DEF NoPayer
    <2> QED BY <1>0, <1>1, <2>1, <2>2, <2>4 DEF WorksOn, Busy, About
  <1>13. CASE UNCHANGED vars
    BY <1>0, <1>13 DEF vars, WorksOn, Busy, About
  <1> QED BY <1>3, <1>4, <1>5, <1>6, <1>7, <1>8, <1>9, <1>10, <1>11, <1>12, <1>13
          DEF Next, Handler, PayInvoice, PayBeforeExit

---------------------------------------------------------------------------
\* What says that an exit is done says so after it was applied.
LEMMA NextDone == IInv /\ [Next]_vars => DoneWasApplied'
  <1> SUFFICES ASSUME IInv, [Next]_vars PROVE DoneWasApplied'
    OBVIOUS
  <1> USE HandlerFacts DEF cloud, worker, history
  <1>0. DoneWasApplied /\ ClockKnown
    BY DEF IInv
  <1> USE DEF DoneWasApplied, AckedExitWasApplied
  <1>1. ASSUME NEW h \in Handlers, Busy(h), NEW row \in SessionRows,
               NEW pc \in {"read", "apply", "reread", "invoice", "mark"}, Go(h, pc, row),
               UNCHANGED <<processed, acked>>, exited \subseteq exited',
               pc \in {"reread", "invoice", "mark"} /\ Feed[task[h].event].kind = "EXITED"
               => About(h) \in exited'
        PROVE  DoneWasApplied'
    <2>1. /\ task'[h].pc = pc /\ task'[h].event = task[h].event
          /\ \A g \in Handlers \ {h} : task'[g] = task[g]
      BY <1>1, GoFacts
    <2>2. \A g \in Handlers : About(g)' = About(g)
      BY <2>1 DEF About
    <2> QED BY <1>0, <1>1, <2>1, <2>2
  <1>2. ASSUME NEW h \in Handlers, ReadSession(h) PROVE DoneWasApplied'
    <2> DEFINE e == task[h].event
               to == IF Feed[e].kind # "UNPAID" /\ Stale(session[About(h)], e)
                     THEN "mark" ELSE "apply"
    <2>1. Busy(h) /\ e \in Events
      BY <1>2 DEF ReadSession, At, Busy
    <2>2. /\ Go(h, to, session[About(h)]) /\ to \in {"mark", "apply"}
          /\ UNCHANGED <<processed, acked, exited>>
      BY <1>2 DEF ReadSession
    <2>3. to # "apply" /\ Feed[e].kind = "EXITED" => About(h) \in exited
      <3> SUFFICES ASSUME Stale(session[About(h)], e), Feed[e].kind = "EXITED",
                          About(h) \notin exited
                   PROVE  FALSE
        OBVIOUS
      <3>1. session[About(h)].clock < Feed[e].at
        BY <1>0, <2>1 DEF ClockKnown, About
      <3>2. session[About(h)].clock \in Nat /\ Feed[e].at \in Nat
        BY <2>1, FeedFacts DEF SessionRows
      <3> QED BY <3>1, <3>2 DEF Stale
    <2> HIDE DEF to
    <2> QED BY <1>1, <2>1, <2>2, <2>3
  <1>3. ASSUME NEW h \in Handlers, ApplySession(h) PROVE DoneWasApplied'
    <2> DEFINE e == task[h].event
               to == IF e \in PaidExits THEN "reread" ELSE "mark"
    <2>1. Busy(h)
      BY <1>3 DEF ApplySession, At, Busy
    <2>2. /\ Go(h, to, Missing) /\ to \in {"reread", "mark"} /\ UNCHANGED <<processed, acked>>
          /\ exited' = IF Feed[e].kind = "EXITED" THEN exited \cup {About(h)} ELSE exited
      BY <1>3 DEF ApplySession
    <2> HIDE DEF to
    <2> QED BY <1>1, <2>1, <2>2, RowFacts
  <1>4. ASSUME NEW h \in Handlers, Reread(h) \/ AddInvoice(h) PROVE DoneWasApplied'
    <2>1. Busy(h) /\ task[h].pc \in {"reread", "invoice"} /\ UNCHANGED <<processed, acked, exited>>
      BY <1>4 DEF Reread, AddInvoice, At, Busy
    <2>2. Go(h, "invoice", session[About(h)]) \/ Go(h, "mark", Missing)
      BY <1>4 DEF Reread, AddInvoice
    <2>3. Feed[task[h].event].kind = "EXITED" => About(h) \in exited
      BY <1>0, <2>1
    <2> QED BY <1>1, <2>1, <2>2, <2>3, RowFacts
  <1>5. ASSUME NEW h \in Handlers, ApplyUnpaid(h) \/ ApplySpace(h) PROVE DoneWasApplied'
    <2>1. Busy(h) /\ Feed[task[h].event].kind # "EXITED" /\ UNCHANGED <<processed, acked, exited>>
      BY <1>5 DEF ApplyUnpaid, ApplySpace, At, Busy
    <2>2. \E row \in SessionRows : Go(h, "invoice", row) \/ Go(h, "mark", row)
      BY <1>5, <2>1, RowFacts DEF ApplyUnpaid, ApplySpace
    <2> QED BY <1>1, <2>1, <2>2
  <1>6. ASSUME NEW h \in Handlers, NEW e \in Events, Deliver(h, e) PROVE DoneWasApplied'
    <2>1. UNCHANGED <<processed, exited>>
      BY <1>6 DEF Deliver
    <2>2. acked' = acked \/ (e \in processed /\ acked' = acked \cup {e})
      BY <1>6 DEF Deliver
    <2>3. \A g \in Handlers : task'[g] = task[g] \/ task'[g].pc = "read"
      BY <1>6 DEF Deliver
    <2> QED BY <1>0, <2>1, <2>2, <2>3 DEF About
  <1>7. ASSUME NEW h \in Handlers, Clash(h) \/ Throw(h) PROVE DoneWasApplied'
    <2>1. processed' \subseteq processed /\ UNCHANGED <<acked, exited>>
      BY <1>7 DEF Clash, Throw, Fail
    <2>2. task' = [task EXCEPT ![h] = Idle]
      BY <1>7 DEF Clash, Throw, Fail
    <2>3. \A g \in Handlers : task'[g] = task[g] \/ task'[g].pc = "idle"
      BY <2>2 DEF Idle
    <2> QED BY <1>0, <2>1, <2>3 DEF About
  <1>8. ASSUME NEW h \in Handlers, Mark(h) PROVE DoneWasApplied'
    <2>1. /\ task[h].pc = "mark" /\ UNCHANGED exited
          /\ processed' = processed \cup {task[h].event}
          /\ acked' \subseteq acked \cup {task[h].event}
          /\ task' = [task EXCEPT ![h] = Idle]
      BY <1>8 DEF Mark
    <2>2. Feed[task[h].event].kind = "EXITED" => Feed[task[h].event].visit \in exited
      BY <1>0, <2>1 DEF About
    <2>3. \A g \in Handlers : task'[g] = task[g] \/ task'[g].pc = "idle"
      BY <2>1 DEF Idle
    <2> QED BY <1>0, <2>1, <2>2, <2>3 DEF About
  <1>9. ASSUME Restart PROVE DoneWasApplied'
    BY <1>0, <1>9 DEF Restart, Idle, About
  <1>10. ASSUME NEW h \in Handlers, TimeOut(h) PROVE DoneWasApplied'
    BY <1>0, <1>10 DEF TimeOut, About
  <1>11. ASSUME NEW v \in Sessions, PayInvoice(v) \/ PayBeforeExit(v) \/ PayWrite(v)
         PROVE  DoneWasApplied'
    BY <1>0, <1>11 DEF PayInvoice, PayBeforeExit, PayRead, PayWrite, About
  <1>12. CASE UNCHANGED vars
    BY <1>0, <1>12 DEF vars, About
  <1> QED BY <1>2, <1>3, <1>4, <1>5, <1>6, <1>7, <1>8, <1>9, <1>10, <1>11, <1>12 DEF Next, Handler

---------------------------------------------------------------------------
\* The conjunction IInv is inductive: it holds at first and every step keeps it.
THEOREM SpecIInv == Spec => []IInv
  <1>1. IInv /\ [Next]_vars => IInv'
    <2> SUFFICES ASSUME IInv, [Next]_vars PROVE IInv'
      OBVIOUS
    <2>1. TypeOK' /\ StepsFit' /\ OneWriter' /\ ClockKnown' /\ DoneWasApplied'
      BY NextTypes, NextOneWriter, NextClockKnown, NextDone
    <2>2. ExitedStaysClosed' /\ ClockPastEntry'
      BY NextClosed DEF Closed, ExitedStaysClosed, ClockPastEntry
    <2> QED BY <2>1, <2>2 DEF IInv
  <1> QED BY InitIInv, <1>1, PTL DEF Spec

\* Type correctness of the cloud's session handlers.
THEOREM SpecTypeOK == Spec => []TypeOK
  <1>1. IInv => TypeOK
    BY DEF IInv
  <1> QED BY SpecIInv, <1>1, PTL

\* Late, repeated and overtaken events do not reopen an exited session: only two
\* writers of it at once can (applyEdgeParkingSessionEvent's stale test).
THEOREM SpecExitedStaysClosed == Spec => []ExitedStaysClosed
  <1>1. IInv => ExitedStaysClosed
    BY DEF IInv
  <1> QED BY SpecIInv, <1>1, PTL

\* An exit the edge's worker has put away was applied by the cloud, whatever
\* failed, timed out or was answered from the inbox.
THEOREM SpecAckedExitWasApplied == Spec => []AckedExitWasApplied
  <1>1. IInv => AckedExitWasApplied
    BY DEF IInv, DoneWasApplied
  <1> QED BY SpecIInv, <1>1, PTL
---------------------------------------------------------------------------
\* A step that gives no handler an event keeps NewestAtWork, if what it marks or
\* writes was at work.
LEMMA StepsOfTheNewest ==
  ASSUME TypeOK, NewestAtWork, UNCHANGED <<reached, inverted>>,
         \A g \in Handlers : Busy(g)' => Busy(g) /\ task'[g].event = task[g].event,
         \A e \in (processed' \cup written') \ (processed \cup written) :
            \E g \in Handlers : Busy(g) /\ e = task[g].event
  PROVE  NewestAtWork'
  <1>1. \A e \in processed' \cup written' : e <= reached
    BY DEF NewestAtWork
  <1> QED BY <1>1 DEF NewestAtWork, Busy

\* Every step keeps what is at work the youngest, deliveries by the history they keep.
LEMMA NextNewestAtWork == IInv /\ NewestAtWork /\ [Next]_vars => NewestAtWork'
  <1> SUFFICES ASSUME IInv, NewestAtWork, [Next]_vars PROVE NewestAtWork'
    OBVIOUS
  <1> USE HandlerFacts DEF cloud, worker, history
  <1>0. TypeOK
    BY DEF IInv
  <1>1. ASSUME NEW h \in Handlers, NEW e \in Events, Deliver(h, e) PROVE NewestAtWork'
    <2>0. e \in Nat /\ reached \in Nat /\ processed \subseteq Nat /\ written \subseteq Nat
      BY <1>0, FeedFacts DEF TypeOK
    <2>1. /\ reached' = IF e > reached THEN e ELSE reached
          /\ UNCHANGED <<processed, written>>
      BY <1>1 DEF Deliver
    <2>2. reached <= reached' /\ e <= reached'
      BY <2>0, <2>1
    <2>3. \A d \in processed' \cup written' : d <= reached'
      BY <2>0, <2>1 DEF NewestAtWork
    <2>4. CASE e \in processed
      <3>1. UNCHANGED <<task, inverted>>
        BY <1>1, <2>4 DEF Deliver
      <3>2. e <= reached
        BY <2>4 DEF NewestAtWork
      <3>3. reached' = reached
        BY <2>0, <2>1, <3>2
      <3> QED BY <2>3, <3>1, <3>3 DEF NewestAtWork, Busy
    <2>5. CASE e \notin processed
      <3>1. /\ task' = [task EXCEPT ![h] = [pc |-> "read", event |-> e, seen |-> Missing]]
            /\ inverted' = (inverted \/ e < reached \/ \E g \in Handlers : Busy(g))
        BY <1>1, <2>5 DEF Deliver
      <3>2. \A g \in Handlers \ {h} : task'[g] = task[g]
        BY <3>1
      <3>3. task'[h].event = e
        BY <3>1
      <3>4. ASSUME NEW g \in Handlers, Busy(g)'
            PROVE  task'[g].event <= reached' /\ (~inverted' => task'[g].event = reached')
        <4>1. CASE g = h
          <5>1. e < reached => inverted'
            BY <3>1, Zenon
          <5>2. e < reached \/ e = reached'
            BY <2>0, <2>1
          <5> QED BY <2>2, <3>3, <4>1, <5>1, <5>2
        <4>2. CASE g # h
          <5>1. Busy(g) /\ task'[g] = task[g]
            BY <3>2, <3>4, <4>2 DEF Busy
          <5>2. inverted'
            BY <3>1, <5>1, Zenon
          <5>3. task[g].event <= reached /\ task[g].event \in Nat
            BY <5>1, FeedFacts DEF NewestAtWork
          <5> QED BY <2>0, <2>2, <2>1, <5>1, <5>2, <5>3
        <4> QED BY <4>1, <4>2
      <3> QED BY <2>3, <3>4 DEF NewestAtWork
    <2> QED BY <2>4, <2>5
  <1>2. ASSUME NEW h \in Handlers, Busy(h), NEW row, NEW pc, Go(h, pc, row),
               UNCHANGED <<processed, reached, inverted>>,
               written' \subseteq written \cup {task[h].event}
        PROVE  NewestAtWork'
    <2>1. \A g \in Handlers : task'[g].event = task[g].event
      BY <1>2, GoFacts
    <2>2. \A g \in Handlers : Busy(g)' => Busy(g)
      BY <1>2, GoFacts DEF Busy
    <2> QED BY <1>0, <1>2, <2>1, <2>2, StepsOfTheNewest
  <1>3. ASSUME NEW h \in Handlers,
               \/ ReadSession(h) \/ ApplySession(h) \/ Reread(h)
               \/ ApplyUnpaid(h) \/ AddInvoice(h) \/ ApplySpace(h)
        PROVE  NewestAtWork'
    <2>1. /\ Busy(h)
          /\ UNCHANGED <<processed, reached, inverted>>
          /\ written' \subseteq written \cup {task[h].event}
      BY <1>3 DEF ReadSession, ApplySession, Reread, ApplyUnpaid, AddInvoice, ApplySpace,
                  WriteSpace, At, Busy
    <2>2. \E pc, row : Go(h, pc, row)
      BY <1>3 DEF ReadSession, ApplySession, Reread, ApplyUnpaid, AddInvoice, ApplySpace
    <2> QED BY <1>2, <2>1, <2>2
  <1>4. ASSUME NEW h \in Handlers, Clash(h) \/ Throw(h) \/ Mark(h) PROVE NewestAtWork'
    <2>1. /\ task' = [task EXCEPT ![h] = Idle]
          /\ UNCHANGED <<written, reached, inverted>>
          /\ processed' \subseteq processed \cup {task[h].event}
          /\ Busy(h)
      BY <1>4 DEF Clash, Throw, Mark, Fail, At, Busy
    <2>2. \A g \in Handlers : Busy(g)' => Busy(g) /\ task'[g].event = task[g].event
      BY <2>1, IdleEndsWork DEF Busy
    <2> QED BY <1>0, <2>1, <2>2, StepsOfTheNewest
  <1>5. CASE Restart
    <2>1. \A g \in Handlers : ~Busy(g)'
      BY <1>5 DEF Restart, Busy, Idle
    <2> QED BY <1>0, <1>5, <2>1, StepsOfTheNewest DEF Restart
  <1>6. ASSUME UNCHANGED <<task, processed, written, reached, inverted>> PROVE NewestAtWork'
    BY <1>6 DEF NewestAtWork, Busy
  <1>7. ASSUME NEW h \in Handlers, TimeOut(h) PROVE NewestAtWork'
    BY <1>6, <1>7 DEF TimeOut
  <1>8. ASSUME NEW v \in Sessions, PayInvoice(v) \/ PayBeforeExit(v) \/ PayWrite(v)
        PROVE  NewestAtWork'
    BY <1>6, <1>8 DEF PayInvoice, PayBeforeExit, PayRead, PayWrite
  <1>9. CASE UNCHANGED vars
    BY <1>6, <1>9 DEF vars
  <1> QED BY <1>1, <1>3, <1>4, <1>5, <1>7, <1>8, <1>9 DEF Next, Handler

\* Whoever writes the space has the youngest event ever delivered.
LEMMA NextNewestShown == IInv /\ SpaceInv /\ [Next]_vars => NewestShown'
  <1> SUFFICES ASSUME IInv, SpaceInv, [Next]_vars PROVE NewestShown'
    OBVIOUS
  <1> USE HandlerFacts DEF cloud, worker, history
  <1>0. NewestAtWork /\ NewestShown /\ TypeOK
    BY DEF SpaceInv, IInv
  <1>1. ASSUME NEW h \in Handlers, Busy(h), WriteSpace(Shows(task[h].event), task[h].event),
               UNCHANGED inverted
        PROVE  NewestShown'
    <2>1. space' = Shows(task[h].event) /\ written' = written \cup {task[h].event}
      BY <1>1 DEF WriteSpace
    <2>2. ~inverted => \A f \in written : f <= task[h].event
      BY <1>0, <1>1 DEF NewestAtWork
    <2>3. task[h].event \in Nat
      BY <1>1, FeedFacts
    <2>4. ~inverted' => \A f \in written' : f <= task[h].event
      BY <1>1, <2>1, <2>2, <2>3
    <2> DEFINE e == task[h].event
    <2>5. e \in written' /\ space' = Shows(e)
      BY <2>1
    <2> HIDE DEF e
    <2> QED BY <2>4, <2>5 DEF NewestShown, Shows, e
  <1>2. ASSUME NEW h \in Handlers, ApplySession(h) PROVE NewestShown'
    <2>1. /\ Busy(h) /\ Feed[task[h].event].kind \in {"ENTERED", "EXITED"}
          /\ UNCHANGED inverted
          /\ WriteSpace(IF Feed[task[h].event].kind = "ENTERED" THEN "OCCUPIED" ELSE "EMPTY",
                        task[h].event)
      BY <1>2 DEF ApplySession, At, Busy
    <2>2. Shows(task[h].event)
            = IF Feed[task[h].event].kind = "ENTERED" THEN "OCCUPIED" ELSE "EMPTY"
      BY <2>1 DEF Shows
    <2> QED BY <1>1, <2>1, <2>2
  <1>3. ASSUME NEW h \in Handlers, ApplySpace(h) PROVE NewestShown'
    <2>1. /\ Busy(h) /\ Feed[task[h].event].kind = "SPACE"
          /\ UNCHANGED inverted
          /\ WriteSpace(Feed[task[h].event].status, task[h].event)
      BY <1>3 DEF ApplySpace, At, Busy
    <2>2. Shows(task[h].event) = Feed[task[h].event].status
      BY <2>1 DEF Shows
    <2> QED BY <1>1, <2>1, <2>2
  <1>4. ASSUME UNCHANGED <<space, written>>, inverted => inverted' PROVE NewestShown'
    BY <1>0, <1>4 DEF NewestShown, Shows
  <1>5. ASSUME NEW h \in Handlers, NEW e \in Events, Deliver(h, e) PROVE NewestShown'
    BY <1>4, <1>5 DEF Deliver
  <1>6. ASSUME NEW h \in Handlers,
               \/ ReadSession(h) \/ Reread(h) \/ ApplyUnpaid(h) \/ AddInvoice(h)
               \/ Clash(h) \/ Throw(h) \/ Mark(h) \/ TimeOut(h)
        PROVE  NewestShown'
    BY <1>4, <1>6 DEF ReadSession, Reread, ApplyUnpaid, AddInvoice, Clash, Throw, Mark, TimeOut, Fail
  <1>7. CASE Restart
    BY <1>4, <1>7 DEF Restart
  <1>8. ASSUME NEW v \in Sessions, PayInvoice(v) \/ PayBeforeExit(v) \/ PayWrite(v)
        PROVE  NewestShown'
    BY <1>4, <1>8 DEF PayInvoice, PayBeforeExit, PayRead, PayWrite
  <1>9. CASE UNCHANGED vars
    BY <1>4, <1>9 DEF vars
  <1> QED BY <1>2, <1>3, <1>5, <1>6, <1>7, <1>8, <1>9 DEF Next, Handler

\* The youngest event is one, so the choice in SpaceShowsNewest is NewestShown's.
LEMMA TheNewest == TypeOK /\ NewestShown => SpaceShowsNewest
  <1> SUFFICES ASSUME TypeOK, NewestShown, ~inverted, written # {} PROVE
        space = Shows(CHOOSE d \in written : \A f \in written : f <= d)
    BY DEF SpaceShowsNewest
  <1> DEFINE Newest(d) == \A f \in written : f <= d
  <1>1. PICK e \in written : Newest(e) /\ space = Shows(e)
    BY DEF NewestShown
  <1>2. written \subseteq Nat
    BY FeedFacts DEF TypeOK
  <1>3. \A d \in written : Newest(d) => d = e
    BY <1>1, <1>2
  <1>4. (CHOOSE d \in written : Newest(d)) = e
    <2> HIDE DEF Newest
    <2> QED BY <1>1, <1>3
  <1> QED BY <1>1, <1>4

\* The space shows the youngest event that wrote it, whatever failed, restarted or
\* lost its answer, as long as none came after a younger one or beside another.
THEOREM SpecSpaceShowsNewest == Spec => []SpaceShowsNewest
  <1>1. Init => SpaceInv
    BY DEF Init, SpaceInv, NewestAtWork, NewestShown, Busy, Idle
  <1>2. IInv /\ SpaceInv /\ [Next]_vars => SpaceInv'
    BY NextNewestAtWork, NextNewestShown DEF SpaceInv
  <1>3. Spec => []SpaceInv
    BY <1>1, <1>2, SpecIInv, PTL DEF Spec
  <1>4. IInv /\ SpaceInv => SpaceShowsNewest
    BY TheNewest DEF IInv, SpaceInv
  <1> QED BY <1>3, <1>4, SpecIInv, PTL
=============================================================================
