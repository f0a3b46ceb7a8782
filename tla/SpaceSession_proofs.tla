------------------------ MODULE SpaceSession_proofs ------------------------
(***************************************************************************)
(* Proofs about one parking space: however many requests overlap, it has   *)
(* no more ACTIVE sessions than requests stood before their create at one  *)
(* time; every entry and exit is reported or accounted for; and one        *)
(* request at a time keeps space, sessions and exit times in step.         *)
(***************************************************************************)
EXTENDS SpaceSession, FiniteSetTheorems, TLAPS

\* What one element more or less does to the size of a finite set.
LEMMA OneMoreOneLess ==
  ASSUME NEW S, IsFiniteSet(S), NEW x
  PROVE  /\ Cardinality(S) \in Nat
         /\ Cardinality(S \cup {x}) \in Nat
         /\ Cardinality(S \ {x}) \in Nat
         /\ Cardinality(S \cup {x}) <= Cardinality(S) + 1
         /\ Cardinality(S \ {x}) <= Cardinality(S)
         /\ x \in S => Cardinality(S \ {x}) = Cardinality(S) - 1
         /\ x \notin S => Cardinality(S \cup {x}) = Cardinality(S) + 1
  BY FS_CardinalityType, FS_AddElement, FS_RemoveElement

\* The sets the invariant counts are finite.
LEMMA CountedAreFinite ==
  /\ IsFiniteSet(Existing)
  /\ IsFiniteSet(Active)
  /\ IsFiniteSet(Creators)
  /\ IsFiniteSet(Entering)
  <1>1. IsFiniteSet(Sessions)
    BY BoundAssumption, FS_Interval DEF Sessions
  <1>2. /\ Existing \in SUBSET Sessions
        /\ Active \in SUBSET Sessions
        /\ Creators \in SUBSET Handlers
        /\ Entering \in SUBSET Handlers
    BY DEF Existing, Active, Creators, Entering
  <1> QED BY <1>1, <1>2, HandlersAssumption, FS_Subset

LEMMA CountedAreNumbers ==
  /\ Cardinality(Existing) \in Nat
  /\ Cardinality(Active) \in Nat
  /\ Cardinality(Creators) \in Nat
  /\ Cardinality(Entering) \in Nat
  BY CountedAreFinite, FS_CardinalityType

\* A handler that moves changes only its own membership.
LEMMA GoMoves ==
  ASSUME TypeOK, NEW h \in Handlers, NEW l, Go(h, l)
  PROVE  /\ Creators' = IF l \in {"create", "register"} THEN Creators \cup {h}
                                                        ELSE Creators \ {h}
         /\ Entering' = IF l \in {"enter", "create", "register"} THEN Entering \cup {h}
                                                                 ELSE Entering \ {h}
  BY DEF TypeOK, Go, Creators, Entering

\* The initial space is free and has no session.
LEMMA InitIInv == Init => IInv
  <1> SUFFICES ASSUME Init PROVE IInv
    OBVIOUS
  <1>1. TypeOK
    <2>1. 0 \in 0 .. MaxSessions
      BY BoundAssumption
    <2>2. found \in [Handlers -> 0 .. MaxSessions]
      BY <2>1 DEF Init
    <2> QED BY <2>1, <2>2 DEF Init, TypeOK, Labels
  <1>2. Existing = {} /\ Active = {} /\ Creators = {} /\ Entering = {}
    BY DEF Init, Existing, Active, Creators, Entering
  <1>3. Cardinality({}) = 0
    BY FS_EmptySet
  <1>4. exited = {} /\ AtWork = {}
    BY DEF Init, exited, AtWork
  <1>5. NumberedInOrder /\ WorkIsOnSessions
    BY <1>2, <1>3, <1>4, BoundAssumption
       DEF Init, NumberedInOrder, WorkIsOnSessions, AfterDismiss
  <1>6. PeakCovers
    BY <1>2, <1>3 DEF Init, PeakCovers
  <1>7. OneAtATime /\ SerialExits /\ ExitsAccounted /\ EntryReportOwed
    BY <1>2, <1>4 DEF Init, OneAtATime, SerialExits, ExitsAccounted, EntryReportOwed,
                      AfterDismiss
  <1>8. SpaceInStep
    BY <1>2, <1>4 DEF Init, SpaceInStep, AfterDismiss
  <1> QED BY <1>1, <1>5, <1>6, <1>7, <1>8 DEF IInv

\* A handler that is going to create a session has a number left for it.
LEMMA NumberLeft ==
  ASSUME IInv, NEW h \in Entering
  PROVE  /\ Cardinality(Existing) + 1 \in Sessions
         /\ Cardinality(Existing) + 1 \notin Existing
  <1>1. Cardinality(Entering) >= 1
    <2>1. IsFiniteSet(Entering)
      BY CountedAreFinite
    <2>2. /\ Cardinality(Entering) \in Nat
          /\ Cardinality(Entering \ {h}) \in Nat
          /\ Cardinality(Entering \ {h}) = Cardinality(Entering) - 1
      BY <2>1, OneMoreOneLess
    <2> QED BY <2>2
  <1> QED BY <1>1, CountedAreNumbers, BoundAssumption
          DEF IInv, NumberedInOrder, Sessions

LEMMA NextTypeOK == IInv /\ [Next]_vars => TypeOK'
  <1> SUFFICES ASSUME IInv, [Next]_vars PROVE TypeOK'
    OBVIOUS
  <1> USE DEF IInv, TypeOK, Labels, sessions, task, read, partial, history, Go, Return,
             Arrive, Fault
  <1>1. ASSUME NEW h \in Handlers, NEW occupied \in BOOLEAN, SensorReport(h, occupied)
        PROVE  TypeOK'
    BY <1>1 DEF SensorReport
  <1>2. ASSUME NEW h \in Handlers, NEW l, GoCreate(h, l) PROVE peak' \in Nat
    BY <1>2, CountedAreFinite, OneMoreOneLess DEF GoCreate
  <1>3. ASSUME NEW h \in Handlers, FindActive(h) PROVE TypeOK'
    <2>1. peak' \in Nat
      BY <1>3, <1>2 DEF FindActive
    <2>2. pc' \in [Handlers -> Labels]
      BY <1>3 DEF FindActive, GoCreate
    <2>3. found' \in [Handlers -> 0 .. MaxSessions]
      <3>1. Active \subseteq 0 .. MaxSessions
        BY DEF Active, Sessions
      <3>2. UNCHANGED found \/ \E s \in Active : found' = [found EXCEPT ![h] = s]
        BY <1>3 DEF FindActive
      <3> QED BY <3>1, <3>2
    <2> QED BY <1>3, <2>1, <2>2, <2>3 DEF FindActive
  <1>4. ASSUME NEW h \in Handlers, WriteSpace(h) PROVE TypeOK'
    BY <1>4, BoundAssumption DEF WriteSpace
  <1>5. ASSUME NEW h \in Handlers, EngineEntry(h) PROVE TypeOK'
    BY <1>5, <1>2 DEF EngineEntry, GoCreate
  <1>6. ASSUME NEW h \in Handlers, NEW s \in Sessions, EngineExit(h, s) PROVE TypeOK'
    BY <1>6 DEF EngineExit, Sessions
  <1>7. ASSUME NEW h \in Handlers, Create(h) PROVE TypeOK'
    <2> DEFINE s == Cardinality(Existing) + 1
    <2>1. s \in Sessions
      BY <1>7, NumberLeft DEF Create, Creators, Entering
    <2>2. /\ status' = [status EXCEPT ![s] = "ACTIVE"]
          /\ manual' \in {manual, manual \cup {s}}
          /\ found' = [found EXCEPT ![h] = s]
          /\ pc' = [pc EXCEPT ![h] = "report"]
      BY <1>7 DEF Create
    <2> HIDE DEF s
    <2>3. s \in 0 .. MaxSessions
      BY <2>1 DEF Sessions
    <2>4. manual' \in SUBSET Sessions
      BY <2>1, <2>2
    <2> QED BY <1>7, <2>1, <2>2, <2>3, <2>4 DEF Create
  <1>8. ASSUME NEW h \in Handlers, ReportEntry(h) PROVE TypeOK'
    BY <1>8, BoundAssumption DEF ReportEntry, WorkIsOnSessions, Existing
  <1>9. ASSUME NEW h \in Handlers, Bill(h) PROVE TypeOK'
    BY <1>9 DEF Bill
  <1>10. ASSUME NEW h \in Handlers, Close(h) PROVE TypeOK'
    <2>1. found[h] \in Sessions
      BY <1>10 DEF Close, WorkIsOnSessions, Existing
    <2> QED BY <1>10, <2>1, BoundAssumption DEF Close, TimeOfExit
  <1>11. ASSUME NEW h \in Handlers, HandlerFails(h) PROVE TypeOK'
    BY <1>11, BoundAssumption DEF HandlerFails
  <1>12. ASSUME NEW s \in Sessions, PayFromCloud(s) PROVE TypeOK'
    BY <1>12 DEF PayFromCloud
  <1>13. CASE Restart
    BY <1>13, BoundAssumption DEF Restart
  <1>14. ASSUME NEW s \in Sessions, ReadForPartialPayment(s) PROVE TypeOK'
    <2>1. paying' \in 0 .. MaxSessions
      BY <1>14 DEF ReadForPartialPayment, Sessions
    <2>2. readStatus' \in {"none", "ACTIVE", "PAID", "CLOSED"}
      BY <1>14 DEF ReadForPartialPayment
    <2>3. overlapped' \in BOOLEAN
      BY <1>14 DEF ReadForPartialPayment
    <2> QED BY <1>14, <2>1, <2>2, <2>3 DEF ReadForPartialPayment
  <1>15. CASE ApplyPartialPayment
    BY <1>15, BoundAssumption DEF ApplyPartialPayment, WorkIsOnSessions, Existing, Sessions
  <1>16. ASSUME NEW h \in Handlers, ManualEntry(h) PROVE TypeOK'
    BY <1>16, <1>2 DEF ManualEntry, GoCreate
  <1>17. ASSUME NEW h \in Handlers, NEW s \in Sessions, ManualExit(h, s) PROVE TypeOK'
    BY <1>17 DEF ManualExit, Sessions
  <1>18. ASSUME NEW h \in Handlers, Dismiss(h) PROVE TypeOK'
    BY <1>18 DEF Dismiss, WorkIsOnSessions
  <1>19. ASSUME NEW h \in Handlers, Finalize(h) PROVE TypeOK'
    BY <1>19 DEF Finalize
  <1>20. ASSUME NEW h \in Handlers, Collect(h) PROVE TypeOK'
    BY <1>20 DEF Collect
  <1>21. ASSUME NEW h \in Handlers, Refresh(h) PROVE TypeOK'
    <2>1. found[h] \in Sessions
      BY <1>21 DEF Refresh, WorkIsOnSessions, AfterDismiss
    <2> QED BY <1>21, <2>1 DEF Refresh
  <1>22. ASSUME NEW h \in Handlers, Tell(h) PROVE TypeOK'
    <2>1. readExit[h] \in Handlers
      BY <1>22 DEF Tell, WorkIsOnSessions
    <2>2. found' \in [Handlers -> 0 .. MaxSessions]
      BY <1>22, BoundAssumption DEF Tell
    <2> QED BY <1>22, <2>1, <2>2 DEF Tell
  <1>23. CASE UNCHANGED vars
    BY <1>23 DEF vars
  <1> QED BY <1>1, <1>3, <1>4, <1>5, <1>6, <1>7, <1>8, <1>9, <1>10, <1>11, <1>12,
             <1>13, <1>14, <1>15, <1>16, <1>17, <1>18, <1>19, <1>20, <1>21, <1>22, <1>23
          DEF Next, Handler

\* Counts that do not grow stay covered.
LEMMA FewerAreCovered ==
  ASSUME PeakCovers, peak \in Nat, peak' = peak,
         Active' \subseteq Active, Creators' \subseteq Creators
  PROVE  PeakCovers'
  <1>1. /\ Cardinality(Active') \in Nat
        /\ Cardinality(Active') <= Cardinality(Active)
    BY CountedAreFinite, FS_Subset, FS_CardinalityType
  <1>2. /\ Cardinality(Creators') \in Nat
        /\ Cardinality(Creators') <= Cardinality(Creators)
    BY CountedAreFinite, FS_Subset, FS_CardinalityType
  <1> QED BY <1>1, <1>2, CountedAreNumbers DEF PeakCovers

\* A handler that saw no active session may create one: the peak is raised to
\* the number of those that did.
LEMMA CreatorsAreCovered ==
  ASSUME TypeOK, NEW h \in Handlers, NEW l \in {"create", "register"}, GoCreate(h, l),
         Active' = {}
  PROVE  PeakCovers'
  <1>1. Creators' = Creators \cup {h}
    BY GoMoves DEF GoCreate
  <1>2. Cardinality(Creators \cup {h}) \in Nat
    BY CountedAreFinite, OneMoreOneLess
  <1>3. Cardinality(Creators') <= peak'
    BY <1>1, <1>2 DEF GoCreate, TypeOK
  <1>4. Cardinality(Active') = 0
    BY FS_EmptySet
  <1> QED BY <1>1, <1>2, <1>3, <1>4 DEF PeakCovers

LEMMA NextPeakCovers == IInv /\ [Next]_vars => PeakCovers'
  <1> SUFFICES ASSUME IInv, [Next]_vars PROVE PeakCovers'
    OBVIOUS
  <1>0. TypeOK /\ PeakCovers /\ peak \in Nat
    BY DEF IInv, TypeOK
  <1> USE DEF sessions, task, read, partial, history
  <1>1. ASSUME NEW h \in Handlers, NEW l, l \notin {"create", "register"}, Go(h, l),
               UNCHANGED <<status, exitTime, peak>>
        PROVE  PeakCovers'
    <2>1. Creators' \subseteq Creators
      BY <1>0, <1>1, GoMoves
    <2>2. Active' \subseteq Active
      BY <1>1 DEF Active, exited
    <2> QED BY <1>0, <1>1, <2>1, <2>2, FewerAreCovered
  <1>2. ASSUME NEW h \in Handlers, NEW occupied \in BOOLEAN, SensorReport(h, occupied)
        PROVE  PeakCovers'
    <2>1. Go(h, "enter") \/ Go(h, "leave")
      BY <1>2 DEF SensorReport
    <2>2. UNCHANGED <<status, exitTime, peak>>
      BY <1>2 DEF SensorReport
    <2> QED BY <1>1, <2>1, <2>2
  <1>3. ASSUME NEW h \in Handlers, FindActive(h) PROVE PeakCovers'
    <2>1. CASE GoCreate(h, "create") /\ Active = {}
      <3>1. Active' = {}
        BY <1>3, <2>1 DEF FindActive, Active, exited
      <3> QED BY <1>0, <2>1, <3>1, CreatorsAreCovered
    <2>2. CASE \E l \in {"occupy", "clear", "bill"} : Go(h, l) /\ UNCHANGED peak
      <3>1. UNCHANGED <<status, exitTime>>
        BY <1>3 DEF FindActive
      <3> QED BY <1>1, <2>2, <3>1
    <2> QED BY <1>3, <2>1, <2>2 DEF FindActive
  <1>4. ASSUME NEW h \in Handlers,
               WriteSpace(h) \/ ReportEntry(h) \/ HandlerFails(h) \/ Refresh(h) \/ Tell(h)
        PROVE  PeakCovers'
    BY <1>1, <1>4 DEF WriteSpace, ReportEntry, HandlerFails, Refresh, Tell, Return
  <1>5. ASSUME NEW h \in Handlers, EngineEntry(h) \/ ManualEntry(h) PROVE PeakCovers'
    <2>1. Active' = {}
      BY <1>5 DEF EngineEntry, ManualEntry, Active, Open, Existing, exited
    <2>2. GoCreate(h, "create") \/ GoCreate(h, "register")
      BY <1>5 DEF EngineEntry, ManualEntry
    <2> QED BY <1>0, <2>1, <2>2, CreatorsAreCovered
  <1>6. ASSUME NEW h \in Handlers, NEW s \in Sessions,
               EngineExit(h, s) \/ ManualExit(h, s)
        PROVE  PeakCovers'
    BY <1>1, <1>6 DEF EngineExit, ManualExit
  <1>7. ASSUME NEW h \in Handlers, Create(h) PROVE PeakCovers'
    <2> DEFINE s == Cardinality(Existing) + 1
    <2>1. Active' \subseteq Active \cup {s}
      BY <1>0, <1>7 DEF Create, Active, exited, TypeOK
    <2>2. Creators' = Creators \ {h}
      BY <1>0, <1>7, GoMoves DEF Create
    <2>3. h \in Creators
      BY <1>7 DEF Create
    <2>4. Cardinality(Creators') = Cardinality(Creators) - 1
      BY <2>2, <2>3, CountedAreFinite, OneMoreOneLess
    <2>5. /\ IsFiniteSet(Active \cup {s})
          /\ Cardinality(Active \cup {s}) \in Nat
          /\ Cardinality(Active \cup {s}) <= Cardinality(Active) + 1
      BY CountedAreFinite, OneMoreOneLess, FS_AddElement
    <2>6. /\ Cardinality(Active') \in Nat
          /\ Cardinality(Active') <= Cardinality(Active \cup {s})
      BY <2>1, <2>5, FS_Subset, FS_CardinalityType
    <2>7. peak' = peak
      BY <1>7 DEF Create
    <2> HIDE DEF s
    <2> QED BY <1>0, <2>4, <2>5, <2>6, <2>7, CountedAreNumbers DEF PeakCovers
  <1>8. ASSUME NEW h \in Handlers, Bill(h) PROVE PeakCovers'
    BY <1>1, <1>8 DEF Bill
  <1>9. ASSUME NEW h \in Handlers, Close(h) PROVE PeakCovers'
    <2>1. Creators' \subseteq Creators
      BY <1>0, <1>9, GoMoves DEF Close, Return
    <2>2. Active' \subseteq Active
      BY <1>0, <1>9 DEF Close, Active, exited, TypeOK
    <2> QED BY <1>0, <1>9, <2>1, <2>2, FewerAreCovered DEF Close
  <1>10. ASSUME NEW s \in Sessions, PayFromCloud(s) PROVE PeakCovers'
    <2>1. Active' \subseteq Active /\ Creators' = Creators
      BY <1>0, <1>10 DEF PayFromCloud, Active, exited, Creators, TypeOK
    <2> QED BY <1>0, <1>10, <2>1, FewerAreCovered DEF PayFromCloud
  <1>11. CASE Restart
    <2>1. Active' = Active /\ Creators' = {}
      BY <1>11 DEF Restart, Active, exited, Creators
    <2> QED BY <1>0, <1>11, <2>1, FewerAreCovered DEF Restart
  <1>12. CASE \E s \in Sessions : ReadForPartialPayment(s)
    <2>1. Active' = Active /\ Creators' = Creators /\ peak' = peak
      BY <1>12 DEF ReadForPartialPayment, Active, exited, Creators
    <2> QED BY <1>0, <2>1, FewerAreCovered
  <1>13. CASE ApplyPartialPayment
    <2>1. Creators' = Creators /\ peak' = peak
      BY <1>13 DEF ApplyPartialPayment, Creators
    <2>2. status[paying] = readStatus \/ paying \in exited
      BY <1>13 DEF ApplyPartialPayment, IInv, WorkIsOnSessions
    <2>3. Active' \subseteq Active
      BY <1>0, <1>13, <2>2 DEF ApplyPartialPayment, Active, exited, TypeOK
    <2> QED BY <1>0, <2>1, <2>3, FewerAreCovered
  <1>14. ASSUME NEW h \in Handlers, Dismiss(h) \/ Finalize(h) \/ Collect(h)
         PROVE  PeakCovers'
    <2>1. PICK l \in {"finalize", "collect", "refresh"} : Go(h, l)
      BY <1>14 DEF Dismiss, Finalize, Collect
    <2>2. Creators' \subseteq Creators
      BY <1>0, <2>1, GoMoves
    <2>3. Active' \subseteq Active
      <3>1. CASE Dismiss(h)
        BY <1>0, <3>1 DEF Dismiss, Active, exited, TypeOK
      <3>2. CASE Finalize(h)
        BY <1>0, <3>2, HandlersAssumption DEF Finalize, Active, exited, TypeOK
      <3>3. CASE Collect(h)
        BY <1>0, <3>3 DEF Collect, Active, exited, TypeOK
      <3> QED BY <1>14, <3>1, <3>2, <3>3
    <2>4. peak' = peak
      BY <1>14 DEF Dismiss, Finalize, Collect
    <2> QED BY <1>0, <2>2, <2>3, <2>4, FewerAreCovered
  <1>15. CASE UNCHANGED vars
    <2>1. Active' = Active /\ Creators' = Creators /\ peak' = peak
      BY <1>15 DEF vars, Active, exited, Creators
    <2> QED BY <1>0, <2>1, FewerAreCovered
  <1> QED BY <1>2, <1>3, <1>4, <1>5, <1>6, <1>7, <1>8, <1>9, <1>10, <1>11, <1>12,
             <1>13, <1>14, <1>15
          DEF Next, Handler

\* The numbers stay in order when no session is created and at most one
\* request arrives, and that only if there is room.
LEMMA NumbersKept ==
  ASSUME NumberedInOrder, Existing' = Existing, Entering' \subseteq Entering
  PROVE  NumberedInOrder'
  <1>1. /\ Cardinality(Entering') \in Nat
        /\ Cardinality(Entering') <= Cardinality(Entering)
    BY CountedAreFinite, FS_Subset, FS_CardinalityType
  <1> QED BY <1>1, CountedAreNumbers, BoundAssumption DEF NumberedInOrder

LEMMA NumbersKeptByArrival ==
  ASSUME NumberedInOrder, RoomForEntry, Existing' = Existing,
         NEW h, Entering' = Entering \cup {h}
  PROVE  NumberedInOrder'
  <1>1. /\ Cardinality(Entering \cup {h}) \in Nat
        /\ Cardinality(Entering \cup {h}) <= Cardinality(Entering) + 1
    BY CountedAreFinite, OneMoreOneLess
  <1>2. Cardinality(Existing') + Cardinality(Entering') <= MaxSessions
    BY <1>1, CountedAreNumbers, BoundAssumption DEF RoomForEntry
  <1> QED BY <1>2 DEF NumberedInOrder

LEMMA NextNumberedInOrder == IInv /\ [Next]_vars => NumberedInOrder'
  <1> SUFFICES ASSUME IInv, [Next]_vars PROVE NumberedInOrder'
    OBVIOUS
  <1>0. TypeOK /\ NumberedInOrder
    BY DEF IInv
  <1> USE DEF sessions, task, read, partial, history
  <1>1. ASSUME NEW h \in Handlers, NEW l, l \notin {"enter", "create", "register"}, Go(h, l),
               Existing' = Existing
        PROVE  NumberedInOrder'
    <2>1. Entering' \subseteq Entering
      BY <1>0, <1>1, GoMoves
    <2> QED BY <1>0, <1>1, <2>1, NumbersKept
  <1>2. ASSUME NEW h \in Handlers, NEW occupied \in BOOLEAN, SensorReport(h, occupied)
        PROVE  NumberedInOrder'
    <2>1. Existing' = Existing
      BY <1>2 DEF SensorReport, Existing
    <2>2. CASE occupied
      <3>1. Entering' = Entering \cup {h}
        BY <1>0, <1>2, <2>2, GoMoves DEF SensorReport
      <3> QED BY <1>0, <1>2, <2>1, <2>2, <3>1, NumbersKeptByArrival DEF SensorReport
    <2>3. CASE ~occupied
      BY <1>1, <1>2, <2>1, <2>3 DEF SensorReport
    <2> QED BY <2>2, <2>3
  <1>3. ASSUME NEW h \in Handlers, FindActive(h) PROVE NumberedInOrder'
    <2>1. Existing' = Existing
      BY <1>3 DEF FindActive, Existing
    <2>2. CASE pc[h] = "enter" /\ GoCreate(h, "create")
      <3>1. Entering' = Entering
        BY <1>0, <2>2, GoMoves DEF GoCreate, Entering
      <3> QED BY <1>0, <2>1, <3>1, NumbersKept
    <2>3. CASE \E l \in {"occupy", "clear", "bill"} : Go(h, l)
      BY <1>1, <2>1, <2>3
    <2> QED BY <1>3, <2>2, <2>3 DEF FindActive
  <1>4. ASSUME NEW h \in Handlers,
               \/ WriteSpace(h) \/ ReportEntry(h) \/ HandlerFails(h) \/ Bill(h)
               \/ Finalize(h) \/ Refresh(h) \/ Tell(h)
        PROVE  NumberedInOrder'
    <2>1. Existing' = Existing
      BY <1>4 DEF WriteSpace, ReportEntry, HandlerFails, Bill, Finalize, Refresh, Tell, Existing
    <2>2. \E l \in {"idle", "close", "collect", "tell"} : Go(h, l)
      BY <1>4 DEF WriteSpace, ReportEntry, HandlerFails, Bill, Finalize, Refresh, Tell, Return
    <2> QED BY <1>1, <2>1, <2>2
  <1>5. ASSUME NEW h \in Handlers, EngineEntry(h) \/ ManualEntry(h) PROVE NumberedInOrder'
    <2>1. Existing' = Existing
      BY <1>5 DEF EngineEntry, ManualEntry, Existing
    <2>2. Entering' = Entering \cup {h}
      BY <1>0, <1>5, GoMoves DEF EngineEntry, ManualEntry, GoCreate
    <2> QED BY <1>0, <1>5, <2>1, <2>2, NumbersKeptByArrival DEF EngineEntry, ManualEntry
  <1>6. ASSUME NEW h \in Handlers, NEW s \in Sessions,
               EngineExit(h, s) \/ ManualExit(h, s)
        PROVE  NumberedInOrder'
    <2>1. Existing' = Existing
      BY <1>6 DEF EngineExit, ManualExit, Existing
    <2> QED BY <1>1, <1>6, <2>1 DEF EngineExit, ManualExit
  <1>7. ASSUME NEW h \in Handlers, Create(h) PROVE NumberedInOrder'
    <2> DEFINE s == Cardinality(Existing) + 1
    <2>1. h \in Entering
      BY <1>7 DEF Create, Creators, Entering
    <2>2. s \in Sessions /\ s \notin Existing
      BY <2>1, NumberLeft
    <2>3. Existing' = Existing \cup {s}
      BY <1>0, <1>7, <2>2 DEF Create, Existing, TypeOK
    <2>4. Cardinality(Existing') = s
      BY <2>2, <2>3, CountedAreFinite, OneMoreOneLess
    <2>5. Existing' = 1 .. Cardinality(Existing')
      <3>1. Existing' = (1 .. Cardinality(Existing)) \cup {Cardinality(Existing) + 1}
        BY <1>0, <2>3 DEF NumberedInOrder
      <3> QED BY <2>4, <3>1, CountedAreNumbers
    <2>6. Entering' = Entering \ {h}
      BY <1>0, <1>7, GoMoves DEF Create
    <2>7. Cardinality(Entering') = Cardinality(Entering) - 1
      BY <2>1, <2>6, CountedAreFinite, OneMoreOneLess
    <2>8. Cardinality(Existing') + Cardinality(Entering') <= MaxSessions
      BY <1>0, <2>4, <2>7, CountedAreNumbers, BoundAssumption DEF NumberedInOrder
    <2> QED BY <2>5, <2>8 DEF NumberedInOrder
  <1>8. ASSUME NEW h \in Handlers, Close(h) PROVE NumberedInOrder'
    <2>1. found[h] \in Existing
      BY <1>8 DEF Close, IInv, WorkIsOnSessions
    <2>2. Existing' = Existing
      BY <1>0, <1>8, <2>1 DEF Close, Existing, TypeOK
    <2>3. Go(h, "idle")
      BY <1>8 DEF Close, Return
    <2> QED BY <1>1, <2>2, <2>3
  <1>9. ASSUME NEW s \in Sessions, PayFromCloud(s) PROVE NumberedInOrder'
    <2>1. Existing' = Existing /\ Entering' = Entering
      BY <1>0, <1>9 DEF PayFromCloud, Existing, Entering, TypeOK
    <2> QED BY <1>0, <2>1, NumbersKept
  <1>10. CASE Restart
    <2>1. Existing' = Existing /\ Entering' = {}
      BY <1>10 DEF Restart, Existing, Entering
    <2> QED BY <1>0, <2>1, NumbersKept
  <1>11. CASE \E s \in Sessions : ReadForPartialPayment(s)
    <2>1. Existing' = Existing /\ Entering' = Entering
      BY <1>11 DEF ReadForPartialPayment, Existing, Entering
    <2> QED BY <1>0, <2>1, NumbersKept
  <1>12. CASE ApplyPartialPayment
    <2>1. Entering' = Entering
      BY <1>12 DEF ApplyPartialPayment, Entering
    <2>2. paying \in Existing /\ readStatus # "none"
      BY <1>12 DEF ApplyPartialPayment, IInv, WorkIsOnSessions
    <2>3. Existing' = Existing
      BY <1>0, <1>12, <2>2 DEF ApplyPartialPayment, Existing, TypeOK
    <2> QED BY <1>0, <2>1, <2>3, NumbersKept
  <1>13. ASSUME NEW h \in Handlers, Dismiss(h) \/ Collect(h) PROVE NumberedInOrder'
    <2>1. found[h] \in Existing
      BY <1>13 DEF Dismiss, Collect, IInv, WorkIsOnSessions, AfterDismiss
    <2>2. Existing' = Existing
      BY <1>0, <1>13, <2>1 DEF Dismiss, Collect, Existing, TypeOK
    <2>3. Go(h, "finalize") \/ Go(h, "refresh")
      BY <1>13 DEF Dismiss, Collect
    <2> QED BY <1>1, <2>2, <2>3
  <1>14. CASE UNCHANGED vars
    <2>1. Existing' = Existing /\ Entering' = Entering
      BY <1>14 DEF vars, Existing, Entering
    <2> QED BY <1>0, <2>1, NumbersKept
  <1> QED BY <1>2, <1>3, <1>4, <1>5, <1>6, <1>7, <1>8, <1>9, <1>10, <1>11, <1>12, <1>13, <1>14
          DEF Next, Handler

\* Who waits at which await changes with the one handler that moves.
LEMMA NextWorkIsOnSessions == IInv /\ [Next]_vars => WorkIsOnSessions'
  <1> SUFFICES ASSUME IInv, [Next]_vars PROVE WorkIsOnSessions'
    OBVIOUS
  <1> USE HandlersAssumption
  <1> USE DEF IInv, TypeOK, WorkIsOnSessions, Existing, exited, AfterDismiss, Go, Return, Arrive,
             sessions, task, read, partial, history, Fault
  <1>1. ASSUME NEW h \in Handlers, NEW occupied \in BOOLEAN, SensorReport(h, occupied)
        PROVE  WorkIsOnSessions'
    BY <1>1 DEF SensorReport
  <1>2. ASSUME NEW h \in Handlers, FindActive(h) PROVE WorkIsOnSessions'
    <2>1. UNCHANGED <<status, exitTime, manual, readExit, paying, readStatus>>
      BY <1>2 DEF FindActive
    <2>2. readExit[h] = None
      BY <1>2 DEF FindActive
    <2>3. ASSUME NEW l \in {"occupy", "create", "clear"},
                 pc' = [pc EXCEPT ![h] = l], UNCHANGED found
          PROVE  WorkIsOnSessions'
      BY <2>1, <2>2, <2>3
    <2>4. ASSUME NEW s \in Active,
                 pc' = [pc EXCEPT ![h] = "bill"], found' = [found EXCEPT ![h] = s]
          PROVE  WorkIsOnSessions'
      <3>1. s \in Existing
        BY DEF Active
      <3> QED BY <2>1, <2>2, <2>4, <3>1
    <2> QED BY <1>2, <2>3, <2>4 DEF FindActive, GoCreate
  <1>3. ASSUME NEW h \in Handlers, WriteSpace(h) PROVE WorkIsOnSessions'
    BY <1>3 DEF WriteSpace
  <1>4. ASSUME NEW h \in Handlers, EngineEntry(h) \/ ManualEntry(h) PROVE WorkIsOnSessions'
    BY <1>4 DEF EngineEntry, ManualEntry, GoCreate
  <1>5. ASSUME NEW h \in Handlers, NEW s \in Sessions, EngineExit(h, s)
        PROVE  WorkIsOnSessions'
    BY <1>5 DEF EngineExit
  <1>6. ASSUME NEW h \in Handlers, Create(h) PROVE WorkIsOnSessions'
    <2> DEFINE s == Cardinality(Existing) + 1
    <2>1. s \in Sessions \ Existing
      BY <1>6, NumberLeft DEF Create, Creators, Entering
    <2>2. /\ status' = [status EXCEPT ![s] = "ACTIVE"]
          /\ manual' \in {manual, manual \cup {s}}
          /\ found' = [found EXCEPT ![h] = s]
          /\ pc' = [pc EXCEPT ![h] = "report"]
          /\ UNCHANGED <<exitTime, readExit, paying, readStatus>>
          /\ pc[h] \in {"create", "register"}
      BY <1>6 DEF Create, Creators
    <2> HIDE DEF s
    <2>3. Existing' = Existing \cup {s} /\ exited' = exited
      BY <2>1, <2>2
    <2>4. \A g \in Handlers : g # h => pc'[g] = pc[g] /\ found'[g] = found[g]
      BY <2>2
    <2>5. pc'[h] = "report" /\ found'[h] = s
      BY <2>2
    <2> QED BY <2>1, <2>2, <2>3, <2>4, <2>5
  <1>7. ASSUME NEW h \in Handlers, ReportEntry(h) PROVE WorkIsOnSessions'
    BY <1>7 DEF ReportEntry
  <1>8. ASSUME NEW h \in Handlers, Bill(h) PROVE WorkIsOnSessions'
    BY <1>8 DEF Bill
  <1>9. ASSUME NEW h \in Handlers, Close(h) PROVE WorkIsOnSessions'
    BY <1>9 DEF Close, TimeOfExit
  <1>10. ASSUME NEW h \in Handlers, HandlerFails(h) PROVE WorkIsOnSessions'
    BY <1>10 DEF HandlerFails
  <1>11. ASSUME NEW s \in Sessions, PayFromCloud(s) PROVE WorkIsOnSessions'
    BY <1>11 DEF PayFromCloud
  <1>12. CASE Restart
    BY <1>12 DEF Restart
  <1>13. ASSUME NEW s \in Sessions, ReadForPartialPayment(s) PROVE WorkIsOnSessions'
    BY <1>13 DEF ReadForPartialPayment
  <1>14. CASE ApplyPartialPayment
    BY <1>14 DEF ApplyPartialPayment
  <1>15. ASSUME NEW h \in Handlers, NEW s \in Sessions, ManualExit(h, s)
         PROVE  WorkIsOnSessions'
    BY <1>15 DEF ManualExit, Open
  <1>16. ASSUME NEW h \in Handlers, Dismiss(h) PROVE WorkIsOnSessions'
    BY <1>16 DEF Dismiss
  <1>17. ASSUME NEW h \in Handlers, Finalize(h) PROVE WorkIsOnSessions'
    BY <1>17 DEF Finalize
  <1>18. ASSUME NEW h \in Handlers, Collect(h) PROVE WorkIsOnSessions'
    BY <1>18 DEF Collect
  <1>19. ASSUME NEW h \in Handlers, Refresh(h) PROVE WorkIsOnSessions'
    BY <1>19 DEF Refresh
  <1>20. ASSUME NEW h \in Handlers, Tell(h) PROVE WorkIsOnSessions'
    BY <1>20 DEF Tell
  <1>21. CASE UNCHANGED vars
    BY <1>21 DEF vars
  <1> QED BY <1>1, <1>2, <1>3, <1>4, <1>5, <1>6, <1>7, <1>8, <1>9, <1>10, <1>11, <1>12,
             <1>13, <1>14, <1>15, <1>16, <1>17, <1>18, <1>19, <1>20, <1>21
          DEF Next, Handler

LEMMA NextOneAtATime == IInv /\ [Next]_vars => OneAtATime'
  <1> SUFFICES ASSUME IInv, [Next]_vars PROVE OneAtATime'
    OBVIOUS
  <1> USE DEF sessions, task, read, partial, history
  <1>0. TypeOK /\ OneAtATime
    BY DEF IInv
  <1>1. ASSUME NEW h \in Handlers, NEW l, Arrive(h), Go(h, l), UNCHANGED paying
        PROVE  OneAtATime'
    BY <1>0, <1>1 DEF TypeOK, OneAtATime, Arrive, Go, AtWork
  <1>2. ASSUME NEW h \in AtWork, NEW l, Go(h, l), UNCHANGED <<overlapped, paying>>
        PROVE  OneAtATime'
    BY <1>0, <1>2 DEF TypeOK, OneAtATime, Go, AtWork
  <1>3. ASSUME NEW h \in Handlers, Handler(h) PROVE OneAtATime'
    <2>1. UNCHANGED paying /\ \E l \in Labels : Go(h, l)
      BY <1>3 DEF Handler, SensorReport, FindActive, WriteSpace, EngineEntry, EngineExit,
                  ManualEntry, ManualExit, Dismiss, Finalize, Collect, Refresh, Tell,
                  Create, ReportEntry, Bill, Close, HandlerFails, GoCreate, Return, Labels
    <2>2. Arrive(h) \/ (h \in AtWork /\ UNCHANGED overlapped)
      <3>1. CASE pc[h] = "idle"
        BY <1>3, <3>1 DEF Handler, SensorReport, FindActive, WriteSpace, EngineEntry, EngineExit,
                          ManualEntry, ManualExit, Dismiss, Finalize, Collect, Refresh, Tell,
                          Create, ReportEntry, Bill, Close, HandlerFails, Creators
      <3>2. CASE pc[h] # "idle"
        <4>1. h \in AtWork
          BY <3>2 DEF AtWork
        <4>2. CASE FindActive(h) \/ WriteSpace(h) \/ Create(h) \/ ReportEntry(h) \/ Bill(h)
                   \/ Close(h) \/ HandlerFails(h)
          BY <4>1, <4>2 DEF FindActive, WriteSpace, Create, ReportEntry, Bill, Close, HandlerFails
        <4>3. CASE Dismiss(h) \/ Finalize(h) \/ Collect(h) \/ Refresh(h) \/ Tell(h)
          BY <4>1, <4>3 DEF Dismiss, Finalize, Collect, Refresh, Tell
        <4> QED BY <1>3, <3>2, <4>2, <4>3
                DEF Handler, SensorReport, EngineEntry, EngineExit, ManualEntry, ManualExit,
                    Arrive
      <3> QED BY <3>1, <3>2
    <2> QED BY <1>1, <1>2, <2>1, <2>2
  <1>4. ASSUME NEW s \in Sessions, PayFromCloud(s) \/ ReadForPartialPayment(s) PROVE OneAtATime'
    <2>1. pc' = pc
      BY <1>4 DEF PayFromCloud, ReadForPartialPayment
    <2>2. \/ overlapped' = overlapped /\ paying' = paying
          \/ overlapped' = (overlapped \/ AtWork # {})
      BY <1>4 DEF PayFromCloud, ReadForPartialPayment
    <2>3. AtWork' = AtWork
      BY <2>1 DEF AtWork
    <2> QED BY <1>0, <2>2, <2>3 DEF OneAtATime
  <1>5. CASE ApplyPartialPayment
    BY <1>0, <1>5 DEF ApplyPartialPayment, OneAtATime, AtWork
  <1>6. CASE Restart
    BY <1>6 DEF Restart, OneAtATime, AtWork
  <1>7. CASE UNCHANGED vars
    BY <1>0, <1>7 DEF OneAtATime, AtWork, vars
  <1> QED BY <1>3, <1>4, <1>5, <1>6, <1>7 DEF Next

\* Who works alone.
LEMMA OthersIdle ==
  ASSUME IInv, NEW h \in AtWork, ~overlapped
  PROVE  /\ paying = 0
         /\ \A g \in Handlers : g # h => pc[g] = "idle"
  BY DEF IInv, OneAtATime, AtWork

\* The one request at work gives the session its exit time and reports that.
LEMMA NextSerialExits == IInv /\ [Next]_vars => SerialExits'
  <1> SUFFICES ASSUME IInv, [Next]_vars, ~overlapped' PROVE SerialExits'
    BY DEF SerialExits
  <1> USE DEF SerialExits, exited, Existing, AfterDismiss, Go, Return, Arrive, TypeOK, AtWork,
             sessions, task, read, partial, history
  <1>0. TypeOK /\ SerialExits /\ WorkIsOnSessions
    BY DEF IInv
  <1>1. ASSUME NEW h \in Handlers, Arrive(h), NEW l, Go(h, l),
               UNCHANGED <<status, exitTime, exitReports, paying, readStatus>>,
               \A g \in Handlers \ {h} : found'[g] = found[g] /\ readExit'[g] = readExit[g],
               l \in {"bill", "close"} => readExit'[h] = exitTime[found'[h]],
               l = "dismiss" => found'[h] \notin exited,
               l \notin AfterDismiss
        PROVE  SerialExits'
    BY <1>0, <1>1
  <1>2. ASSUME NEW h \in Handlers, NEW occupied \in BOOLEAN, SensorReport(h, occupied)
        PROVE  SerialExits'
    BY <1>0, <1>1, <1>2 DEF SensorReport
  <1>3. ASSUME NEW h \in Handlers, EngineEntry(h) \/ ManualEntry(h) PROVE SerialExits'
    BY <1>0, <1>1, <1>3 DEF EngineEntry, ManualEntry, GoCreate
  <1>4. ASSUME NEW h \in Handlers, NEW s \in Sessions, EngineExit(h, s) PROVE SerialExits'
    BY <1>0, <1>1, <1>4 DEF EngineExit, Sessions
  <1>5. ASSUME NEW h \in Handlers, NEW s \in Sessions, ManualExit(h, s) PROVE SerialExits'
    BY <1>0, <1>1, <1>5 DEF ManualExit, Open, Sessions
  <1>6. ASSUME NEW h \in Handlers, FindActive(h) PROVE SerialExits'
    <2>1. ~overlapped /\ h \in AtWork
      BY <1>6 DEF FindActive
    <2>2. paying = 0 /\ \A g \in Handlers \ {h} : pc'[g] = "idle"
      BY <1>0, <1>6, <2>1, OthersIdle DEF FindActive, GoCreate
    <2>3. UNCHANGED <<status, exitTime, exitReports, readExit, paying>>
      BY <1>6 DEF FindActive
    <2>4. readExit[h] = None
      BY <1>0, <1>6 DEF FindActive, WorkIsOnSessions
    <2>5. pc'[h] = "bill" => found'[h] \in Active
      BY <1>0, <1>6 DEF FindActive, GoCreate
    <2>6. pc'[h] \in {"occupy", "create", "clear", "bill"}
      BY <1>0, <1>6 DEF FindActive, GoCreate
    <2>7. \A s \in Active : exitTime[s] = None
      BY DEF Active
    <2> QED BY <1>0, <2>1, <2>2, <2>3, <2>4, <2>5, <2>6, <2>7
  <1>7. ASSUME NEW h \in Handlers, WriteSpace(h) \/ ReportEntry(h) \/ Bill(h) PROVE SerialExits'
    BY <1>0, <1>7 DEF WriteSpace, ReportEntry, Bill
  <1>8. ASSUME NEW h \in Handlers, Create(h) PROVE SerialExits'
    <2> DEFINE s == Cardinality(Existing) + 1
    <2>1. s \in Sessions \ Existing
      BY <1>8, NumberLeft DEF Create, Creators, Entering
    <2>2. /\ status' = [status EXCEPT ![s] = "ACTIVE"]
          /\ pc' = [pc EXCEPT ![h] = "report"]
          /\ UNCHANGED <<exitTime, exitReports, readExit, paying, overlapped>>
          /\ h \in AtWork
      BY <1>8 DEF Create, Creators
    <2> HIDE DEF s
    <2>3. paying = 0 /\ \A g \in Handlers \ {h} : pc'[g] = "idle"
      BY <1>0, <2>2, OthersIdle
    <2>4. s \notin exited
      BY <1>0, <2>1 DEF WorkIsOnSessions
    <2>5. pc'[h] = "report"
      BY <1>0, <2>2
    <2>6. \A t \in exited' : status'[t] # "ACTIVE"
      BY <1>0, <2>1, <2>2, <2>4
    <2> QED BY <1>0, <2>2, <2>3, <2>5, <2>6
  <1>9. ASSUME NEW h \in Handlers, Close(h) PROVE SerialExits'
    <2>1. /\ h \in AtWork /\ ~overlapped
          /\ readExit[h] = exitTime[found[h]]
          /\ found[h] \in Sessions
      BY <1>0, <1>9 DEF Close, WorkIsOnSessions
    <2>2. paying = 0 /\ \A g \in Handlers : pc'[g] = "idle"
      BY <1>0, <1>9, <2>1, OthersIdle DEF Close
    <2>3. exitTime'[found[h]] = TimeOfExit(h)
      BY <1>0, <1>9, <2>1 DEF Close
    <2>4. exitReports'[found[h]] \subseteq {TimeOfExit(h)}
      <3>1. exitReports[found[h]] \subseteq {exitTime[found[h]]}
        BY <1>0, <2>1, <1>9 DEF Close
      <3>2. exitReports[found[h]] \in SUBSET Handlers
        BY <1>0, <2>1
      <3>3. exitReports[found[h]] \subseteq {TimeOfExit(h)}
        BY <2>1, <3>1, <3>2, HandlersAssumption DEF TimeOfExit
      <3> QED BY <1>0, <1>9, <2>1, <3>3 DEF Close
    <2>5. \A t \in Sessions \ {found[h]} :
             /\ exitReports'[t] = exitReports[t]
             /\ exitTime'[t] = exitTime[t]
             /\ status'[t] = status[t]
      BY <1>0, <1>9, <2>1 DEF Close
    <2>6. status'[found[h]] # "ACTIVE"
      BY <1>0, <1>9, <2>1 DEF Close
    <2>7. paying' = paying
      BY <1>9 DEF Close
    <2> QED BY <1>0, <2>1, <2>2, <2>3, <2>4, <2>5, <2>6, <2>7
  <1>10. ASSUME NEW h \in Handlers, HandlerFails(h) PROVE SerialExits'
    BY <1>0, <1>10 DEF HandlerFails
  <1>11. ASSUME NEW s \in Sessions, PayFromCloud(s) PROVE SerialExits'
    BY <1>0, <1>11 DEF PayFromCloud
  <1>12. CASE Restart
    BY <1>0, <1>12 DEF Restart
  <1>13. ASSUME NEW s \in Sessions, ReadForPartialPayment(s) PROVE SerialExits'
    BY <1>0, <1>13 DEF ReadForPartialPayment, Sessions
  <1>14. CASE ApplyPartialPayment
    <2>1. status' = status
      BY <1>0, <1>14 DEF ApplyPartialPayment, WorkIsOnSessions
    <2> QED BY <1>0, <1>14, <2>1 DEF ApplyPartialPayment
  <1>15. ASSUME NEW h \in Handlers, Dismiss(h) PROVE SerialExits'
    <2>1. h \in AtWork /\ ~overlapped /\ found[h] \in Sessions /\ exitTime[found[h]] = None
      BY <1>0, <1>15 DEF Dismiss, WorkIsOnSessions
    <2>2. paying = 0 /\ (\A g \in Handlers \ {h} : pc'[g] = "idle") /\ pc'[h] = "finalize"
      BY <1>0, <1>15, <2>1, OthersIdle DEF Dismiss
    <2>3. exitReports[found[h]] = {}
      BY <1>0, <2>1, HandlersAssumption, <1>15 DEF Dismiss
    <2> QED BY <1>0, <1>15, <2>1, <2>2, <2>3 DEF Dismiss
  <1>16. ASSUME NEW h \in Handlers, Finalize(h) \/ Collect(h) PROVE SerialExits'
    <2>1. h \in AtWork /\ ~overlapped /\ found[h] \in Sessions /\ exitTime[found[h]] = h
      BY <1>0, <1>16 DEF Finalize, Collect, WorkIsOnSessions
    <2>2. /\ paying = 0
          /\ \A g \in Handlers \ {h} : pc'[g] = "idle"
          /\ pc'[h] \in {"collect", "refresh"}
      BY <1>0, <1>16, <2>1, OthersIdle DEF Finalize, Collect
    <2>3. exitTime' = exitTime
      BY <1>0, <1>16, <2>1 DEF Finalize, Collect
    <2>4. \A s \in Sessions : status'[s] = status[s] \/ status'[s] = "CLOSED"
      BY <1>0, <1>16, <2>1 DEF Finalize, Collect
    <2>5. UNCHANGED <<exitReports, found, readExit, paying>>
      BY <1>16 DEF Finalize, Collect
    <2> QED BY <1>0, <2>1, <2>2, <2>3, <2>4, <2>5
  <1>17. ASSUME NEW h \in Handlers, Refresh(h) PROVE SerialExits'
    BY <1>0, <1>17 DEF Refresh, WorkIsOnSessions
  <1>18. ASSUME NEW h \in Handlers, Tell(h) PROVE SerialExits'
    <2>1. h \in AtWork /\ ~overlapped /\ found[h] \in Sessions
          /\ exitTime[found[h]] = h /\ readExit[h] = h
      BY <1>0, <1>18 DEF Tell, WorkIsOnSessions
    <2> QED BY <1>0, <1>18, <2>1 DEF Tell
  <1>19. CASE UNCHANGED vars
    BY <1>0, <1>19 DEF vars
  <1> QED BY <1>2, <1>3, <1>4, <1>5, <1>6, <1>7, <1>8, <1>9, <1>10, <1>11, <1>12, <1>13,
             <1>14, <1>15, <1>16, <1>17, <1>18, <1>19 DEF Next, Handler

\* No action takes an exit back, unsays a report, forgets a session entered by
\* hand or undoes a fault.
LEMMA OnlyMore ==
  ASSUME IInv, [Next]_vars
  PROVE  /\ \A s \in Sessions : exitReports[s] \subseteq exitReports'[s]
         /\ exited \subseteq exited' /\ Existing \subseteq Existing'
         /\ manual \subseteq manual' /\ entryReported \subseteq entryReported'
         /\ faults \in Nat /\ faults' \in {faults, faults + 1}
  <1> USE DEF exited, Existing, TypeOK, sessions, task, read, partial, history, Return, Arrive,
             Fault
  <1>0. TypeOK /\ WorkIsOnSessions
    BY DEF IInv
  <1>1. ASSUME NEW h \in Handlers,
               \/ \E occupied \in BOOLEAN : SensorReport(h, occupied)
               \/ FindActive(h) \/ WriteSpace(h) \/ EngineEntry(h) \/ ManualEntry(h)
               \/ \E s \in Sessions : EngineExit(h, s) \/ ManualExit(h, s)
               \/ Refresh(h) \/ ReportEntry(h) \/ Bill(h) \/ HandlerFails(h)
        PROVE  /\ UNCHANGED <<status, exitTime, manual, exitReports>>
               /\ entryReported \subseteq entryReported'
               /\ faults' \in {faults, faults + 1}
    BY <1>0, <1>1 DEF SensorReport, FindActive, WriteSpace, EngineEntry, ManualEntry, EngineExit,
                      ManualExit, Refresh, ReportEntry, Bill, HandlerFails
  <1>2. ASSUME NEW h \in Handlers, Create(h)
        PROVE  /\ UNCHANGED <<exitTime, exitReports, entryReported, faults>>
               /\ Existing \subseteq Existing' /\ manual \subseteq manual'
    BY <1>0, <1>2 DEF Create
  <1>3. ASSUME NEW h \in Handlers, Dismiss(h) \/ Finalize(h) \/ Collect(h)
        PROVE  /\ UNCHANGED <<manual, exitReports, entryReported, faults>>
               /\ exited \subseteq exited' /\ Existing \subseteq Existing'
    BY <1>0, <1>3, HandlersAssumption DEF Dismiss, Finalize, Collect
  <1>4. ASSUME NEW h \in Handlers, Close(h) \/ Tell(h)
        PROVE  /\ UNCHANGED <<manual, entryReported, faults>>
               /\ \A s \in Sessions : exitReports[s] \subseteq exitReports'[s]
               /\ exited \subseteq exited' /\ Existing \subseteq Existing'
    <2>1. TimeOfExit(h) # None
      BY HandlersAssumption DEF TimeOfExit
    <2> QED BY <1>0, <1>4, <2>1 DEF Close, Tell
  <1>5. ASSUME ~ \E h \in Handlers : Handler(h)
        PROVE  /\ UNCHANGED <<exitTime, manual, exitReports, entryReported>>
               /\ Existing \subseteq Existing'
               /\ faults' \in {faults, faults + 1}
    BY <1>0, <1>5 DEF Next, PayFromCloud, ReadForPartialPayment, ApplyPartialPayment, Restart,
                      vars, WorkIsOnSessions
  <1> QED BY <1>0, <1>1, <1>2, <1>3, <1>4, <1>5 DEF Handler

\* A session that exits is reported in the same step, or its request has it to
\* do; that request goes on until it has.
LEMMA NextExitsAccounted == IInv /\ [Next]_vars => ExitsAccounted'
  <1> SUFFICES ASSUME IInv, [Next]_vars PROVE ExitsAccounted'
    OBVIOUS
  <1> USE DEF exited, AfterDismiss, Go, Return, TypeOK, sessions, task, read, partial, history
  <1>0. TypeOK /\ WorkIsOnSessions /\ ExitsAccounted
    BY DEF IInv
  <1>1. ASSUME faults' = faults + 1, UNCHANGED <<exitTime, manual, exitReports>>
        PROVE  ExitsAccounted'
    BY <1>0, <1>1 DEF ExitsAccounted, ExitAccounted
  <1>2. ASSUME NEW h \in Handlers, pc[h] \notin AfterDismiss, exited' \subseteq exited,
               \A g \in Handlers \ {h} : pc'[g] = pc[g] /\ found'[g] = found[g]
        PROVE  ExitsAccounted'
    BY <1>0, <1>2, OnlyMore DEF ExitsAccounted, ExitAccounted
  <1>3. ASSUME NEW h \in Handlers,
               \/ \E occupied \in BOOLEAN : SensorReport(h, occupied)
               \/ FindActive(h) \/ WriteSpace(h) \/ EngineEntry(h) \/ ManualEntry(h)
               \/ \E s \in Sessions : EngineExit(h, s) \/ ManualExit(h, s)
               \/ Create(h) \/ ReportEntry(h) \/ Bill(h)
        PROVE  ExitsAccounted'
    BY <1>0, <1>2, <1>3
       DEF SensorReport, FindActive, WriteSpace, EngineEntry, ManualEntry, EngineExit,
           ManualExit, Create, ReportEntry, Bill, GoCreate, Arrive, Creators
  <1>4. ASSUME NEW h \in Handlers, Close(h) PROVE ExitsAccounted'
    <2>1. exited' \subseteq exited \cup {found[h]}
      BY <1>0, <1>4 DEF Close
    <2>2. exitReports'[found[h]] # {}
      BY <1>0, <1>4 DEF Close, WorkIsOnSessions, Existing
    <2>3. pc[h] = "close" /\ \A g \in Handlers \ {h} : pc'[g] = pc[g] /\ found'[g] = found[g]
      BY <1>0, <1>4 DEF Close
    <2> QED BY <1>0, <2>1, <2>2, <2>3, OnlyMore DEF ExitsAccounted, ExitAccounted
  <1>5. ASSUME NEW h \in Handlers,
               Dismiss(h) \/ Finalize(h) \/ Collect(h) \/ Refresh(h)
        PROVE  ExitsAccounted'
    <2>1. exited' \subseteq exited \cup {found[h]} /\ found[h] \in manual
      BY <1>0, <1>5 DEF Dismiss, Finalize, Collect, Refresh, WorkIsOnSessions
    <2>2. pc'[h] \in AfterDismiss /\ found' = found
      BY <1>0, <1>5 DEF Dismiss, Finalize, Collect, Refresh
    <2>3. \A g \in Handlers \ {h} : pc'[g] = pc[g]
      BY <1>0, <1>5 DEF Dismiss, Finalize, Collect, Refresh
    <2> QED BY <1>0, <2>1, <2>2, <2>3, OnlyMore DEF ExitsAccounted, ExitAccounted
  <1>6. ASSUME NEW h \in Handlers, Tell(h) PROVE ExitsAccounted'
    <2>1. exitTime' = exitTime /\ exitReports'[found[h]] # {}
      BY <1>0, <1>6 DEF Tell, WorkIsOnSessions
    <2>2. \A g \in Handlers \ {h} : pc'[g] = pc[g] /\ found'[g] = found[g]
      BY <1>0, <1>6 DEF Tell
    <2> QED BY <1>0, <2>1, <2>2, OnlyMore DEF ExitsAccounted, ExitAccounted
  <1>7. CASE Restart \/ \E h \in Handlers : HandlerFails(h)
    BY <1>1, <1>7 DEF Restart, HandlerFails, Fault
  <1>8. CASE \/ \E s \in Sessions : PayFromCloud(s) \/ ReadForPartialPayment(s)
             \/ ApplyPartialPayment \/ UNCHANGED vars
    <2>1. UNCHANGED <<exitTime, pc, found>>
      BY <1>8 DEF PayFromCloud, ReadForPartialPayment, ApplyPartialPayment, vars
    <2> QED BY <1>0, <2>1, OnlyMore DEF ExitsAccounted, ExitAccounted
  <1> QED BY <1>3, <1>4, <1>5, <1>6, <1>7, <1>8 DEF Next, Handler

\* Only Create makes a session, and leaves its handler at the report.
LEMMA NextEntryReportOwed == IInv /\ [Next]_vars => EntryReportOwed'
  <1> SUFFICES ASSUME IInv, [Next]_vars PROVE EntryReportOwed'
    OBVIOUS
  <1> USE DEF Go, Return, TypeOK, sessions, task, read, partial, history
  <1>0. TypeOK /\ WorkIsOnSessions /\ EntryReportOwed
    BY DEF IInv
  <1>1. ASSUME faults' = faults + 1 PROVE EntryReportOwed'
    BY <1>0, <1>1 DEF EntryReportOwed
  <1>2. ASSUME NEW h \in Handlers, pc[h] # "report", Existing' \subseteq Existing,
               \A g \in Handlers \ {h} : pc'[g] = pc[g] /\ found'[g] = found[g]
        PROVE  EntryReportOwed'
    BY <1>0, <1>2, OnlyMore DEF EntryReportOwed
  <1>3. ASSUME NEW h \in Handlers,
               \/ \E occupied \in BOOLEAN : SensorReport(h, occupied)
               \/ FindActive(h) \/ WriteSpace(h) \/ EngineEntry(h) \/ ManualEntry(h)
               \/ \E s \in Sessions : EngineExit(h, s) \/ ManualExit(h, s)
               \/ Refresh(h) \/ Tell(h) \/ Bill(h) \/ Finalize(h)
        PROVE  EntryReportOwed'
    <2>1. Existing' = Existing /\ pc[h] # "report"
      BY <1>3 DEF SensorReport, FindActive, WriteSpace, EngineEntry, ManualEntry, EngineExit,
                  ManualExit, Refresh, Tell, Bill, Finalize, Existing, Arrive
    <2>2. \A g \in Handlers \ {h} : pc'[g] = pc[g] /\ found'[g] = found[g]
      BY <1>0, <1>3
         DEF SensorReport, FindActive, WriteSpace, EngineEntry, ManualEntry, EngineExit,
             ManualExit, Refresh, Tell, Bill, Finalize, GoCreate
    <2> QED BY <1>2, <2>1, <2>2
  <1>4. ASSUME NEW h \in Handlers, Close(h) \/ Dismiss(h) \/ Collect(h) PROVE EntryReportOwed'
    <2>1. found[h] \in Existing /\ pc[h] # "report"
      BY <1>4 DEF Close, Dismiss, Collect, AfterDismiss, IInv, WorkIsOnSessions
    <2>2. Existing' \subseteq Existing
      BY <1>0, <1>4, <2>1 DEF Close, Dismiss, Collect, Existing
    <2>3. \A g \in Handlers \ {h} : pc'[g] = pc[g] /\ found'[g] = found[g]
      BY <1>0, <1>4 DEF Close, Dismiss, Collect
    <2> QED BY <1>2, <2>1, <2>2, <2>3
  <1>5. ASSUME NEW h \in Handlers, Create(h) PROVE EntryReportOwed'
    <2> DEFINE s == Cardinality(Existing) + 1
    <2>1. /\ pc[h] # "report" /\ pc'[h] = "report" /\ found'[h] = s
          /\ status' = [status EXCEPT ![s] = "ACTIVE"]
          /\ \A g \in Handlers \ {h} : pc'[g] = pc[g] /\ found'[g] = found[g]
      <3>1. s \in Sessions
        BY <1>5, NumberLeft DEF Create, Creators, Entering
      <3> QED BY <1>0, <1>5, <3>1 DEF Create, Creators
    <2> HIDE DEF s
    <2>2. Existing' \subseteq Existing \cup {s}
      BY <1>0, <2>1 DEF Existing
    <2> QED BY <1>0, <2>1, <2>2, OnlyMore DEF EntryReportOwed
  <1>6. ASSUME NEW h \in Handlers, ReportEntry(h) PROVE EntryReportOwed'
    <2>1. Existing' = Existing /\ entryReported' = entryReported \cup {found[h]}
      BY <1>6 DEF ReportEntry, Existing
    <2>2. \A g \in Handlers \ {h} : pc'[g] = pc[g] /\ found'[g] = found[g]
      BY <1>0, <1>6 DEF ReportEntry
    <2> QED BY <1>0, <2>1, <2>2, OnlyMore DEF EntryReportOwed
  <1>7. CASE Restart \/ \E h \in Handlers : HandlerFails(h)
    BY <1>1, <1>7 DEF Restart, HandlerFails, Fault
  <1>8. CASE \/ \E s \in Sessions : PayFromCloud(s) \/ ReadForPartialPayment(s)
             \/ ApplyPartialPayment \/ UNCHANGED vars
    <2>1. UNCHANGED <<pc, found>>
      BY <1>8 DEF PayFromCloud, ReadForPartialPayment, ApplyPartialPayment, vars
    <2>2. Existing' \subseteq Existing
      BY <1>0, <1>8 DEF PayFromCloud, ReadForPartialPayment, ApplyPartialPayment, vars,
                        WorkIsOnSessions, Existing
    <2> QED BY <1>0, <2>1, <2>2, OnlyMore DEF EntryReportOwed
  <1> QED BY <1>3, <1>4, <1>5, <1>6, <1>7, <1>8 DEF Next, Handler

\* Undisturbed, a request finds its session the newest and leaves the space as
\* it leaves the session.
LEMMA NextSpaceInStep == IInv /\ [Next]_vars => SpaceInStep'
  <1> SUFFICES ASSUME IInv, [Next]_vars, Orderly' PROVE SpaceInStep'
    BY DEF SpaceInStep
  <1> USE DEF Go, Return, TypeOK, AtWork, AfterDismiss, IsNewest, sessions, task, read, partial,
             history
  <1>0. TypeOK /\ WorkIsOnSessions
    BY DEF IInv
  <1>1. Orderly
    <2>1. ASSUME NEW h \in Handlers, Handler(h) PROVE ~overlapped /\ ~staleExit
      <3>1. overlapped' = overlapped \/ Arrive(h)
        BY <2>1 DEF Handler, SensorReport, FindActive, WriteSpace, EngineEntry, EngineExit,
                    ManualEntry, ManualExit, Dismiss, Finalize, Collect, Refresh, Tell, Create,
                    ReportEntry, Bill, Close, HandlerFails
      <3>2. staleExit' = staleExit \/ \E s \in Sessions : EngineExit(h, s) \/ ManualExit(h, s)
        BY <2>1 DEF Handler, SensorReport, FindActive, WriteSpace, EngineEntry, ManualEntry,
                    Dismiss, Finalize, Collect, Refresh, Tell, Create, ReportEntry, Bill,
                    Close, HandlerFails
      <3>3. Arrive(h) => ~overlapped
        BY DEF Arrive, Orderly
      <3>4. (\E s \in Sessions : EngineExit(h, s) \/ ManualExit(h, s)) => ~staleExit
        BY DEF EngineExit, ManualExit, Orderly
      <3> QED BY <3>1, <3>2, <3>3, <3>4 DEF Orderly
    <2>2. ASSUME ~ \E h \in Handlers : Handler(h) PROVE ~overlapped /\ ~staleExit
      <3>1. /\ staleExit' = staleExit
            /\ overlapped' = overlapped \/ \E s \in Sessions : ReadForPartialPayment(s)
        BY <2>2 DEF Next, PayFromCloud, ReadForPartialPayment, ApplyPartialPayment,
                    Restart, vars
      <3>2. (\E s \in Sessions : ReadForPartialPayment(s)) => ~overlapped
        BY DEF ReadForPartialPayment, Orderly
      <3> QED BY <3>1, <3>2 DEF Orderly
    <2>3. faults = 0
      BY OnlyMore DEF Orderly
    <2> QED BY <2>1, <2>2, <2>3 DEF Orderly
  <1>2. /\ \A s \in Active : IsNewest(s, Existing)
        /\ \A h \in Handlers :
             /\ pc[h] \in {"bill", "close", "dismiss"} => IsNewest(found[h], Existing)
             /\ pc[h] \in {"create", "register", "clear"} \cup AfterDismiss => Active = {}
             /\ pc[h] = "occupy" => Open # {}
             /\ pc[h] = "report" => space = "OCCUPIED" /\ Open # {}
             /\ pc[h] \in AfterDismiss => space = "EMPTY"
        /\ AtWork = {} => /\ Active # {} => space = "OCCUPIED"
                          /\ space = "OCCUPIED" => Open # {}
    BY <1>1 DEF IInv, SpaceInStep
  <1>3. Active \subseteq Open
    BY DEF Active, Open, Existing
  <1>4. ASSUME NEW h \in AtWork
        PROVE  paying = 0 /\ \A g \in Handlers \ {h} : pc[g] = "idle"
    BY <1>1, <1>4, OthersIdle DEF Orderly
  <1>5. ASSUME NEW h \in Handlers, Arrive(h)
        PROVE  \A g \in Handlers : pc[g] = "idle"
    BY <1>5 DEF Arrive, Orderly
  \* A step of a handler that leaves the sessions alone and goes to l.
  <1>6. ASSUME NEW h \in Handlers, NEW l \in Labels \ {"idle"}, pc' = [pc EXCEPT ![h] = l],
               \A g \in Handlers \ {h} : pc[g] = "idle",
               UNCHANGED <<status, exitTime>>,
               l \in {"bill", "close", "dismiss"} => IsNewest(found'[h], Existing),
               l \in {"create", "register", "clear"} \cup AfterDismiss => Active = {},
               l = "occupy" => Open # {},
               l # "report", l \in AfterDismiss => space' = "EMPTY"
        PROVE  SpaceInStep'
    <2>1. Existing' = Existing /\ Active' = Active /\ Open' = Open
      BY <1>6 DEF Existing, Active, Open, exited
    <2>2. pc'[h] = l /\ \A g \in Handlers \ {h} : pc'[g] = "idle"
      BY <1>0, <1>6
    <2>3. AtWork' # {}
      BY <2>2, <1>6
    <2> QED BY <1>2, <1>6, <2>1, <2>2, <2>3 DEF SpaceInStep
  \* A step that leaves every handler idle.
  <1>7. ASSUME \A g \in Handlers : pc'[g] = "idle",
               \A s \in Active' : IsNewest(s, Existing'),
               Active' # {} => space' = "OCCUPIED",
               space' = "OCCUPIED" => Open' # {}
        PROVE  SpaceInStep'
    BY <1>7 DEF SpaceInStep
  <1>8. ASSUME NEW h \in Handlers, NEW occupied \in BOOLEAN, SensorReport(h, occupied)
        PROVE  SpaceInStep'
    BY <1>5, <1>6, <1>8 DEF SensorReport, Labels
  <1>9. ASSUME NEW h \in Handlers, EngineEntry(h) PROVE SpaceInStep'
    <2>1. Active = {}
      BY <1>9 DEF EngineEntry, Active
    <2> QED BY <1>5, <1>6, <1>9, <2>1 DEF EngineEntry, GoCreate, Labels
  <1>10. ASSUME NEW h \in Handlers, ManualEntry(h) PROVE SpaceInStep'
    <2>1. Active = {}
      BY <1>10, <1>3 DEF ManualEntry, Active
    <2> QED BY <1>5, <1>6, <1>10, <2>1 DEF ManualEntry, GoCreate, Labels
  <1>11. ASSUME NEW h \in Handlers, NEW s \in Sessions, EngineExit(h, s) \/ ManualExit(h, s)
         PROVE  SpaceInStep'
    <2>1. IsNewest(s, Existing)
      BY <1>11 DEF EngineExit, ManualExit, Orderly
    <2>2. found'[h] = s
      BY <1>0, <1>11 DEF EngineExit, ManualExit, Sessions
    <2> QED BY <1>5, <1>6, <1>11, <2>1, <2>2 DEF EngineExit, ManualExit, Labels
  <1>12. ASSUME NEW h \in Handlers, FindActive(h) PROVE SpaceInStep'
    <2>1. \A g \in Handlers \ {h} : pc[g] = "idle"
      BY <1>4, <1>12 DEF FindActive
    <2>2. ASSUME NEW s \in Active, found' = [found EXCEPT ![h] = s]
          PROVE  IsNewest(found'[h], Existing)
      BY <1>0, <1>2, <2>2
    <2> QED BY <1>3, <1>6, <1>12, <2>1, <2>2 DEF FindActive, GoCreate, Labels
  <1>13. ASSUME NEW h \in Handlers, WriteSpace(h) \/ ReportEntry(h) \/ Tell(h)
         PROVE  SpaceInStep'
    <2>1. \A g \in Handlers : pc'[g] = "idle"
      BY <1>0, <1>4, <1>13 DEF WriteSpace, ReportEntry, Tell
    <2>2. Existing' = Existing /\ Active' = Active /\ Open' = Open
      BY <1>13 DEF WriteSpace, ReportEntry, Tell, Existing, Active, Open, exited
    <2>3. \/ pc[h] = "occupy" /\ space' = "OCCUPIED"
          \/ pc[h] = "clear" /\ space' = "EMPTY"
          \/ pc[h] \in {"report", "tell"} /\ space' = space
      BY <1>13 DEF WriteSpace, ReportEntry, Tell
    <2> QED BY <1>2, <1>7, <2>1, <2>2, <2>3
  <1>14. ASSUME NEW h \in Handlers, Create(h) PROVE SpaceInStep'
    <2> DEFINE s == Cardinality(Existing) + 1
    <2>1. s \in Sessions \ Existing
      BY <1>14, NumberLeft DEF Create, Creators, Entering
    <2>2. \A t \in Existing : t <= s
      <3>1. Existing = 1 .. Cardinality(Existing)
        BY DEF IInv, NumberedInOrder
      <3> QED BY <3>1, CountedAreNumbers
    <2>3. s <= s
      BY CountedAreNumbers
    <2>4. /\ status' = [status EXCEPT ![s] = "ACTIVE"]
          /\ exitTime' = exitTime /\ space' = "OCCUPIED"
          /\ pc' = [pc EXCEPT ![h] = "report"]
          /\ pc[h] \in {"create", "register"}
      BY <1>14 DEF Create, Creators
    <2> HIDE DEF s
    <2>5. Active = {} /\ \A g \in Handlers \ {h} : pc[g] = "idle"
      BY <1>2, <1>4, <2>4
    <2>6. s \notin exited
      BY <1>0, <2>1 DEF WorkIsOnSessions
    <2>7. Existing' = Existing \cup {s} /\ Active' = {s} /\ Open' # {}
      BY <1>0, <2>1, <2>4, <2>5, <2>6 DEF Existing, Active, Open, exited
    <2>8. pc'[h] = "report" /\ \A g \in Handlers \ {h} : pc'[g] = "idle"
      BY <1>0, <2>4, <2>5
    <2> QED BY <2>2, <2>3, <2>4, <2>7, <2>8 DEF SpaceInStep
  <1>15. ASSUME NEW h \in Handlers, Bill(h) \/ Refresh(h) PROVE SpaceInStep'
    <2>1. \A g \in Handlers \ {h} : pc[g] = "idle"
      BY <1>4, <1>15 DEF Bill, Refresh
    <2> QED BY <1>2, <1>6, <1>15, <2>1 DEF Bill, Refresh, Labels
  \* The session that is closed was the newest, and no other was ACTIVE.
  <1>16. ASSUME NEW h \in Handlers, Close(h) \/ Dismiss(h)
         PROVE  Active' = {} /\ space' = "EMPTY"
    <2>1. Active \subseteq {found[h]} /\ found[h] \in Existing
      BY <1>2, <1>16 DEF Close, Dismiss, Active, Existing, Sessions
    <2>2. /\ exitTime'[found[h]] # None
          /\ \A t \in Sessions \ {found[h]} : status'[t] = status[t] /\ exitTime'[t] = exitTime[t]
      BY <1>0, <1>16, <2>1, HandlersAssumption DEF Close, Dismiss, TimeOfExit, Existing
    <2>3. Active' = {}
      BY <2>1, <2>2 DEF Active, exited
    <2> QED BY <1>16, <2>3 DEF Close, Dismiss
  <1>17. ASSUME NEW h \in Handlers, Close(h) PROVE SpaceInStep'
    <2>1. \A g \in Handlers : pc'[g] = "idle"
      BY <1>0, <1>4, <1>17 DEF Close
    <2> QED BY <1>7, <1>16, <1>17, <2>1
  <1>18. ASSUME NEW h \in Handlers, Dismiss(h) \/ Finalize(h) \/ Collect(h) PROVE SpaceInStep'
    <2>1. Active' = {} /\ space' = "EMPTY"
      <3>1. CASE Dismiss(h)
        BY <1>16, <3>1
      <3>2. CASE Finalize(h) \/ Collect(h)
        <4>1. Active = {} /\ space' = "EMPTY"
          BY <1>2, <3>2 DEF Finalize, Collect
        <4>2. Active' \subseteq Active
          BY <1>0, <3>2, HandlersAssumption DEF Finalize, Collect, Active, exited
        <4> QED BY <4>1, <4>2
      <3> QED BY <1>18, <3>1, <3>2
    <2>2. pc'[h] \in AfterDismiss /\ \A g \in Handlers \ {h} : pc'[g] = "idle"
      BY <1>0, <1>4, <1>18 DEF Dismiss, Finalize, Collect
    <2>3. AtWork' # {}
      BY <2>2
    <2> QED BY <2>1, <2>2, <2>3 DEF SpaceInStep
  <1>19. CASE Restart \/ \E h \in Handlers : HandlerFails(h)
    BY <1>0, <1>19 DEF Restart, HandlerFails, Fault, Orderly
  \* The rest changes no more than an ACTIVE or CLOSED session to PAID.
  <1>20. ASSUME \/ \E s \in Sessions : PayFromCloud(s) \/ ReadForPartialPayment(s)
                \/ ApplyPartialPayment \/ UNCHANGED vars
         PROVE  SpaceInStep'
    <2>1. UNCHANGED <<space, exitTime, pc, found>>
      BY <1>20 DEF PayFromCloud, ReadForPartialPayment, ApplyPartialPayment, vars
    <2>2. ApplyPartialPayment => status' = status
      BY <1>0, <1>1 DEF ApplyPartialPayment, IInv, SerialExits, Orderly
    <2>3. Existing' = Existing /\ Active' \subseteq Active /\ Open' = Open
      BY <1>0, <1>20, <2>1, <2>2
         DEF PayFromCloud, ReadForPartialPayment, vars, Existing, Active, Open, exited
    <2> QED BY <1>2, <2>1, <2>3 DEF SpaceInStep
  <1> QED BY <1>8, <1>9, <1>10, <1>11, <1>12, <1>13, <1>14, <1>15, <1>17, <1>18, <1>19, <1>20
          DEF Next, Handler

LEMMA NextIInv == IInv /\ [Next]_vars => IInv'
  BY NextTypeOK, NextNumberedInOrder, NextWorkIsOnSessions, NextPeakCovers, NextOneAtATime,
     NextSerialExits, NextExitsAccounted, NextEntryReportOwed, NextSpaceInStep DEF IInv

\* The inductive invariant of the space.
THEOREM SpecIInv == Spec => []IInv
  BY InitIInv, NextIInv, PTL DEF Spec

\* The state of space, sessions and requests is always of the declared type.
THEOREM SpecTypeOK == Spec => []TypeOK
  <1>1. IInv => TypeOK
    BY DEF IInv
  <1> QED BY <1>1, SpecIInv, PTL

\* Whatever the number of requests, sessions and faults: the ACTIVE sessions of
\* the space never outnumber the requests that had passed the "no active
\* session" check of entry or handleOccupancyChanged together.
THEOREM SpecActiveWithinPeak == Spec => []ActiveWithinPeak
  <1>1. IInv => ActiveWithinPeak
    BY CountedAreNumbers DEF IInv, TypeOK, PeakCovers, ActiveWithinPeak
  <1> QED BY <1>1, SpecIInv, PTL

\* Every exit has its event, or the request that exits the session by hand has
\* it to do or was cut off; a second event needs requests at work at once.
THEOREM SpecExitReportedOnce == Spec => []ExitReportedOnce
  <1>1. ASSUME TypeOK, SerialExits, ~overlapped, NEW s \in Sessions
        PROVE  Cardinality(exitReports[s]) <= 1
    <2>1. exitReports[s] \subseteq {exitTime[s]}
      BY <1>1 DEF SerialExits
    <2>2. IsFiniteSet({exitTime[s]}) /\ Cardinality({exitTime[s]}) = 1
      BY FS_Singleton
    <2> QED BY <2>1, <2>2, FS_Subset
  <1>2. ASSUME TypeOK, NEW s \in Sessions PROVE Cardinality(exitReports[s]) \in Nat
    <2>1. exitReports[s] \subseteq Handlers
      BY <1>2 DEF TypeOK
    <2> QED BY <2>1, HandlersAssumption, FS_Subset, FS_CardinalityType
  <1>3. IInv => ExitReportedOnce
    BY <1>1, <1>2 DEF IInv, ExitsAccounted, ExitReportedOnce
  <1> QED BY <1>3, SpecIInv, PTL

\* Without two requests, or a request and the apply of a partial payment, at
\* work at once no session with an exit is ACTIVE.
THEOREM SpecExitedIsNotActive == Spec => []ExitedIsNotActive
  <1>1. IInv => ExitedIsNotActive
    BY DEF IInv, SerialExits, ExitedIsNotActive
  <1> QED BY <1>1, SpecIInv, PTL

\* Without a fault every session's entry is reported, or its request has it to do.
THEOREM SpecEntryReportOwed == Spec => []EntryReportOwed
  <1>1. IInv => EntryReportOwed
    BY DEF IInv
  <1> QED BY <1>1, SpecIInv, PTL

\* Between requests that came one at a time and were not disturbed, an ACTIVE
\* session has its space OCCUPIED and an OCCUPIED space a session not exited.
THEOREM SpecSpaceShowsSessions == Spec => []SpaceShowsSessions
  <1>1. IInv => SpaceShowsSessions
    BY DEF IInv, SpaceInStep, SpaceShowsSessions
  <1> QED BY <1>1, SpecIInv, PTL

\* The peak never exceeds the number of requests that can overlap at all.
LEMMA NextPeakInReach ==
  ASSUME peak <= Cardinality(Handlers), [Next]_vars
  PROVE  peak' <= Cardinality(Handlers)
  <1>1. ASSUME NEW h \in Handlers, NEW l, GoCreate(h, l)
        PROVE  peak' <= Cardinality(Handlers)
    <2>1. Creators \cup {h} \in SUBSET Handlers
      BY DEF Creators
    <2>2. Cardinality(Creators \cup {h}) <= Cardinality(Handlers)
      BY <2>1, HandlersAssumption, FS_Subset
    <2> QED BY <1>1, <2>2 DEF GoCreate
  <1>2. ASSUME NEW h \in Handlers, Handler(h), peak' # peak
        PROVE  GoCreate(h, "create") \/ GoCreate(h, "register")
    BY <1>2 DEF Handler, SensorReport, FindActive, WriteSpace, EngineEntry, EngineExit,
                Create, ReportEntry, Bill, Close, HandlerFails, ManualEntry, ManualExit,
                Dismiss, Finalize, Collect, Refresh, Tell, history
  <1>3. (~ \E h \in Handlers : Handler(h)) => peak' = peak
    BY DEF Next, PayFromCloud, ReadForPartialPayment, ApplyPartialPayment, Restart, vars,
           history
  <1> QED BY <1>1, <1>2, <1>3

\* The rule of OccupancyLinkService's comment, "only one ACTIVE session per
\* parking space", is true of an edge that handles the requests of a space one
\* after the other.
THEOREM SerialOneActiveSession ==
  ASSUME Cardinality(Handlers) = 1
  PROVE  Spec => []OneActiveSession
  <1>1. Init => peak <= Cardinality(Handlers)
    BY DEF Init
  <1>2. peak <= Cardinality(Handlers) /\ [Next]_vars => (peak <= Cardinality(Handlers))'
    BY NextPeakInReach
  <1>3. ActiveWithinPeak /\ TypeOK /\ peak <= Cardinality(Handlers) => OneActiveSession
    BY CountedAreNumbers DEF ActiveWithinPeak, TypeOK, OneActiveSession
  <1> QED BY <1>1, <1>2, <1>3, SpecActiveWithinPeak, SpecTypeOK, PTL DEF Spec
=============================================================================
