------------------------- MODULE PriceServiceProofs -------------------------
(***************************************************************************)
(* The service says what it does in order and serves nobody once stopped,  *)
(* for every settings file and any depth of managerConnect.                *)
(***************************************************************************)
EXTENDS PriceService, SequenceTheorems, WellFoundedInduction, TLAPS

-----------------------------------------------------------------------------
(* What makes the safety properties inductive. *)

Building == {"build", "construct", "connect", "running", "setRunning"}

Offered == {"reportRunning", "started", "wait"}

Left == {"cleanup", "stopped", "setStopped"}

Stopping == {"stopping", "reportStopping", "stopAcceptor"} \cup Left

Ended == {"report", "done"}

\* The handler has been asked to stop the service and has yet to say so to
\* ServiceMain.
Signalling == ctlPc \in {"stop", "reportStop", "setEvent"}

\* There is no acceptor until managerConnect has returned, which it does on a
\* manager that has answered.
BuiltOnAnswer ==
    /\ mainPc \in Starting \cup {"build", "construct"} => depth = 0
    /\ linkPc = "returned" => answered
    /\ mainPc \in Starting \cup {"build", "construct", "connect"}
       => acceptor = "none"
    /\ acceptor # "none" => answered

\* The event tells ServiceMain of the one stop there is, after the handler has
\* written and reported it; ServiceMain only goes on without when there is no
\* event or the acceptor throws.
OneStop ==
    /\ event = "set" => asked /\ ~Signalling
    /\ threw => mainPc \in Left \cup Ended
    /\ Signalling => asked
    /\ mainPc \in Building \cup Offered /\ created => event # "none"
    /\ Signalling => mainPc \in Offered \/ threw \/ ~created
    /\ mainPc \in Stopping \cup Ended => asked \/ threw \/ ~created
    /\ mainPc \in Starting \cup Building => ~asked
    /\ mainPc \in Offered \cup Stopping /\ asked /\ ctlPc # "stop" /\ ~threw
       => state = "STOP_PENDING"

\* What serviceStatus says where ServiceMain is, and that the manager has not
\* been told more than that.
StateFits ==
    /\ mainPc \in Starting => /\ state \in {"STOPPED", "START_PENDING"}
                              /\ reported.state \in {"STOPPED", "START_PENDING"}
    /\ mainPc = "pending" => state = "START_PENDING"
    /\ mainPc \in Building => /\ state = "START_PENDING"
                              /\ reported.state = "START_PENDING"
    /\ mainPc \in Offered \cup Stopping => state \in {"RUNNING", "STOP_PENDING"}
    /\ mainPc \in {"reportStopping", "stopAcceptor"} => state = "STOP_PENDING"
    /\ mainPc \in Ended /\ created /\ ~threw => state = "STOPPED"
    /\ mainPc \notin Starting /\ created /\ ~threw => Rank[reported.state] <= Rank[state]

\* An acceptor that ServiceMain has left behind is stopped.
StoppedBehind ==
    mainPc \in Left \cup Ended /\ ~threw => acceptor # "started"

ServiceInv ==
    TypeOK /\ BuiltOnAnswer /\ OneStop /\ StateFits /\ StoppedBehind

-----------------------------------------------------------------------------
(* Types. *)

\* The first state has the types declared.
LEMMA InitType == Init => TypeOK
<1>1. MaxDepth \in Nat /\ 0 \in 0..MaxDepth
  BY DepthAssumption
<1>2. Init => LinkTypeOK
  BY <1>1 DEF Init, LinkInit, LinkTypeOK
<1>3. [state |-> "START_PENDING", accepts |-> FALSE]
      \in [state : States, accepts : BOOLEAN]
  BY DEF States
<1>4. QED  BY <1>2, <1>3 DEF Init, TypeOK, States, MainSteps, Starting

\* What a step of managerConnect leaves of its variables has their types.
LEMMA LinkType ==
    ASSUME LinkTypeOK, NEW valid \in BOOLEAN, LinkStep(valid)
    PROVE  LinkTypeOK'
<1>1. MaxDepth \in Nat /\ MaxDepth # 0
  BY DepthAssumption
<1>2. CASE valid /\ Connects
  BY <1>2 DEF LinkTypeOK, Connects
<1>3. CASE ConnectFails
  BY <1>3 DEF LinkTypeOK, ConnectFails
<1>4. CASE serverReconnect(valid)
  BY <1>4 DEF LinkTypeOK, serverReconnect
<1>5. CASE Ask
  <2>1. CASE depth < MaxDepth /\ managerConnect
    <3>1. depth + 1 \in 0..MaxDepth
      BY <1>1, <2>1 DEF LinkTypeOK
    <3>2. QED  BY <2>1, <3>1 DEF LinkTypeOK, managerConnect
  <2>2. CASE ~(depth < MaxDepth /\ managerConnect)
    BY <1>5, <2>2 DEF LinkTypeOK, Ask
  <2>3. QED  BY <2>1, <2>2
<1>6. QED  BY <1>2, <1>3, <1>4, <1>5 DEF LinkStep

\* Every step keeps the types.
LEMMA TypeStep ==
    ASSUME TypeOK, BuiltOnAnswer, [Next]_vars
    PROVE  TypeOK'
<1>0. UNCHANGED linkVars => LinkTypeOK'
  BY DEF TypeOK, LinkTypeOK, linkVars
<1> USE DEF TypeOK, Goto, Report, States, MainSteps, Starting, startVars
<1>1. CASE Register
  BY <1>0, <1>1 DEF Register
<1>2. CASE SetPending
  BY <1>0, <1>2 DEF SetPending
<1>3. CASE ReportPending
  BY <1>0, <1>3 DEF ReportPending
<1>4. CASE ReadSettings
  BY <1>0, <1>4 DEF ReadSettings
<1>5. CASE Construct
  <2>1. depth + 1 \in 0..MaxDepth
    BY <1>5, DepthAssumption DEF Construct, BuiltOnAnswer
  <2>2. LinkTypeOK'
    BY <1>5, <2>1 DEF Construct, managerConnect, LinkTypeOK
  <2>3. QED  BY <1>5, <2>2 DEF Construct
<1>6. CASE Connecting
  <2>1. LinkTypeOK'
    <3>1. PICK valid \in BOOLEAN : LinkStep(valid)
      BY <1>6 DEF Connecting
    <3>2. QED  BY <3>1, LinkType
  <2>2. UNCHANGED <<state, accepts, reported, mainPc, ctlPc, event, acceptor,
                    created, file, settings, asked, threw>>
    BY <1>6 DEF Connecting
  <2>3. QED  BY <2>1, <2>2
<1>7. CASE BuildFails
  BY <1>0, <1>7 DEF BuildFails
<1>8. CASE BuildAcceptor
  BY <1>0, <1>8 DEF BuildAcceptor
<1>9. CASE SetRunning
  BY <1>0, <1>9 DEF SetRunning
<1>10. CASE ReportRunning
  BY <1>0, <1>10 DEF ReportRunning
<1>11. CASE StartAcceptor
  BY <1>0, <1>11 DEF StartAcceptor
<1>12. CASE StartThrows
  BY <1>0, <1>12 DEF StartThrows
<1>13. CASE Woken
  BY <1>0, <1>13 DEF Woken
<1>14. CASE SetStopping
  BY <1>0, <1>14 DEF SetStopping
<1>15. CASE ReportStopping
  BY <1>0, <1>15 DEF ReportStopping
<1>16. CASE StopAcceptor
  BY <1>0, <1>16 DEF StopAcceptor
<1>17. CASE StopThrows
  BY <1>0, <1>17 DEF StopThrows
<1>18. CASE NullAcceptor
  BY <1>0, <1>18 DEF NullAcceptor
<1>19. CASE Cleanup
  BY <1>0, <1>19 DEF Cleanup
<1>20. CASE SetStopped
  BY <1>0, <1>20 DEF SetStopped
<1>21. CASE ReportStopped
  BY <1>0, <1>21 DEF ReportStopped
<1>22. CASE HandlerSetsState
  BY <1>0, <1>22 DEF HandlerSetsState
<1>23. CASE HandlerReports
  BY <1>0, <1>23 DEF HandlerReports
<1>24. CASE HandlerSetsEvent
  BY <1>0, <1>24 DEF HandlerSetsEvent
<1>25. CASE HandlerReportsSame
  BY <1>0, <1>25 DEF HandlerReportsSame
<1>26. CASE ControlStop
  BY <1>0, <1>26 DEF ControlStop
<1>27. CASE ControlOther
  BY <1>0, <1>27 DEF ControlOther
<1>28. CASE UNCHANGED vars
  BY <1>0, <1>28 DEF vars
<1>29. CASE RegisterFails
  BY <1>0, <1>29 DEF RegisterFails
<1>30. CASE AcceptControls
  BY <1>0, <1>30 DEF AcceptControls
<1>31. CASE RefuseControls
  <2>1. mainPc' \in MainSteps /\ accepts' \in BOOLEAN
    BY <1>31 DEF RefuseControls
  <2>2. LinkTypeOK'
    BY <1>0, <1>31 DEF RefuseControls
  <2>3. QED  BY <1>31, <2>1, <2>2 DEF RefuseControls
<1> HIDE DEF TypeOK, Goto, Report, States, MainSteps, Starting, startVars
<1>32. QED
  BY <1>1, <1>2, <1>3, <1>4, <1>5, <1>6, <1>7, <1>8, <1>9, <1>10, <1>11,
     <1>12, <1>13, <1>14, <1>15, <1>16, <1>17, <1>18, <1>19, <1>20, <1>21,
     <1>22, <1>23, <1>24, <1>25, <1>26, <1>27, <1>28, <1>29, <1>30,
     <1>31
  DEF Next, Main, Handler

\* What the acceptor rests on is kept.
LEMMA AnswerStep ==
    ASSUME ServiceInv, [Next]_vars
    PROVE  BuiltOnAnswer'
<1> USE DEF ServiceInv, TypeOK, BuiltOnAnswer, Starting, MainSteps, Goto, Report, startVars, linkVars
<1>1. CASE Register \/ RegisterFails \/ SetPending \/ ReportPending \/ ReadSettings
  BY <1>1 DEF Register, RegisterFails, SetPending, ReportPending, ReadSettings
<1>2. CASE Construct
  BY <1>2 DEF Construct, managerConnect
<1>3. CASE Connecting
  BY <1>3 DEF Connecting, LinkStep, Connects, ConnectFails, serverReconnect, Ask, managerConnect
<1>4. CASE BuildFails \/ BuildAcceptor
  BY <1>4 DEF BuildFails, BuildAcceptor
<1>5. CASE AcceptControls \/ SetRunning \/ ReportRunning \/ StartAcceptor \/ StartThrows
  BY <1>5 DEF AcceptControls, SetRunning, ReportRunning, StartAcceptor, StartThrows
<1>6. CASE Woken \/ SetStopping \/ ReportStopping
  BY <1>6 DEF Woken, SetStopping, ReportStopping
<1>7. CASE StopAcceptor \/ StopThrows \/ NullAcceptor \/ Cleanup
  BY <1>7 DEF StopAcceptor, StopThrows, NullAcceptor, Cleanup
<1>8. CASE RefuseControls \/ SetStopped \/ ReportStopped
  BY <1>8 DEF RefuseControls, SetStopped, ReportStopped
<1>9. CASE Handler
  BY <1>9 DEF Handler, HandlerSetsState, HandlerReports, HandlerSetsEvent, HandlerReportsSame
<1>10. CASE ControlStop \/ ControlOther
  BY <1>10 DEF ControlStop, ControlOther
<1>11. CASE UNCHANGED vars
  BY <1>11 DEF vars
<1> HIDE DEF ServiceInv, BuiltOnAnswer
<1>12. QED
  BY <1>1, <1>2, <1>3, <1>4, <1>5, <1>6, <1>7, <1>8, <1>9, <1>10, <1>11 DEF Next, Main

\* The one stop there is is kept.
LEMMA StopStep ==
    ASSUME ServiceInv, [Next]_vars
    PROVE  OneStop'
<1> USE DEF ServiceInv, TypeOK, OneStop, Starting, Building, Offered, Stopping, Left, Ended, Signalling, StateFits, MainSteps, Goto, Report, startVars, linkVars
<1>1. CASE Register \/ RegisterFails \/ SetPending \/ ReportPending \/ ReadSettings
  BY <1>1 DEF Register, RegisterFails, SetPending, ReportPending, ReadSettings
<1>2. CASE Construct
  BY <1>2 DEF Construct, managerConnect
<1>3. CASE Connecting
  BY <1>3 DEF Connecting
<1>4. CASE BuildFails \/ BuildAcceptor
  BY <1>4 DEF BuildFails, BuildAcceptor
<1>5. CASE AcceptControls \/ SetRunning \/ ReportRunning \/ StartAcceptor \/ StartThrows
  BY <1>5 DEF AcceptControls, SetRunning, ReportRunning, StartAcceptor, StartThrows
<1>6. CASE Woken \/ SetStopping \/ ReportStopping
  BY <1>6 DEF Woken, SetStopping, ReportStopping
<1>7. CASE StopAcceptor \/ StopThrows \/ NullAcceptor \/ Cleanup
  BY <1>7 DEF StopAcceptor, StopThrows, NullAcceptor, Cleanup
<1>8. CASE RefuseControls \/ SetStopped \/ ReportStopped
  BY <1>8 DEF RefuseControls, SetStopped, ReportStopped
<1>9. CASE Handler
  BY <1>9 DEF Handler, HandlerSetsState, HandlerReports, HandlerSetsEvent, HandlerReportsSame
<1>10. CASE ControlStop \/ ControlOther
  BY <1>10 DEF ControlStop, ControlOther
<1>11. CASE UNCHANGED vars
  BY <1>11 DEF vars
<1> HIDE DEF ServiceInv, OneStop
<1>12. QED
  BY <1>1, <1>2, <1>3, <1>4, <1>5, <1>6, <1>7, <1>8, <1>9, <1>10, <1>11 DEF Next, Main

\* What the manager has been told stays behind serviceStatus.
LEMMA StateStep ==
    ASSUME ServiceInv, [Next]_vars
    PROVE  StateFits'
<1> USE DEF ServiceInv, TypeOK, StateFits, OneStop, Starting, Building, Offered, Stopping, Left, Ended, Signalling, Rank, States, MainSteps, Goto, Report, startVars, linkVars
<1>1. CASE Register \/ RegisterFails \/ SetPending \/ ReportPending \/ ReadSettings
  BY <1>1 DEF Register, RegisterFails, SetPending, ReportPending, ReadSettings
<1>2. CASE Construct
  BY <1>2 DEF Construct, managerConnect
<1>3. CASE Connecting
  BY <1>3 DEF Connecting
<1>4. CASE BuildFails \/ BuildAcceptor
  BY <1>4 DEF BuildFails, BuildAcceptor
<1>5. CASE AcceptControls \/ SetRunning \/ ReportRunning \/ StartAcceptor \/ StartThrows
  BY <1>5 DEF AcceptControls, SetRunning, ReportRunning, StartAcceptor, StartThrows
<1>6. CASE Woken \/ SetStopping \/ ReportStopping
  BY <1>6 DEF Woken, SetStopping, ReportStopping
<1>7. CASE StopAcceptor \/ StopThrows \/ NullAcceptor \/ Cleanup
  BY <1>7 DEF StopAcceptor, StopThrows, NullAcceptor, Cleanup
<1>8. CASE RefuseControls \/ SetStopped \/ ReportStopped
  BY <1>8 DEF RefuseControls, SetStopped, ReportStopped
<1>9. CASE Handler
  BY <1>9 DEF Handler, HandlerSetsState, HandlerReports, HandlerSetsEvent, HandlerReportsSame
<1>10. CASE ControlStop \/ ControlOther
  BY <1>10 DEF ControlStop, ControlOther
<1>11. CASE UNCHANGED vars
  BY <1>11 DEF vars
<1> HIDE DEF ServiceInv, StateFits
<1>12. QED
  BY <1>1, <1>2, <1>3, <1>4, <1>5, <1>6, <1>7, <1>8, <1>9, <1>10, <1>11 DEF Next, Main

\* No step leaves a started acceptor behind.
LEMMA LeftStep ==
    ASSUME ServiceInv, [Next]_vars
    PROVE  StoppedBehind'
<1> USE DEF ServiceInv, TypeOK, StoppedBehind, BuiltOnAnswer, OneStop, StateFits, Starting, Building, Offered, Stopping, Left, Ended, Signalling, MainSteps, Goto, Report, startVars, linkVars
<1>1. CASE Register \/ RegisterFails \/ SetPending \/ ReportPending \/ ReadSettings
  BY <1>1 DEF Register, RegisterFails, SetPending, ReportPending, ReadSettings
<1>2. CASE Construct
  BY <1>2 DEF Construct, managerConnect
<1>3. CASE Connecting
  BY <1>3 DEF Connecting
<1>4. CASE BuildFails \/ BuildAcceptor
  BY <1>4 DEF BuildFails, BuildAcceptor
<1>5. CASE AcceptControls \/ SetRunning \/ ReportRunning \/ StartAcceptor \/ StartThrows
  BY <1>5 DEF AcceptControls, SetRunning, ReportRunning, StartAcceptor, StartThrows
<1>6. CASE Woken \/ SetStopping \/ ReportStopping
  BY <1>6 DEF Woken, SetStopping, ReportStopping
<1>7. CASE StopAcceptor \/ StopThrows \/ NullAcceptor \/ Cleanup
  BY <1>7 DEF StopAcceptor, StopThrows, NullAcceptor, Cleanup
<1>8. CASE RefuseControls \/ SetStopped \/ ReportStopped
  BY <1>8 DEF RefuseControls, SetStopped, ReportStopped
<1>9. CASE Handler
  BY <1>9 DEF Handler, HandlerSetsState, HandlerReports, HandlerSetsEvent, HandlerReportsSame
<1>10. CASE ControlStop \/ ControlOther
  BY <1>10 DEF ControlStop, ControlOther
<1>11. CASE UNCHANGED vars
  BY <1>11 DEF vars
<1> HIDE DEF ServiceInv, StoppedBehind
<1>12. QED
  BY <1>1, <1>2, <1>3, <1>4, <1>5, <1>6, <1>7, <1>8, <1>9, <1>10, <1>11 DEF Next, Main

-----------------------------------------------------------------------------
(* What the settings file says, line by line. *)

Line == [key : STRING, value : STRING]

\* The lines up to i that give k a value, and the value they give it.
Given(f, i, k) == {j \in Readable(f) : j <= i /\ f[j].key = k}

Meant(f, i, k) ==
    LET at == Given(f, i, k)
    IN IF at = {} THEN Defaults[k]
       ELSE f[CHOOSE j \in at : \A m \in at : m <= j].value

\* What the loop holds after i lines.
Holds(f, i) == [settings |-> [k \in Keys |-> Meant(f, i, k)],
                lost     |-> \E j \in 1..i : f[j].key \notin Keys]

\* A set of numbers that is not empty has a least one: what induction is here.
LEMMA LeastExists ==
    ASSUME NEW S, S \subseteq Nat, S # {}
    PROVE  \E x \in S : \A y \in S : x <= y
<1> DEFINE R == OpToRel(<, Nat)
<1>1. IsWellFoundedOn(R, Nat)
  BY NatLessThanWellFounded
<1>2. \A x, y \in Nat : y < x => <<y, x>> \in R
  BY Zenon DEF OpToRel
<1> HIDE DEF R
<1>3. PICK x \in S : \A y \in S : <<y, x>> \notin R
  BY <1>1, WFMin
<1>4. ASSUME NEW y \in S PROVE x <= y
  <2>1. x \in Nat /\ y \in Nat /\ ~(y < x)
    BY <1>2, <1>3
  <2>2. QED  BY <2>1
<1>5. QED  BY <1>4

\* A line means something if no key up to it is unknown.
LEMMA ReadableMeans ==
    ASSUME NEW f \in Seq(Line), NEW i \in 1..Len(f)
    PROVE  i \in Readable(f) <=> /\ f[i].key \in Keys
                                 /\ ~\E j \in 1..i - 1 : f[j].key \notin Keys
<1>1. DOMAIN f = 1..Len(f) /\ Len(f) \in Nat
  BY LenProperties
<1>2. \A j : j \in 1..i <=> j \in 1..i - 1 \/ j = i
  BY <1>1
<1>3. QED  BY <1>1, <1>2 DEF Readable

\* The next line changes the setting of its own key, if it means something.
LEMMA MeantStep ==
    ASSUME NEW f \in Seq(Line), NEW i \in 1..Len(f), NEW k \in Keys
    PROVE  Meant(f, i, k) = IF i \in Readable(f) /\ f[i].key = k
                            THEN f[i].value ELSE Meant(f, i - 1, k)
<1>1. DOMAIN f = 1..Len(f) /\ Len(f) \in Nat /\ Readable(f) \subseteq Nat
  BY LenProperties DEF Readable
<1>2. CASE i \in Readable(f) /\ f[i].key = k
  <2> DEFINE at == Given(f, i, k)
  <2>1. i \in at /\ at \subseteq Nat /\ \A m \in at : m <= i
    BY <1>1, <1>2 DEF Given
  <2> HIDE DEF at
  <2> DEFINE last == CHOOSE j \in at : \A m \in at : m <= j
  <2>2. last \in at /\ \A m \in at : m <= last
    BY <2>1
  <2>3. last = i
    <3> HIDE DEF last
    <3>1. last <= i /\ i <= last /\ last \in Nat /\ i \in Nat
      BY <2>1, <2>2
    <3>2. QED  BY <3>1
  <2>4. at # {}
    BY <2>1
  <2>5. Meant(f, i, k) = IF at = {} THEN Defaults[k] ELSE f[last].value
    BY DEF Meant, at
  <2> HIDE DEF last
  <2>6. QED  BY <1>2, <2>3, <2>4, <2>5
<1>3. CASE ~(i \in Readable(f) /\ f[i].key = k)
  <2>1. \A j \in Readable(f) : f[j].key = k => (j <= i <=> j <= i - 1)
    BY <1>1, <1>3
  <2>2. Given(f, i, k) = Given(f, i - 1, k)
    BY <2>1 DEF Given
  <2>3. QED  BY <1>3, <2>2 DEF Meant
<1>4. QED  BY <1>2, <1>3

\* A line is read if no key before it was unknown and its own is not.
LEMMA LineIsRead ==
    ASSUME NEW s, NEW line, line.key \in Keys
    PROVE  ReadLine([settings |-> s, lost |-> FALSE], line)
           = [settings |-> [s EXCEPT ![line.key] = line.value], lost |-> FALSE]
<1> DEFINE read == [settings |-> s, lost |-> FALSE]
<1>1. ReadLine(read, line) = [read EXCEPT !.settings[line.key] = line.value]
  BY DEF ReadLine
<1>2. QED  BY <1>1

\* One turn of the loop.
LEMMA HoldsStep ==
    ASSUME NEW f \in Seq(Line), NEW i \in 1..Len(f)
    PROVE  Holds(f, i) = ReadLine(Holds(f, i - 1), f[i])
<1> DEFINE was == [k \in Keys |-> Meant(f, i - 1, k)]
           lost == \E j \in 1..i - 1 : f[j].key \notin Keys
           key == f[i].key
<1>1. (\E j \in 1..i : f[j].key \notin Keys) <=> lost \/ key \notin Keys
  <2>1. \A j : j \in 1..i <=> j \in 1..i - 1 \/ j = i
    BY LenProperties
  <2>2. QED  BY <2>1
<1>2. i \in Readable(f) <=> ~lost /\ key \in Keys
  BY ReadableMeans
<1>3. Holds(f, i - 1) = [settings |-> was, lost |-> lost]
  BY DEF Holds
<1>4. CASE lost \/ key \notin Keys
  <2>1. \A k \in Keys : Meant(f, i, k) = Meant(f, i - 1, k)
    BY <1>2, <1>4, MeantStep
  <2>2. Holds(f, i) = [settings |-> was, lost |-> TRUE]
    BY <1>1, <1>4, <2>1 DEF Holds
  <2> HIDE DEF was, lost, key
  <2>3. ReadLine([settings |-> was, lost |-> lost], f[i])
        = [settings |-> was, lost |-> TRUE]
    BY <1>4 DEF ReadLine, key
  <2>4. QED  BY <1>3, <2>2, <2>3
<1>5. CASE ~lost /\ key \in Keys
  <2>1. \A k \in Keys : Meant(f, i, k) = IF k = key THEN f[i].value
                                         ELSE Meant(f, i - 1, k)
    BY <1>2, <1>5, MeantStep
  <2> DEFINE is == [was EXCEPT ![key] = f[i].value]
  <2>2. Holds(f, i) = [settings |-> is, lost |-> FALSE]
    BY <1>1, <1>5, <2>1 DEF Holds
  <2>3. ReadLine([settings |-> was, lost |-> FALSE], f[i])
        = [settings |-> is, lost |-> FALSE]
    BY <1>5, LineIsRead
  <2>4. [settings |-> was, lost |-> lost] = [settings |-> was, lost |-> FALSE]
    BY <1>5
  <2> HIDE DEF was, lost, is
  <2>5. QED  BY <1>3, <2>2, <2>3, <2>4
<1>6. QED  BY <1>4, <1>5

\* The loop of readConfigFile computes what Setting says.
LEMMA ReadIsMeant ==
    ASSUME NEW f \in Seq(Line), NEW k \in Keys
    PROVE  readConfigFile(f)[k] = Setting(f, k)
<1> DEFINE n == Len(f)
           Body(g) == [i \in 0..n |->
                          IF i = 0 THEN [settings |-> Defaults, lost |-> FALSE]
                          ELSE ReadLine(g[i - 1], f[i])]
           upTo == CHOOSE g : g = Body(g)
           holds == [i \in 0..n |-> Holds(f, i)]
<1>1. n \in Nat /\ DOMAIN f = 1..n
  BY LenProperties
<1>2. Holds(f, 0) = [settings |-> Defaults, lost |-> FALSE]
  <2>1. \A x \in Keys : Given(f, 0, x) = {}
    BY <1>1 DEF Given, Readable
  <2>2. [x \in Keys |-> Meant(f, 0, x)] = Defaults
    BY <2>1 DEF Meant, Defaults
  <2>3. ~\E j \in 1..0 : f[j].key \notin Keys
    OBVIOUS
  <2>4. QED  BY <2>2, <2>3 DEF Holds
<1>3. \A i \in 0..n : i = 0 \/ (i \in 1..n /\ i - 1 \in 0..n)
  BY <1>1
<1>4. holds = Body(holds)
  <2>1. ASSUME NEW i \in 0..n
        PROVE  Holds(f, i) = IF i = 0 THEN [settings |-> Defaults, lost |-> FALSE]
                             ELSE ReadLine(holds[i - 1], f[i])
    <3>1. CASE i = 0
      BY <1>2, <3>1
    <3>2. CASE i # 0
      <4>1. i \in 1..n /\ i - 1 \in 0..n
        BY <1>3, <3>2
      <4>2. holds[i - 1] = Holds(f, i - 1)
        BY <4>1
      <4>3. Holds(f, i) = ReadLine(Holds(f, i - 1), f[i])
        BY <4>1, HoldsStep
      <4>4. QED  BY <3>2, <4>2, <4>3
    <3>3. QED  BY <3>1, <3>2
  <2>2. QED  BY <2>1
<1>5. upTo = Body(upTo)
  <2> HIDE DEF Body
  <2>1. QED  BY <1>4
<1>6. /\ upTo[0] = [settings |-> Defaults, lost |-> FALSE]
      /\ \A i \in 1..n : upTo[i] = ReadLine(upTo[i - 1], f[i])
  <2>1. \A i \in 0..n :
           upTo[i] = IF i = 0 THEN [settings |-> Defaults, lost |-> FALSE]
                     ELSE ReadLine(upTo[i - 1], f[i])
    <3> HIDE DEF upTo
    <3>1. QED  BY <1>5
  <2> HIDE DEF upTo, Body
  <2>2. 0 \in 0..n /\ \A i \in 1..n : i \in 0..n /\ i # 0
    BY <1>1
  <2>3. QED  BY <2>1, <2>2
<1>7. readConfigFile(f) = upTo[n].settings
  BY DEF readConfigFile
<1> HIDE DEF upTo, Body
<1>8. \A i \in 0..n : upTo[i] = Holds(f, i)
  <2> DEFINE Bad == {i \in 0..n : upTo[i] # Holds(f, i)}
  <2> SUFFICES ASSUME Bad # {} PROVE FALSE
    OBVIOUS
  <2>1. PICK i \in Bad : \A j \in Bad : i <= j
    <3>1. Bad \subseteq Nat
      BY <1>1
    <3> HIDE DEF Bad
    <3>2. QED  BY <3>1, LeastExists
  <2>2. i # 0
    BY <1>2, <1>6
  <2>3. i \in 1..n /\ i - 1 \in 0..n
    BY <1>3, <2>2
  <2>4. i - 1 \notin Bad
    BY <2>1, <2>3
  <2>5. upTo[i] = ReadLine(Holds(f, i - 1), f[i])
    BY <1>6, <2>3, <2>4
  <2>6. QED  BY <2>3, <2>5, HoldsStep
<1>9. upTo[n].settings[k] = Meant(f, n, k)
  <2>1. upTo[n] = Holds(f, n)
    BY <1>1, <1>8
  <2>2. Holds(f, n).settings = [x \in Keys |-> Meant(f, n, x)]
    BY DEF Holds
  <2>3. QED  BY <2>1, <2>2
<1>10. Meant(f, n, k) = Setting(f, k)
  <2>1. Given(f, n, k) = {i \in Readable(f) : f[i].key = k}
    BY <1>1 DEF Given, Readable
  <2>2. QED  BY <2>1 DEF Meant, Setting
<1>11. QED  BY <1>7, <1>9, <1>10

-----------------------------------------------------------------------------
(* The properties. *)

\* Every step of either thread keeps the invariant.
LEMMA ServiceStep ==
    ASSUME ServiceInv, [Next]_vars
    PROVE  ServiceInv'
<1>1. TypeOK'
  BY TypeStep DEF ServiceInv
<1>2. QED
  BY <1>1, AnswerStep, StopStep, StateStep, LeftStep DEF ServiceInv

\* Where each of the two threads is and what the manager has been told fit
\* together, at every moment of every interleaving.
THEOREM ServiceInvariant == Spec => []ServiceInv
<1>1. Init => ServiceInv
  <2> SUFFICES ASSUME Init PROVE ServiceInv
    OBVIOUS
  <2>1. TypeOK
    BY InitType
  <2>2. BuiltOnAnswer /\ OneStop /\ StoppedBehind
    BY DEF Init, LinkInit, BuiltOnAnswer, OneStop, StoppedBehind, Starting,
           Building, Offered, Stopping, Left, Ended, Signalling
  <2>3. StateFits
    BY DEF Init, StateFits, Starting, Building, Offered, Stopping, Left, Ended
  <2>4. QED  BY <2>1, <2>2, <2>3 DEF ServiceInv
<1>2. ServiceInv /\ [Next]_vars => ServiceInv'
  BY ServiceStep
<1>3. QED  BY <1>1, <1>2, PTL DEF Spec

\* The variables have their types; no call of managerConnect is made beyond the
\* last the stack has room for.
THEOREM TypeCorrect == Spec => []TypeOK
<1>1. ServiceInv => TypeOK
  BY DEF ServiceInv
<1>2. QED  BY <1>1, ServiceInvariant, PTL

\* A service that has said it is stopped serves nobody, unless its acceptor
\* threw: wherever the stop came, ServiceMain finds STOP_PENDING when it decides
\* whether to stop the acceptor.
THEOREM StoppedServesNobodyHolds == Spec => []StoppedServesNobody
<1>1. ServiceInv => StoppedServesNobody
  BY DEF ServiceInv, StoppedBehind, StoppedServesNobody, Ended
<1>2. QED  BY <1>1, ServiceInvariant, PTL

\* Prices are only offered on a manager object that has answered, at whatever
\* depth of managerConnect.
THEOREM StartedOnAnswer == Spec => []StartedOnAnsweringManager
<1>1. ServiceInv => StartedOnAnsweringManager
  BY DEF ServiceInv, BuiltOnAnswer, StartedOnAnsweringManager
<1>2. QED  BY <1>1, ServiceInvariant, PTL

\* What a thread tells the manager is serviceStatus as it then is, and the
\* manager has not been told more: the service never goes back in its eyes.
THEOREM ReportsGoForwardHolds == Spec => ReportsGoForward
<1> DEFINE Forward == mainPc \notin Starting /\ created /\ ~threw
                      => Rank[reported'.state] >= Rank[reported.state]
<1>1. ASSUME ServiceInv, [Next]_vars PROVE [Forward]_vars
  <2> SUFFICES ASSUME mainPc \notin Starting, created, ~threw
               PROVE  Rank[reported'.state] >= Rank[reported.state]
    OBVIOUS
  <2>1. Rank[reported.state] <= Rank[state]
    BY <1>1 DEF ServiceInv, StateFits
  <2>2. Rank[reported.state] \in Nat /\ Rank[state] \in Nat
    BY <1>1 DEF ServiceInv, TypeOK, Rank, States
  <2>3. reported' = reported \/ reported'.state = state
    <3>1. CASE Main
      <4>1. CASE ReportPending \/ ReportRunning \/ ReportStopping \/ ReportStopped
        BY <4>1 DEF ReportPending, ReportRunning, ReportStopping, ReportStopped,
           Report
      <4>2. CASE Connecting
        BY <4>2 DEF Connecting
      <4>3. CASE \/ Register \/ RegisterFails \/ SetPending \/ ReadSettings \/ Construct
                 \/ BuildFails \/ BuildAcceptor \/ AcceptControls \/ SetRunning
                 \/ StartAcceptor \/ StartThrows \/ Woken \/ SetStopping
                 \/ StopAcceptor \/ StopThrows \/ NullAcceptor \/ Cleanup
                 \/ RefuseControls \/ SetStopped
        BY <4>3 DEF Register, RegisterFails, SetPending, ReadSettings, Construct, BuildFails,
           BuildAcceptor, AcceptControls, SetRunning, StartAcceptor,
           StartThrows, Woken, SetStopping, StopAcceptor, StopThrows,
           NullAcceptor, Cleanup, RefuseControls, SetStopped
      <4>4. QED  BY <3>1, <4>1, <4>2, <4>3 DEF Main
    <3>2. CASE Handler
      BY <3>2 DEF Handler, HandlerSetsState, HandlerReports, HandlerSetsEvent,
         HandlerReportsSame, Report
    <3>3. CASE ControlStop \/ ControlOther \/ UNCHANGED vars
      BY <3>3 DEF ControlStop, ControlOther, vars
    <3>4. QED  BY <1>1, <3>1, <3>2, <3>3 DEF Next
  <2>4. QED  BY <2>1, <2>2, <2>3
<1>2. QED  BY <1>1, ServiceInvariant, PTL DEF Spec, ReportsGoForward

\* Whatever the order of its lines, the service runs with the last value a file
\* gives a key before its first unknown key.
THEOREM SettingsAreReadHolds == Spec => []SettingsAreRead
<1> DEFINE Inv == file \in Files /\ SettingsAreRead
           Unread == Starting \cup {"build"}
<1>1. Init => Inv
  BY DEF Init, SettingsAreRead, Starting
<1>2. ASSUME Inv, [Next]_vars PROVE Inv'
  <2>1. CASE ReadSettings
    <3>1. file \in Seq(Line)
      BY <1>2, FilesAssumption DEF Line
    <3>2. \A k \in Keys : readConfigFile(file)[k] = Setting(file, k)
      BY <3>1, ReadIsMeant
    <3>3. file' = file /\ settings' = readConfigFile(file)
      BY <2>1 DEF ReadSettings
    <3>4. QED  BY <1>2, <3>2, <3>3 DEF SettingsAreRead
  <2>2. CASE Next /\ ~ReadSettings
    <3>1. file' = file /\ settings' = settings
          /\ (mainPc' \notin Unread => mainPc \notin Unread)
      <4>1. CASE Main
        BY <2>2, <4>1 DEF Main, Register, RegisterFails, SetPending,
           ReportPending, Construct, Connecting, BuildFails, BuildAcceptor,
           AcceptControls, SetRunning, ReportRunning, StartAcceptor,
           StartThrows, Woken, SetStopping, ReportStopping, StopAcceptor,
           StopThrows, NullAcceptor, Cleanup, RefuseControls, SetStopped,
           ReportStopped, Goto, Starting, startVars
      <4>2. CASE Handler
        BY <4>2 DEF Handler, HandlerSetsState, HandlerReports,
           HandlerSetsEvent, HandlerReportsSame, startVars
      <4>3. CASE ControlStop \/ ControlOther
        BY <4>3 DEF ControlStop, ControlOther, startVars
      <4>4. QED  BY <2>2, <4>1, <4>2, <4>3 DEF Next
    <3>2. QED  BY <1>2, <3>1 DEF SettingsAreRead
  <2>3. CASE UNCHANGED vars
    BY <1>2, <2>3 DEF vars, startVars, SettingsAreRead
  <2>4. QED  BY <1>2, <2>1, <2>2, <2>3
<1>3. Inv => SettingsAreRead
  OBVIOUS
<1>4. QED  BY <1>1, <1>2, <1>3, PTL DEF Spec
=============================================================================
