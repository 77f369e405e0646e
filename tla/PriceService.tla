---------------------------- MODULE PriceService ----------------------------
(***************************************************************************)
(* PrimeXM_Price as a Windows service (CService.h).  ServiceMain runs on   *)
(* one thread, ServiceControlHandler on the dispatcher's; both write the   *)
(* global serviceStatus and pass it to SetServiceStatus without a lock.    *)
(* The service control manager is external: it knows the last status it    *)
(* was passed, asks a service that accepts it to stop once, and may        *)
(* interrogate it at any time until it is stopped.                         *)
(***************************************************************************)
EXTENDS Naturals, Sequences, AppSettings, ManagerLink

CONSTANT Files  \* the settings files of the installations considered

ASSUME FilesAssumption ==
    \A f \in Files : f \in Seq([key : STRING, value : STRING])

VARIABLES
    state,     \* serviceStatus.dwCurrentState
    accepts,   \* serviceStatus.dwControlsAccepted is not 0
    reported,  \* [state, accepts] as SetServiceStatus last passed them
    mainPc,    \* where ServiceMain is
    ctlPc,     \* where ServiceControlHandler is
    event,     \* stopServiceEvent: "none", "reset" or "set"
    acceptor,  \* "none", "built", "started", "stopped"
    created,   \* CreateEvent has not failed
    file,      \* PriceAppSetting.txt
    settings,  \* what AppStart has read of it
    asked,     \* ghost: the manager has asked the service to stop
    threw      \* ghost: acceptor->start() or acceptor->stop() has thrown

\* What only the start of the service touches.
startVars == <<created, file, settings, linkVars>>

vars == <<state, accepts, reported, mainPc, ctlPc, event, acceptor, startVars,
          asked, threw>>

States == {"STOPPED", "START_PENDING", "RUNNING", "STOP_PENDING"}

\* Before the first report; "unregistered": ServiceMain has returned.
Starting == {"register", "unregistered", "registered", "pending"}

MainSteps ==
    Starting \cup
    {"build", "construct", "connect", "running", "setRunning",
     "reportRunning", "started", "wait", "stopping", "reportStopping",
     "stopAcceptor", "cleanup", "stopped", "setStopped", "report", "done",
     "crashed"}

TypeOK ==
    /\ state \in States
    /\ accepts \in BOOLEAN
    /\ reported \in [state : States, accepts : BOOLEAN]
    /\ mainPc \in MainSteps
    /\ ctlPc \in {"idle", "stop", "reportStop", "setEvent", "reportSame"}
    /\ event \in {"none", "reset", "set"}
    /\ acceptor \in {"none", "built", "started", "stopped"}
    /\ created \in BOOLEAN
    /\ LinkTypeOK
    /\ asked \in BOOLEAN
    /\ threw \in BOOLEAN

Init ==
    /\ state = "STOPPED"
    /\ accepts = FALSE
    /\ reported = [state |-> "START_PENDING", accepts |-> FALSE]
    /\ mainPc = "register"
    /\ ctlPc = "idle"
    /\ event = "none"
    /\ acceptor = "none"
    /\ created = TRUE
    /\ file \in Files
    /\ settings = Defaults
    /\ LinkInit
    /\ asked = FALSE
    /\ threw = FALSE

-----------------------------------------------------------------------------
\* SetServiceStatus(serviceStatusHandle, &serviceStatus), st and ac as they are.
Report(st, ac) == reported' = [state |-> st, accepts |-> ac]

Goto(from, to) == mainPc = from /\ mainPc' = to

(* ServiceMain, which the manager has started: it takes it to be starting. *)

\* serviceStatus says STOPPED when the handler is registered.
Register ==
    /\ Goto("register", "registered")
    /\ UNCHANGED <<state, accepts, reported, ctlPc, event, acceptor, startVars,
                   asked, threw>>

\* RegisterServiceCtrlHandler returns 0.
RegisterFails ==
    /\ Goto("register", "unregistered")
    /\ UNCHANGED <<state, accepts, reported, ctlPc, event, acceptor, startVars,
                   asked, threw>>

SetPending ==
    /\ Goto("registered", "pending")
    /\ state' = "START_PENDING"
    /\ UNCHANGED <<accepts, reported, ctlPc, event, acceptor, startVars,
                   asked, threw>>

\* SetServiceStatus, then CreateEvent: an auto-reset event, or NULL.
ReportPending ==
    /\ Goto("pending", "build")
    /\ Report(state, accepts)
    /\ created' \in BOOLEAN
    /\ event' = IF created' THEN "reset" ELSE "none"
    /\ UNCHANGED <<state, accepts, ctlPc, acceptor, file, settings, linkVars,
                   asked, threw>>

\* new AppStart().
ReadSettings ==
    /\ Goto("build", "construct")
    /\ state = "START_PENDING"
    /\ settings' = readConfigFile(file)
    /\ UNCHANGED <<state, accepts, reported, ctlPc, event, acceptor, created,
                   file, linkVars, asked, threw>>

\* SessionSettings and stoi(m_login) throw on what is missing.
Constructible == settings["FixSetting"] # "" /\ settings["ManagerLogin"] # ""

\* new SessionSettings, the stores and the Application, which connects to MT5.
Construct ==
    /\ Goto("construct", "connect")
    /\ Constructible
    /\ managerConnect
    /\ UNCHANGED <<state, accepts, reported, ctlPc, event, acceptor, created,
                   file, settings, asked, threw>>

Connecting ==
    /\ mainPc = "connect"
    /\ LinkStep(settings["ManagerIP"] # "" /\ settings["ManagerPassword"] # "")
    /\ UNCHANGED <<state, accepts, reported, mainPc, ctlPc, event, acceptor,
                   created, file, settings, asked, threw>>

\* No catch, no stack or no manager to call: the process ends.
BuildFails ==
    /\ \/ Goto("construct", "crashed") /\ ~Constructible
       \/ Goto("connect", "crashed") /\ linkPc \in {"overflow", "null"}
    /\ ctlPc' = "idle"
    /\ UNCHANGED <<state, accepts, reported, event, acceptor, startVars, asked,
                   threw>>

\* The acceptor is left NULL when FileLogRequired is neither "N" nor "Y".
BuildAcceptor ==
    /\ Goto("connect", "running")
    /\ linkPc = "returned"
    /\ acceptor' = IF settings["FileLogRequired"] \in {"N", "Y"}
                   THEN "built" ELSE acceptor
    /\ UNCHANGED <<state, accepts, reported, ctlPc, event, startVars, asked,
                   threw>>

AcceptControls ==
    /\ Goto("running", "setRunning")
    /\ accepts' = TRUE
    /\ UNCHANGED <<state, reported, ctlPc, event, acceptor, startVars, asked,
                   threw>>

SetRunning ==
    /\ Goto("setRunning", "reportRunning")
    /\ state' = "RUNNING"
    /\ UNCHANGED <<accepts, reported, ctlPc, event, acceptor, startVars, asked,
                   threw>>

ReportRunning ==
    /\ Goto("reportRunning", "started")
    /\ Report(state, accepts)
    /\ UNCHANGED <<state, accepts, ctlPc, event, acceptor, startVars, asked,
                   threw>>

\* acceptor->start(), unless a stop has come since.
StartAcceptor ==
    /\ Goto("started", "wait")
    /\ state = "RUNNING" => acceptor = "built"
    /\ acceptor' = IF state = "RUNNING" THEN "started" ELSE acceptor
    /\ UNCHANGED <<state, accepts, reported, ctlPc, event, startVars, asked,
                   threw>>

StartThrows ==
    /\ Goto("started", "stopped")
    /\ state = "RUNNING"
    /\ acceptor = "built"
    /\ threw' = TRUE
    /\ UNCHANGED <<state, accepts, reported, ctlPc, event, acceptor, startVars,
                   asked>>

\* WaitForSingleObject succeeds and resets the event; a timeout waits again.
\* Without an event it fails at once, which is no timeout.
Woken ==
    /\ event # "reset"
    /\ event' = IF event = "set" THEN "reset" ELSE event
    /\ Goto("wait", "stopping")
    /\ UNCHANGED <<state, accepts, reported, ctlPc, acceptor, startVars,
                   asked, threw>>

SetStopping ==
    /\ Goto("stopping", "reportStopping")
    /\ state' = "STOP_PENDING"
    /\ UNCHANGED <<accepts, reported, ctlPc, event, acceptor, startVars, asked,
                   threw>>

ReportStopping ==
    /\ Goto("reportStopping", "stopAcceptor")
    /\ Report(state, accepts)
    /\ UNCHANGED <<state, accepts, ctlPc, event, acceptor, startVars, asked,
                   threw>>

\* Slip: the acceptor is only stopped if the handler has not set the status.
StopAcceptorIfRunning ==
    /\ Goto("stopAcceptor", "cleanup")
    /\ acceptor' = IF state = "RUNNING" THEN "stopped" ELSE acceptor
    /\ UNCHANGED <<state, accepts, reported, ctlPc, event, startVars, asked,
                   threw>>

\* acceptor->stop(), on an acceptor that was never started as well.
StopAcceptor ==
    /\ Goto("stopAcceptor", "cleanup")
    /\ state = "STOP_PENDING" => acceptor # "none"
    /\ acceptor' = IF state = "STOP_PENDING" THEN "stopped" ELSE acceptor
    /\ UNCHANGED <<state, accepts, reported, ctlPc, event, startVars, asked,
                   threw>>

StopThrows ==
    /\ Goto("stopAcceptor", "cleanup")
    /\ state = "STOP_PENDING"
    /\ acceptor # "none"
    /\ threw' = TRUE
    /\ UNCHANGED <<state, accepts, reported, ctlPc, event, acceptor, startVars,
                   asked>>

\* A call through the NULL acceptor, which no catch of ServiceMain catches: the
\* process ends.
NullAcceptor ==
    /\ \/ Goto("started", "crashed") /\ state = "RUNNING"
       \/ Goto("stopAcceptor", "crashed") /\ state = "STOP_PENDING"
    /\ acceptor = "none"
    /\ ctlPc' = "idle"
    /\ UNCHANGED <<state, accepts, reported, event, acceptor, startVars, asked,
                   threw>>

\* Slip: the handle is closed and kept.
CleanupKeepsHandle ==
    /\ Goto("cleanup", "stopped")
    /\ event' = "closed"
    /\ UNCHANGED <<state, accepts, reported, ctlPc, acceptor, startVars, asked,
                   threw>>

\* CloseHandle(stopServiceEvent), whether stop() threw or not.
Cleanup ==
    /\ Goto("cleanup", "stopped")
    /\ event' = "none"
    /\ UNCHANGED <<state, accepts, reported, ctlPc, acceptor, startVars,
                   asked, threw>>

\* Label stop_service: "service is now stopped".
RefuseControls ==
    /\ Goto("stopped", "setStopped")
    /\ accepts' = FALSE
    /\ UNCHANGED <<state, reported, ctlPc, event, acceptor, startVars, asked,
                   threw>>

SetStopped ==
    /\ Goto("setStopped", "report")
    /\ state' = "STOPPED"
    /\ UNCHANGED <<accepts, reported, ctlPc, event, acceptor, startVars, asked,
                   threw>>

ReportStopped ==
    /\ Goto("report", "done")
    /\ Report(state, accepts)
    /\ UNCHANGED <<state, accepts, ctlPc, event, acceptor, startVars,
                   asked, threw>>

-----------------------------------------------------------------------------
(* ServiceControlHandler. *)

\* SERVICE_CONTROL_STOP or SERVICE_CONTROL_SHUTDOWN.
ControlStop ==
    /\ ctlPc = "idle"
    /\ mainPc \notin {"done", "crashed"}
    /\ reported = [state |-> "RUNNING", accepts |-> TRUE]
    /\ ~asked
    /\ asked' = TRUE
    /\ ctlPc' = "stop"
    /\ UNCHANGED <<state, accepts, reported, mainPc, event, acceptor,
                   startVars, threw>>

HandlerSetsState ==
    /\ ctlPc = "stop"
    /\ state' = "STOP_PENDING"
    /\ ctlPc' = "reportStop"
    /\ UNCHANGED <<accepts, reported, mainPc, event, acceptor, startVars,
                   asked, threw>>

HandlerReports ==
    /\ ctlPc = "reportStop"
    /\ Report(state, accepts)
    /\ ctlPc' = "setEvent"
    /\ UNCHANGED <<state, accepts, mainPc, event, acceptor, startVars,
                   asked, threw>>

\* Slip: the event is a pulse, lost when nobody waits.
HandlerPulsesEvent ==
    /\ ctlPc = "setEvent"
    /\ event' = IF event # "none" /\ mainPc = "wait" THEN "set" ELSE event
    /\ ctlPc' = "idle"
    /\ UNCHANGED <<state, accepts, reported, mainPc, acceptor, startVars,
                   asked, threw>>

\* SetEvent; of a closed handle it fails, and the result is not looked at.
HandlerSetsEvent ==
    /\ ctlPc = "setEvent"
    /\ event' = IF event = "none" THEN "none" ELSE "set"
    /\ ctlPc' = "idle"
    /\ UNCHANGED <<state, accepts, reported, mainPc, acceptor, startVars,
                   asked, threw>>

\* INTERROGATE, PAUSE, CONTINUE and the rest: the status is reported as it is.
ControlOther ==
    /\ ctlPc = "idle"
    /\ mainPc \notin {"register", "unregistered", "done", "crashed"}
    /\ ctlPc' = "reportSame"
    /\ UNCHANGED <<state, accepts, reported, mainPc, event, acceptor, startVars,
                   asked, threw>>

\* Slip: the handler answers with the status it was started with.
HandlerReportsOld ==
    /\ ctlPc = "reportSame"
    /\ Report("START_PENDING", FALSE)
    /\ ctlPc' = "idle"
    /\ UNCHANGED <<state, accepts, mainPc, event, acceptor, startVars,
                   asked, threw>>

HandlerReportsSame ==
    /\ ctlPc = "reportSame"
    /\ Report(state, accepts)
    /\ ctlPc' = "idle"
    /\ UNCHANGED <<state, accepts, mainPc, event, acceptor, startVars,
                   asked, threw>>

-----------------------------------------------------------------------------
Main ==
    \/ Register \/ RegisterFails \/ SetPending \/ ReportPending
    \/ ReadSettings \/ Construct \/ Connecting \/ BuildFails \/ BuildAcceptor
    \/ AcceptControls \/ SetRunning \/ ReportRunning
    \/ StartAcceptor \/ StartThrows
    \/ Woken
    \/ SetStopping \/ ReportStopping
    \/ StopAcceptor \/ StopThrows
    \/ NullAcceptor
    \/ Cleanup
    \/ RefuseControls \/ SetStopped \/ ReportStopped

Handler ==
    \/ HandlerSetsState \/ HandlerReports \/ HandlerSetsEvent
    \/ HandlerReportsSame

Next == Main \/ Handler \/ ControlStop \/ ControlOther

Spec == Init /\ [][Next]_vars

\* Both threads run; the manager need not ask anything.
FairSpec == Spec /\ WF_vars(Main) /\ WF_vars(Handler)

-----------------------------------------------------------------------------
Rank == [START_PENDING |-> 1, RUNNING |-> 2, STOP_PENDING |-> 3, STOPPED |-> 4]

(***************************************************************************)
(* From the first report of ServiceMain on, the service never goes back in *)
(* the manager's eyes, whichever thread reports and whatever the other has *)
(* written to serviceStatus meanwhile, as long as the event was created    *)
(* and the acceptor does not throw.                                        *)
(***************************************************************************)
ReportsGoForward ==
    [][mainPc \notin Starting /\ created /\ ~threw
       => Rank[reported'.state] >= Rank[reported.state]]_vars

\* A service that has said it is stopped serves nobody, unless its acceptor
\* threw; in particular when the stop comes before the start.
StoppedServesNobody == mainPc = "done" /\ ~threw => acceptor # "started"

\* Whatever the order of its lines, the service runs with the last value the
\* file gives a key before its first unknown key, and with the default for the
\* keys it gives only later (PriceAppSetting.txt as shipped has two unknown
\* keys, at its end).
SettingsAreRead ==
    mainPc \notin Starting \cup {"build"}
    => \A k \in Keys : settings[k] = Setting(file, k)

\* Prices are only offered on a manager object that has answered: the one that
\* the innermost call of managerConnect has left, however many came before.
StartedOnAnsweringManager == acceptor = "started" => answered

\* A service that was asked to stop says that it has, whenever the control
\* comes: before the acceptor is started, or before ServiceMain waits.  Without
\* an event the manager may be told STOP_PENDING last.
StopIsAnswered ==
    asked ~> \/ mainPc = "done" /\ reported.state = "STOPPED"
             \/ mainPc = "crashed"
             \/ threw \/ ~created
=============================================================================
