------------------------------- MODULE Process -------------------------------
(***************************************************************************)
(* The life of the udplb process: main (cmd/udplb/main.go), Run and Close  *)
(* of the controller (internal/controller/controller.go), the runnable     *)
(* that attaches the BPF program (internal/adapter/bpf/udplb_user.go) and  *)
(* the goroutines they start and stop.  The health monitor is Monitors'    *)
(* backendState.  The other two monitors are started by no code of the     *)
(* repository but tests; a process with one of them has no controller.     *)
(*                                                                         *)
(* Of the data structure manager only what matters to starting and         *)
(* stopping is kept, DSManager models it in full: one call of SetObjects,  *)
(* which its caller makes with c.mu held, and one dispatch of an           *)
(* assignment.                                                             *)
(***************************************************************************)
EXTENDS Monitors

VARIABLES
    main,         \* where main is; see Places
    ctxDone,      \* the signal has arrived
    attached,     \* the XDP program is attached to the interface
    maps,         \* the BPF objects: "open" or "closed"
    mgr,          \* the manager: "new", "running", "closing" or "closed"
    mgrLoop,      \* its event loop: "off", "idle", "handling" or "ended"
    call,         \* who calls SetObjects: "none", "main" or "health"; "dropped" in the queue
    dispatcher,   \* its watch worker: "idle", "send" or "ended"
    assignWatch,  \* assignmentLoop's watcher: "none", "open", "closed" or "cancelled"
    healthLoop,   \* "off", "receive", "lock" (c.mu), "applying" or "ended"
    timedOut,     \* history: Close of the manager gave up waiting
    errs          \* history: what Close of the controller met

process == <<main, ctxDone, attached, maps, mgr, mgrLoop, call, dispatcher, assignWatch, healthLoop,
             timedOut, errs>>
manager == <<mgr, mgrLoop, call, dispatcher, assignWatch, timedOut>>
processVars == <<monitorVars, process>>

Places == {"none", "runProg", "runManager", "runMonitor", "apply", "applying", "serving", "closeMonitor",
           "monitorClosing", "closeManager", "managerClosing", "closeProg", "exited", "failed"}

\* After New, which watches the health monitor.
ProcessInit ==
    /\ MonitorInit
    /\ monitorKind \in {"backendState", "RemoteAssignment", "backendSpecList"}
    /\ main = IF monitorKind = "backendState" THEN "runProg" ELSE "none"
    /\ watch = IF monitorKind = "backendState" THEN "open" ELSE "none"
    /\ ctxDone = FALSE /\ attached = FALSE /\ maps = "open"
    /\ mgr = "new" /\ mgrLoop = "off" /\ call = "none" /\ dispatcher = "idle" /\ assignWatch = "none"
    /\ healthLoop = "off" /\ timedOut = FALSE /\ errs = {}

At(from, to) == main = from /\ main' = to

\* errExit ends the process.
Fail(from) == At(from, "failed") /\ UNCHANGED <<monitorVars, ctxDone, attached, maps, manager, healthLoop, errs>>

(***************************************************************************)
(* Controller.Run.                                                         *)
(***************************************************************************)
RunProg ==
    /\ At("runProg", "runManager")
    /\ attached' = TRUE
    /\ UNCHANGED <<monitorVars, ctxDone, maps, manager, healthLoop, errs>>

\* bpfMgr.Run; assignmentLoop is started.
RunManager ==
    /\ At("runManager", "runMonitor")
    /\ mgr' = "running" /\ mgrLoop' = "idle"
    /\ UNCHANGED <<monitorVars, ctxDone, attached, maps, call, dispatcher, assignWatch, healthLoop, timedOut, errs>>

RunMonitor ==
    /\ At("runMonitor", "apply")
    /\ MonitorRun
    /\ healthLoop' = "receive"
    /\ UNCHANGED <<ctxDone, attached, maps, manager, errs>>

\* recomputeAndApply with c.mu, which healthLoop may hold; nothing without available backends.
Apply ==
    /\ call = "none"
    /\ \/ At("apply", "applying") /\ call' = "main"
       \/ At("apply", "serving") /\ UNCHANGED call
    /\ UNCHANGED <<monitorVars, ctxDone, attached, maps, mgr, mgrLoop, dispatcher, assignWatch, healthLoop,
                   timedOut, errs>>

(***************************************************************************)
(* Controller.Close, which main calls once the signal has arrived.         *)
(***************************************************************************)
CancelHealth ==
    /\ ctxDone /\ At("serving", "closeMonitor")
    /\ Cancel
    /\ UNCHANGED <<ctxDone, attached, maps, manager, healthLoop, errs>>

CloseMonitor ==
    /\ \/ At("closeMonitor", "monitorClosing") /\ CloseBegin
       \/ At("monitorClosing", "closeManager") /\ CloseEnd
    /\ UNCHANGED <<ctxDone, attached, maps, manager, healthLoop, errs>>

CloseManager ==
    /\ At("closeManager", "managerClosing")
    /\ mgr' = "closing"
    /\ UNCHANGED <<monitorVars, ctxDone, attached, maps, mgrLoop, call, dispatcher, assignWatch, healthLoop,
                   timedOut, errs>>

\* doneCh is closed, or five seconds have passed; then close(mgr.eventCh).
ManagerClosed ==
    /\ At("managerClosing", "closeProg")
    /\ mgr' = "closed"
    /\ timedOut' = (mgrLoop # "ended" \/ dispatcher # "ended")
    /\ UNCHANGED <<monitorVars, ctxDone, attached, maps, mgrLoop, call, dispatcher, assignWatch, healthLoop, errs>>

\* Mutant: the first error ends Close.
CloseProgStops ==
    /\ At("closeProg", "exited")
    /\ errs' = {"ErrRunnableMustBeRunningToBeClosed"}
    /\ UNCHANGED <<monitorVars, ctxDone, attached, maps, manager, healthLoop>>

\* closePropagationFunc closes the manager a second time; then link and objects.
CloseProg ==
    /\ At("closeProg", "exited")
    /\ \E failed \in SUBSET {"link", "objs"} :
         errs' = failed \cup IF mgr = "running" THEN {} ELSE {"ErrRunnableMustBeRunningToBeClosed"}
    /\ attached' = FALSE /\ maps' = "closed"
    /\ UNCHANGED <<monitorVars, ctxDone, manager, healthLoop>>

Signal ==
    /\ main # "none" /\ ~ctxDone
    /\ ctxDone' = TRUE
    /\ UNCHANGED <<monitorVars, main, attached, maps, manager, healthLoop, errs>>

(***************************************************************************)
(* healthLoop and assignmentLoop.                                          *)
(***************************************************************************)

\* Mutant: the loop ends its watch with every entry.
HealthEntryCancels ==
    /\ healthLoop = "receive" /\ ch > 0
    /\ ch' = ch - 1 /\ watch' = "cancelled"
    /\ healthLoop' = "lock"
    /\ UNCHANGED <<monitorKind, state, loop, todo, items, conn, sent, panicked, main, ctxDone, attached, maps, manager, errs>>

HealthEntry ==
    /\ healthLoop = "receive"
    /\ Receive
    /\ healthLoop' = "lock"
    /\ UNCHANGED <<main, ctxDone, attached, maps, manager, errs>>

\* Mutant: an entry that changes nothing leaves c.mu locked.
HealthApplyLocked ==
    /\ healthLoop = "lock" /\ call = "none"
    /\ \/ healthLoop' = "receive" /\ call' = "leaked"
       \/ healthLoop' = "applying" /\ call' = "health"
    /\ UNCHANGED <<monitorVars, main, ctxDone, attached, maps, mgr, mgrLoop, dispatcher, assignWatch, timedOut, errs>>

\* An entry that changes a backend's state is applied, others are not.
HealthApply ==
    /\ healthLoop = "lock" /\ call = "none"
    /\ \/ healthLoop' = "receive" /\ UNCHANGED call
       \/ healthLoop' = "applying" /\ call' = "health"
    /\ UNCHANGED <<monitorVars, main, ctxDone, attached, maps, mgr, mgrLoop, dispatcher, assignWatch, timedOut, errs>>

HealthEnd ==
    /\ healthLoop = "receive"
    /\ ctxDone \/ (watch \in {"closed", "cancelled"} /\ ch = 0)
    /\ healthLoop' = "ended"
    /\ UNCHANGED <<monitorVars, main, ctxDone, attached, maps, manager, errs>>

AssignmentWatch ==
    /\ mgr # "new" /\ assignWatch = "none"
    /\ assignWatch' = "open"
    /\ UNCHANGED <<monitorVars, main, ctxDone, attached, maps, mgr, mgrLoop, call, dispatcher, healthLoop,
                   timedOut, errs>>

\* ctx is done: assignmentLoop returns and cancels its watch.
AssignmentEnd ==
    /\ ctxDone /\ assignWatch \in {"open", "closed"}
    /\ assignWatch' = "cancelled"
    /\ UNCHANGED <<monitorVars, main, ctxDone, attached, maps, mgr, mgrLoop, call, dispatcher, healthLoop,
                   timedOut, errs>>

(***************************************************************************)
(* The manager.                                                            *)
(***************************************************************************)
mgrTerminated == mgr \in {"closing", "closed"}

ManagerTake ==
    /\ mgrLoop = "idle" /\ call \in {"main", "health"} /\ mgr # "closed"
    /\ mgrLoop' = "handling"
    /\ UNCHANGED <<monitorVars, main, ctxDone, attached, maps, mgr, call, dispatcher, assignWatch, healthLoop,
                   timedOut, errs>>

\* The maps are set, or an error is returned, which ends main if it was the caller.
ManagerHandle ==
    /\ mgrLoop = "handling"
    /\ mgrLoop' = "idle" /\ call' = "none"
    /\ main' \in IF call = "main" THEN {"serving", "failed"} ELSE {main}
    /\ healthLoop' = IF call = "health" THEN "receive" ELSE healthLoop
    /\ UNCHANGED <<monitorVars, ctxDone, attached, maps, mgr, dispatcher, assignWatch, timedOut, errs>>

\* The event worker has left before the event got into its queue.
ManagerDrop ==
    /\ mgrLoop = "handling" /\ mgrTerminated
    /\ mgrLoop' = "ended" /\ call' = "dropped"
    /\ UNCHANGED <<monitorVars, main, ctxDone, attached, maps, mgr, dispatcher, assignWatch, healthLoop,
                   timedOut, errs>>

\* await returns ErrOperationAborted, as doneCh is closed.
Aborted ==
    /\ call = "dropped" /\ dispatcher = "ended"
    /\ call' = "none" /\ healthLoop' = "receive"
    /\ UNCHANGED <<monitorVars, main, ctxDone, attached, maps, mgr, mgrLoop, dispatcher, assignWatch, timedOut, errs>>

ManagerEnd ==
    /\ mgrLoop = "idle" /\ mgrTerminated
    /\ mgrLoop' = "ended"
    /\ UNCHANGED <<monitorVars, main, ctxDone, attached, maps, mgr, call, dispatcher, assignWatch, healthLoop,
                   timedOut, errs>>

\* SetObjects sends on eventCh after Close has closed it.
SendEventOnClosed ==
    /\ call \in {"main", "health"} /\ mgrLoop # "handling" /\ mgr = "closed"
    /\ panicked' = "event"
    /\ UNCHANGED <<monitor, process>>

\* The watch worker takes an assignment and the list of watchers ...
AssignmentTake ==
    /\ mgrLoop \in {"idle", "handling"} /\ dispatcher = "idle" /\ assignWatch = "open"
    /\ dispatcher' = "send"
    /\ UNCHANGED <<monitorVars, main, ctxDone, attached, maps, mgr, mgrLoop, call, assignWatch, healthLoop,
                   timedOut, errs>>

\* ... and sends, as SendOne does.
AssignmentSend ==
    /\ dispatcher = "send"
    /\ dispatcher' = "idle"
    /\ panicked' \in IF assignWatch = "open" THEN {"no"} ELSE {"no", "assignment"}
    /\ UNCHANGED <<monitor, main, ctxDone, attached, maps, mgr, mgrLoop, call, assignWatch, healthLoop,
                   timedOut, errs>>

\* The worker and the event loop are done: the multiplexer is closed.
DispatcherEnd ==
    /\ dispatcher = "idle" /\ mgrLoop = "ended"
    /\ dispatcher' = "ended"
    /\ assignWatch' = IF assignWatch = "open" THEN "closed" ELSE assignWatch
    /\ UNCHANGED <<monitorVars, main, ctxDone, attached, maps, mgr, mgrLoop, call, healthLoop, timedOut, errs>>

Controller ==
    \/ \E p \in {"runProg", "runManager"} : Fail(p)
    \/ RunProg \/ RunManager \/ RunMonitor \/ Apply
    \/ Signal \/ CancelHealth \/ CloseMonitor \/ CloseManager \/ ManagerClosed \/ CloseProg
    \/ HealthEntry \/ HealthApply \/ HealthEnd \/ AssignmentWatch \/ AssignmentEnd
    \/ ManagerTake \/ ManagerHandle \/ ManagerDrop \/ Aborted \/ ManagerEnd \/ SendEventOnClosed
    \/ AssignmentTake \/ AssignmentSend \/ DispatcherEnd

\* Some other client of a monitor; the goroutines of a monitor.
Client == main = "none" /\ (Watch \/ Cancel \/ MonitorRun \/ CloseBegin \/ CloseEnd \/ SpecListClose \/ Receive)
Monitor == Tick \/ Packet \/ Dispatching \/ LoopEnd

\* The process is gone after exit or a panic.
Alive == panicked = "no" /\ main \notin {"exited", "failed"}

ProcessNext ==
    /\ Alive
    /\ \/ Controller
       \/ (Client \/ Monitor) /\ UNCHANGED process

\* Goroutines that can run do; timers fire.  Nobody has to call or send anything.
Fairness ==
    /\ WF_processVars(Alive /\ (Dispatching \/ LoopEnd) /\ UNCHANGED process)
    /\ WF_processVars(Alive /\ (ManagerTake \/ ManagerHandle \/ ManagerEnd))
    /\ WF_processVars(Alive /\ (AssignmentSend \/ DispatcherEnd))
    /\ WF_processVars(Alive /\ (HealthApply \/ Aborted))
    /\ WF_processVars(Alive /\ (RunProg \/ RunManager \/ RunMonitor \/ Apply))
    /\ WF_processVars(Alive /\ (CancelHealth \/ CloseMonitor \/ CloseManager \/ ManagerClosed \/ CloseProg))

ProcessSpec == ProcessInit /\ [][ProcessNext]_processVars /\ Fairness

(***************************************************************************)
(* Properties.                                                             *)
(***************************************************************************)

(* A process that nobody stops does not panic: neither Run, nor a health   *)
(* change, nor a dispatch does, in any order.                              *)
NoPanicWhileServing == (main # "none" /\ panicked # "no") => ctxDone

(* A monitor with a loop of its own does not panic over its own Close,     *)
(* however late that comes and however often: only a watcher cancelled     *)
(* between the two steps of a dispatch makes it.  backendSpecList does, on *)
(* a second Close and on one that meets its dispatch.                      *)
MonitorsCloseSafely == (Looping /\ panicked \in {"send", "close"}) => watch = "cancelled"

(* The BPF objects are not closed under the event worker: whoever is still *)
(* handling an event then has outlived the timeout of the manager's Close. *)
MapsOutliveEvents == (maps = "closed" /\ mgrLoop = "handling") => timedOut

(* Close goes through all its steps whatever they return: the program is   *)
(* detached and everything closed when main is done.  It never succeeds:   *)
(* the manager is closed twice and reports that.                           *)
ShutdownComplete ==
    main = "exited" => /\ ~attached /\ maps = "closed" /\ state = "closed" /\ mgr = "closed"
                       /\ "ErrRunnableMustBeRunningToBeClosed" \in errs

(* A process that runs and gets the signal ends, whatever its goroutines   *)
(* wait for, by itself or by a panic.                                      *)
SignalEnds == (ctxDone /\ main # "none") ~> (main \in {"exited", "failed"} \/ panicked # "no")

(* A watcher that is there when the monitor is closed sees its channel     *)
(* closed, even if Close has given up waiting for the loop.                *)
WatchersEnd ==
    (Looping /\ terminated /\ loop # "ended" /\ watch = "open") ~> (watch # "open" \/ panicked # "no")
=============================================================================
