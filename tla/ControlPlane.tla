---------------------------- MODULE ControlPlane ----------------------------
(***************************************************************************)
(* The controller's goroutines (internal/controller/controller.go) on top  *)
(* of the data structure manager.  Run and healthLoop call SetObjects with *)
(* c.mu held; assignmentLoop needs c.mu for every assignment it receives.  *)
(* Together with the bounded queues of the manager this is a ring of       *)
(* waits: a caller waits for the event loop, the event loop for room in    *)
(* watchQ, the watch workers for room in the watcher's channel, and        *)
(* assignmentLoop, which would make room, for the caller's mutex.          *)
(*                                                                         *)
(* The context is not cancelled here: a shutdown starts with Close or with *)
(* a channel that is closed.                                               *)
(***************************************************************************)
EXTENDS DSManager

VARIABLES
    cmu,        \* owner of c.mu
    assignment  \* assignmentLoop: "receiving", "locking" or "returned"

controller == <<cmu, assignment>>
cpVars == <<vars, controller>>

CPInit == Init /\ cmu = "free" /\ assignment = "receiving"

\* Run and healthLoop: lock c.mu and call SetObjects.
recomputeAndApply(c) ==
    /\ cmu = "free"
    /\ Call(c)
    /\ cmu' = c
    /\ UNCHANGED assignment

\* SetObjects returns and c.mu is unlocked.
Unlock(c) ==
    /\ Await(c)
    /\ cmu' = "free"
    /\ UNCHANGED assignment

UnlockOnError ==
    /\ WorkerReply
    /\ cmu' = "free"
    /\ UNCHANGED assignment

\* Mutant: assignmentLoop locks c.mu before it receives.
assignmentLoopLocksFirst ==
    \/ /\ assignment = "receiving"
       /\ cmu = "free"
       /\ cmu' = "assignmentLoop"
       /\ assignment' = "locking"
       /\ UNCHANGED vars
    \/ /\ assignment = "locking"
       /\ Consume
       /\ cmu' = "free"
       /\ assignment' = "receiving"

assignmentLoop ==
    \/ /\ assignment = "receiving"
       /\ Consume
       /\ assignment' = "locking"
       /\ UNCHANGED cmu
    \/ /\ assignment = "receiving"
       /\ muxClosed /\ watchCh = 0
       /\ assignment' = "returned"
       /\ UNCHANGED <<vars, cmu>>
    \/ /\ assignment = "locking"
       /\ cmu = "free"
       /\ assignment' = "receiving"
       /\ UNCHANGED <<vars, cmu>>

Manager ==
    /\ \/ \E p \in Runners : RunCheck(p) \/ SubscribeFails(p) \/ RunStart(p)
       \/ Loop
       \/ WorkerTake \/ WorkerSucceed \/ WorkerFail \/ WorkerExit
       \/ \E w \in WatchWorkers : WatchWorker(w)
       \/ \E p \in Closers : CloseCall(p)
       \/ \E p \in AllClosers : CloseBegin(p) \/ CloseEnd(p)
    /\ UNCHANGED controller

CPNext ==
    /\ ~panicked
    /\ \/ Manager
       \/ \E c \in Callers : recomputeAndApply(c) \/ Unlock(c) \/ (SendOnClosed(c) /\ UNCHANGED controller)
       \/ UnlockOnError
       \/ assignmentLoop

\* As in DSManager; and c.mu, a Go mutex, is not denied to a waiter for ever.
CPFairness ==
    /\ WF_cpVars(Loop /\ UNCHANGED controller)
    /\ \A c \in Callers :
        /\ SF_cpVars(LoopReceiveEvent(c) /\ UNCHANGED controller)
        /\ WF_cpVars(Unlock(c))
        /\ WF_cpVars(SendOnClosed(c) /\ UNCHANGED controller)
    /\ WF_cpVars((WorkerTake \/ WorkerSucceed \/ WorkerFail \/ WorkerExit) /\ UNCHANGED controller)
    /\ WF_cpVars(UnlockOnError)
    /\ \A w \in WatchWorkers : WF_cpVars(WatchWorker(w) /\ UNCHANGED controller)
    /\ \A p \in AllClosers :
        /\ WF_cpVars(CloseBegin(p) /\ UNCHANGED controller)
        /\ WF_cpVars(CloseEnd(p) /\ UNCHANGED controller)
    /\ SF_cpVars(assignmentLoop)

CPSpec == CPInit /\ [][CPNext]_cpVars /\ CPFairness

(***************************************************************************)
(* Properties.                                                             *)
(***************************************************************************)

(* The ring of waits is never closed for good: every recomputeAndApply on  *)
(* a running manager returns and releases c.mu, however many assignments   *)
(* pile up and whenever Close is called, or the process has panicked.      *)
(* Only the timeout of dispatchOne breaks the ring.                        *)
UpdatesReturn == \A c \in Callers : (running /\ cmu = c) ~> (cmu = "free" \/ panicked)

(* assignmentLoop does not hang on to an assignment: it gets c.mu and goes *)
(* back to receive, also while updates keep coming.                        *)
AssignmentsRecorded == (running /\ assignment = "locking") ~> (assignment = "receiving" \/ panicked)
=============================================================================
