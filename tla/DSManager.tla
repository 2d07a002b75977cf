------------------------------ MODULE DSManager ------------------------------
(***************************************************************************)
(* The data structure manager (internal/adapter/bpf/manager.go) with the   *)
(* two worker pools of internal/util/workerpool.go: goroutines that call   *)
(* it, the event loop, the event worker, the watch workers that dispatch   *)
(* assignments to a watcher, and goroutines that call Run and Close.       *)
(*                                                                         *)
(* An event is the goroutine that sent it, which waits for it.  eventCh    *)
(* and errCh are unbuffered: a send and its receive are one step.  What    *)
(* setObjects does to the maps is BpfMaps' subject; here an event is       *)
(* applied or fails.  A panic ends the process.                            *)
(***************************************************************************)
EXTENDS Naturals, Sequences, FiniteSets

CONSTANTS Callers,         \* goroutines that call SetObjects or a session batch
          Runners,         \* goroutines that call Run
          Closers,         \* goroutines that call Close
          WatchWorkers,    \* the watch worker pool
          QSize,           \* capacity of eventQ and of watchQ
          WatchCap,        \* capacity of the watcher's channel
          MaxAssignments,  \* bound: assignments read from the FIFO
          MaxCalls         \* bound: calls made

\* The goroutine that the event loop starts to call Close.
Trigger == "triggerCloseInternally"
AllClosers == Closers \cup {Trigger}

ASSUME DSManagerAssumption ==
    /\ IsFiniteSet(Callers) /\ IsFiniteSet(WatchWorkers) /\ WatchWorkers # {}
    /\ {QSize, WatchCap} \subseteq Nat \ {0}
    /\ {MaxAssignments, MaxCalls} \subseteq Nat
    /\ Callers \cap Closers = {} /\ Callers \cap Runners = {} /\ Closers \cap Runners = {}

VARIABLES
    mu,            \* owner of mgr.mu; "leaked" when Run returned without unlocking
    running, closed,
    terminated,    \* terminateCh is closed
    done,          \* doneCh is closed
    eventChClosed,
    muxClosed,     \* assignmentWatcherMux is closed
    loop,          \* the event loop: its place and the event in hand
    eventQ, worker,          \* the event pool: queue, and its worker
    watchQ, watchWorker,     \* the watch pool: length of the queue, workers
    watchCh,       \* assignments in the watcher's channel
    caller,        \* place of every caller
    errCh,         \* "open" or "closed", per event
    runner, closer,
    applied,       \* history: events applied, in order
    accepted,      \* history: events the event loop received, in order
    results,       \* history: calls that returned nil
    count,         \* assignments and calls so far
    panicked

lifecycle == <<mu, running, closed, terminated, done, eventChClosed, muxClosed>>
eventPool == <<eventQ, worker>>
watchPool == <<watchQ, watchWorker, watchCh>>
calls == <<caller, errCh, results>>
procs == <<runner, closer>>
history == <<applied, accepted>>
vars == <<lifecycle, loop, eventPool, watchPool, calls, procs, history, count, panicked>>

At(pc) == [pc |-> pc, ev |-> "none"]
With(pc, c) == [pc |-> pc, ev |-> c]

Init ==
    /\ mu = "free"
    /\ running = FALSE /\ closed = FALSE
    /\ terminated = FALSE /\ done = FALSE /\ eventChClosed = FALSE /\ muxClosed = FALSE
    /\ loop = At("none")
    /\ eventQ = <<>> /\ worker = At("idle")
    /\ watchQ = 0 /\ watchWorker = [w \in WatchWorkers |-> "idle"] /\ watchCh = 0
    /\ caller = [c \in Callers |-> "idle"]
    /\ errCh = [c \in Callers |-> "open"]
    /\ runner = [p \in Runners |-> "idle"]
    /\ closer = [p \in AllClosers |-> "idle"]
    /\ applied = <<>> /\ accepted = <<>> /\ results = <<>>
    /\ count = [assignments |-> 0, calls |-> 0]
    /\ panicked = FALSE

(***************************************************************************)
(* Run.                                                                    *)
(***************************************************************************)

\* The first critical section.  Its error returns do not unlock.  Calls of
\* Run follow one another: two that overlap would start two event loops.
RunCheck(p) ==
    /\ runner[p] = "idle"
    /\ \A q \in Runners : runner[q] # "subscribing"
    /\ mu = "free"
    /\ IF running \/ closed
       THEN /\ mu' = "leaked"
            /\ runner' = [runner EXCEPT ![p] = "failed"]
       ELSE /\ runner' = [runner EXCEPT ![p] = "subscribing"]
            /\ UNCHANGED mu
    /\ UNCHANGED <<running, closed, terminated, done, eventChClosed, muxClosed, loop, eventPool,
                   watchPool, calls, closer, history, count, panicked>>

SubscribeFails(p) ==
    /\ runner[p] = "subscribing"
    /\ runner' = [runner EXCEPT ![p] = "failed"]
    /\ UNCHANGED <<lifecycle, loop, eventPool, watchPool, calls, closer, history, count, panicked>>

\* The second critical section.
RunStart(p) ==
    /\ runner[p] = "subscribing"
    /\ mu = "free"
    /\ running' = TRUE
    /\ loop' = At("check")
    /\ runner' = [runner EXCEPT ![p] = "returned"]
    /\ UNCHANGED <<mu, closed, terminated, done, eventChClosed, muxClosed, eventPool, watchPool,
                   calls, closer, history, count, panicked>>

(***************************************************************************)
(* SetObjects, BatchUpdateSession, BatchDeleteSession and await.           *)
(***************************************************************************)
Call(c) ==
    /\ caller[c] = "idle"
    /\ count.calls < MaxCalls
    /\ count' = [count EXCEPT !.calls = @ + 1]
    /\ caller' = [caller EXCEPT ![c] = "sending"]
    /\ errCh' = [errCh EXCEPT ![c] = "open"]
    /\ UNCHANGED <<lifecycle, loop, eventPool, watchPool, results, procs, history, panicked>>

\* mgr.eventCh <- e on a closed channel.
SendOnClosed(c) ==
    /\ caller[c] = "sending"
    /\ eventChClosed
    /\ panicked' = TRUE
    /\ UNCHANGED <<lifecycle, loop, eventPool, watchPool, calls, procs, history, count>>

\* Mutant: the call is aborted when termination starts, not when it is over.
AwaitUntilTerminated(c) ==
    /\ caller[c] = "awaiting"
    /\ \/ errCh[c] = "closed" /\ results' = Append(results, c)
       \/ terminated /\ UNCHANGED results
    /\ caller' = [caller EXCEPT ![c] = "idle"]
    /\ UNCHANGED <<lifecycle, loop, eventPool, watchPool, errCh, procs, history, count, panicked>>

\* errCh is closed, or doneCh is; when both are, select takes either.
Await(c) ==
    /\ caller[c] = "awaiting"
    /\ \/ errCh[c] = "closed" /\ results' = Append(results, c)
       \/ done /\ UNCHANGED results
    /\ caller' = [caller EXCEPT ![c] = "idle"]
    /\ UNCHANGED <<lifecycle, loop, eventPool, watchPool, errCh, procs, history, count, panicked>>

(***************************************************************************)
(* The event loop.                                                         *)
(***************************************************************************)
LoopCheck ==
    /\ loop.pc = "check"
    /\ loop' = At(IF terminated THEN "awaitEventWorker" ELSE "select")
    /\ UNCHANGED <<lifecycle, eventPool, watchPool, calls, procs, history, count, panicked>>

LoopReceiveEvent(c) ==
    /\ loop.pc = "select"
    /\ caller[c] = "sending" /\ ~eventChClosed
    /\ caller' = [caller EXCEPT ![c] = "awaiting"]
    /\ accepted' = Append(accepted, c)
    /\ loop' = With("pushEvent", c)
    /\ UNCHANGED <<lifecycle, eventPool, watchPool, errCh, results, procs, applied, count, panicked>>

\* Mutant: when the queue is full the loop handles the event itself.
LoopPushOrHandle ==
    /\ loop.pc = "pushEvent"
    /\ IF Len(eventQ) < QSize
       THEN eventQ' = Append(eventQ, loop.ev) /\ UNCHANGED <<applied, errCh>>
       ELSE /\ applied' = Append(applied, loop.ev)
            /\ errCh' = [errCh EXCEPT ![loop.ev] = "closed"]
            /\ UNCHANGED eventQ
    /\ loop' = At("check")
    /\ UNCHANGED <<lifecycle, worker, watchPool, caller, results, procs, accepted, count, panicked>>

LoopPushEvent ==
    /\ loop.pc = "pushEvent"
    /\ Len(eventQ) < QSize
    /\ eventQ' = Append(eventQ, loop.ev)
    /\ loop' = At("check")
    /\ UNCHANGED <<lifecycle, worker, watchPool, calls, procs, history, count, panicked>>

LoopReceiveAssignment ==
    /\ loop.pc = "select"
    /\ count.assignments < MaxAssignments
    /\ count' = [count EXCEPT !.assignments = @ + 1]
    /\ loop' = At("pushWatch")
    /\ UNCHANGED <<lifecycle, eventPool, watchPool, calls, procs, history, panicked>>

LoopPushWatch ==
    /\ loop.pc = "pushWatch"
    /\ watchQ < QSize
    /\ watchQ' = watchQ + 1
    /\ loop' = At("check")
    /\ UNCHANGED <<lifecycle, eventPool, watchWorker, watchCh, calls, procs, history, count, panicked>>

LoopTerminate ==
    /\ loop.pc = "select"
    /\ terminated
    /\ loop' = At("awaitEventWorker")
    /\ UNCHANGED <<lifecycle, eventPool, watchPool, calls, procs, history, count, panicked>>

\* eventCh is closed, because Close did not wait for the event loop, or the
\* FIFO's channel is, because the BPF program is gone: the loop has Close
\* called and terminates.
LoopChannelClosed ==
    /\ loop.pc = "select"
    /\ closer' = [closer EXCEPT ![Trigger] = "locking"]
    /\ loop' = At("awaitEventWorker")
    /\ UNCHANGED <<lifecycle, eventPool, watchPool, calls, runner, history, count, panicked>>

LoopAwaitEventWorker ==
    /\ loop.pc = "awaitEventWorker"
    /\ worker.pc = "exited"
    /\ loop' = At("awaitWatchWorkers")
    /\ UNCHANGED <<lifecycle, eventPool, watchPool, calls, procs, history, count, panicked>>

\* Mutant: the multiplexer is closed before the watch workers are done.
LoopFinishEarly ==
    /\ loop.pc = "awaitWatchWorkers"
    /\ muxClosed' = TRUE
    /\ done' = TRUE
    /\ loop' = At("exited")
    /\ UNCHANGED <<mu, running, closed, terminated, eventChClosed, eventPool, watchPool, calls,
                   procs, history, count, panicked>>

LoopFinish ==
    /\ loop.pc = "awaitWatchWorkers"
    /\ \A w \in WatchWorkers : watchWorker[w] = "exited"
    /\ muxClosed' = TRUE
    /\ done' = TRUE
    /\ loop' = At("exited")
    /\ UNCHANGED <<mu, running, closed, terminated, eventChClosed, eventPool, watchPool, calls,
                   procs, history, count, panicked>>

(***************************************************************************)
(* The event worker and handleEvent.                                       *)
(***************************************************************************)
WorkerTake ==
    /\ worker.pc = "idle"
    /\ eventQ # <<>>
    /\ worker' = With("handling", Head(eventQ))
    /\ eventQ' = Tail(eventQ)
    /\ UNCHANGED <<lifecycle, loop, watchPool, calls, procs, history, count, panicked>>

\* Mutant: the caller is answered before the event is applied.
WorkerSucceedEarly ==
    /\ worker.pc = "handling"
    /\ errCh' = [errCh EXCEPT ![worker.ev] = "closed"]
    /\ worker' = At("idle")
    /\ UNCHANGED <<lifecycle, loop, eventQ, watchPool, caller, results, procs, history, count, panicked>>

WorkerSucceed ==
    /\ worker.pc = "handling"
    /\ applied' = Append(applied, worker.ev)
    /\ errCh' = [errCh EXCEPT ![worker.ev] = "closed"]
    /\ worker' = At("idle")
    /\ UNCHANGED <<lifecycle, loop, eventQ, watchPool, caller, results, procs, accepted, count, panicked>>

WorkerFail ==
    /\ worker.pc = "handling"
    /\ worker' = With("replying", worker.ev)
    /\ UNCHANGED <<lifecycle, loop, eventQ, watchPool, calls, procs, history, count, panicked>>

\* e.errCh <- err meets the caller in await, which returns the error.
WorkerReply ==
    /\ worker.pc = "replying"
    /\ caller[worker.ev] = "awaiting"
    /\ caller' = [caller EXCEPT ![worker.ev] = "idle"]
    /\ errCh' = [errCh EXCEPT ![worker.ev] = "closed"]
    /\ worker' = At("idle")
    /\ UNCHANGED <<lifecycle, loop, eventQ, watchPool, results, procs, history, count, panicked>>

\* Mutant: the worker does not drain its queue.
WorkerExitUndrained ==
    /\ worker.pc = "idle"
    /\ terminated
    /\ worker' = At("exited")
    /\ UNCHANGED <<lifecycle, loop, eventQ, watchPool, calls, procs, history, count, panicked>>

WorkerExit ==
    /\ worker.pc = "idle"
    /\ terminated
    /\ eventQ = <<>>
    /\ worker' = At("exited")
    /\ UNCHANGED <<lifecycle, loop, eventQ, watchPool, calls, procs, history, count, panicked>>

(***************************************************************************)
(* The watch workers and dispatchOne.                                      *)
(***************************************************************************)
WatchTake(w) ==
    /\ watchWorker[w] = "idle"
    /\ watchQ > 0
    /\ watchQ' = watchQ - 1
    /\ watchWorker' = [watchWorker EXCEPT ![w] = "dispatching"]
    /\ UNCHANGED <<lifecycle, loop, eventPool, watchCh, calls, procs, history, count, panicked>>

WatchSend(w) ==
    /\ watchWorker[w] = "dispatching"
    /\ watchCh < WatchCap \/ muxClosed
    /\ IF muxClosed THEN panicked' = TRUE /\ UNCHANGED <<watchCh, watchWorker>>
       ELSE /\ watchCh' = watchCh + 1
            /\ watchWorker' = [watchWorker EXCEPT ![w] = "idle"]
            /\ UNCHANGED panicked
    /\ UNCHANGED <<lifecycle, loop, eventPool, watchQ, calls, procs, history, count>>

\* Mutant: the dispatch waits for the watcher as long as it takes.
WatchWaits(w) == FALSE /\ UNCHANGED vars

\* The dispatch timeout: the assignment is lost for this watcher.
WatchTimeout(w) ==
    /\ watchWorker[w] = "dispatching"
    /\ watchCh = WatchCap
    /\ watchWorker' = [watchWorker EXCEPT ![w] = "idle"]
    /\ UNCHANGED <<lifecycle, loop, eventPool, watchQ, watchCh, calls, procs, history, count, panicked>>

WatchExit(w) ==
    /\ watchWorker[w] = "idle"
    /\ terminated
    /\ watchQ = 0
    /\ watchWorker' = [watchWorker EXCEPT ![w] = "exited"]
    /\ UNCHANGED <<lifecycle, loop, eventPool, watchQ, watchCh, calls, procs, history, count, panicked>>

\* The watcher receives.
Consume ==
    /\ watchCh > 0
    /\ watchCh' = watchCh - 1
    /\ UNCHANGED <<lifecycle, loop, eventPool, watchQ, watchWorker, calls, procs, history, count, panicked>>

(***************************************************************************)
(* Close.                                                                  *)
(***************************************************************************)
CloseCall(p) ==
    /\ closer[p] = "idle"
    /\ closer' = [closer EXCEPT ![p] = "locking"]
    /\ UNCHANGED <<lifecycle, loop, eventPool, watchPool, calls, runner, history, count, panicked>>

\* Mutant: Close does not close terminateCh.
CloseBeginSilently(p) ==
    /\ closer[p] = "locking"
    /\ mu = "free"
    /\ closer' = [closer EXCEPT ![p] = IF ~running \/ closed THEN "error" ELSE "waiting"]
    /\ mu' = IF ~running \/ closed THEN mu ELSE p
    /\ UNCHANGED <<running, closed, terminated, done, eventChClosed, muxClosed, loop, eventPool,
                   watchPool, calls, runner, history, count, panicked>>

CloseBegin(p) ==
    /\ closer[p] = "locking"
    /\ mu = "free"
    /\ IF ~running \/ closed
       THEN /\ closer' = [closer EXCEPT ![p] = "error"]
            /\ UNCHANGED <<mu, terminated>>
       ELSE /\ mu' = p
            /\ terminated' = TRUE
            /\ closer' = [closer EXCEPT ![p] = "waiting"]
    /\ UNCHANGED <<running, closed, done, eventChClosed, muxClosed, loop, eventPool, watchPool,
                   calls, runner, history, count, panicked>>

\* doneCh is closed, or five seconds have passed.
CloseEnd(p) ==
    /\ closer[p] = "waiting"
    /\ eventChClosed' = TRUE
    /\ running' = FALSE
    /\ closed' = TRUE
    /\ mu' = "free"
    /\ closer' = [closer EXCEPT ![p] = "returned"]
    /\ UNCHANGED <<terminated, done, muxClosed, loop, eventPool, watchPool, calls, runner,
                   history, count, panicked>>

Loop ==
    \/ LoopCheck \/ LoopPushEvent \/ LoopPushWatch \/ LoopTerminate \/ LoopChannelClosed
    \/ LoopAwaitEventWorker \/ LoopFinish \/ LoopReceiveAssignment
    \/ \E c \in Callers : LoopReceiveEvent(c)

EventWorker == WorkerTake \/ WorkerSucceed \/ WorkerFail \/ WorkerReply \/ WorkerExit

WatchWorker(w) == WatchTake(w) \/ WatchSend(w) \/ WatchTimeout(w) \/ WatchExit(w)

Step ==
    \/ \E p \in Runners : RunCheck(p) \/ SubscribeFails(p) \/ RunStart(p)
    \/ Loop
    \/ EventWorker
    \/ \E w \in WatchWorkers : WatchWorker(w)
    \/ \E p \in Closers : CloseCall(p)
    \/ \E p \in AllClosers : CloseBegin(p) \/ CloseEnd(p)

Next ==
    /\ ~panicked
    /\ \/ Step
       \/ \E c \in Callers : Call(c) \/ SendOnClosed(c) \/ Await(c)
       \/ Consume

\* Goroutines are scheduled, select does not pass over a ready case for
\* ever, timers fire, and a free mutex is obtained.  Nobody has to call.
Fairness ==
    /\ WF_vars(~panicked /\ Loop)
    /\ \A c \in Callers : SF_vars(~panicked /\ LoopReceiveEvent(c)) /\ WF_vars(~panicked /\ Await(c))
    /\ WF_vars(~panicked /\ EventWorker)
    /\ \A w \in WatchWorkers : WF_vars(~panicked /\ WatchWorker(w))
    /\ \A p \in AllClosers : WF_vars(~panicked /\ CloseBegin(p)) /\ WF_vars(~panicked /\ CloseEnd(p))

Spec == Init /\ [][Next]_vars /\ Fairness

(***************************************************************************)
(* Properties.                                                             *)
(***************************************************************************)

Times(c, q) == Cardinality({i \in DOMAIN q : q[i] = c})

(* A call that returns nil has been applied: there are never more calls of *)
(* a goroutine answered with nil than events of it applied, and never more *)
(* applied than the event loop accepted.                                   *)
AckImpliesApplied ==
    \A c \in Callers : Times(c, results) <= Times(c, applied) /\ Times(c, applied) <= Times(c, accepted)

\* q without the elements that are not in p, when p is a subsequence of q.
IsSubsequence(p, q) ==
    \E f \in [DOMAIN p -> DOMAIN q] :
        /\ \A i, j \in DOMAIN p : i < j => f[i] < f[j]
        /\ \A i \in DOMAIN p : p[i] = q[f[i]]

(* Events are applied in the order in which the event loop received them,  *)
(* each at most once: the pool has one worker, "events are executed        *)
(* sequentially".                                                          *)
AppliedInOrder == IsSubsequence(applied, accepted)

(* A worker that reports an error has a caller that will take it, also     *)
(* during shutdown: the send on the unbuffered errCh cannot block the      *)
(* worker, and through it the event loop and Close, for ever.              *)
ReplyHasReceiver == worker.pc = "replying" => caller[worker.ev] = "awaiting"

(* "close mux channels after watch-workers are done, otherwise workers     *)
(* will send on closed channel": when the multiplexer is closed no watch   *)
(* worker is, or will again be, in a dispatch.                             *)
NoDispatchAfterClose == muxClosed => \A w \in WatchWorkers : watchWorker[w] = "exited"

(* A graceful shutdown leaves at most one item behind in the two queues:   *)
(* workers drain them before they exit, and the event loop can be caught   *)
(* with no more than one item in hand.                                     *)
AtMostOneLeftBehind == done => Len(eventQ) + watchQ <= 1

(* DataStructureManager "is thread-safe and can be gracefully shut down".  *)
NoPanic == ~panicked

(* Once somebody calls Close on a running manager, or one of its channels  *)
(* is closed, the event loop terminates and closes doneCh, whatever the    *)
(* pools were doing, or the process has panicked.                          *)
ShutsDown == (running /\ \E p \in AllClosers : closer[p] = "locking") ~> (done \/ panicked)
=============================================================================
