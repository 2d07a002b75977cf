--------------------------- MODULE DSManagerProofs ---------------------------
(***************************************************************************)
(* For every set of callers, of goroutines that run or close the manager   *)
(* and of watch workers, every size of the queues and any number of calls  *)
(* and assignments: events are applied in the order of their arrival and   *)
(* acknowledged only after that, an error finds its caller, and a shutdown *)
(* neither dispatches on closed channels nor leaves more than one item.    *)
(*                                                                         *)
(* The argument.  Run starts one event loop, so doneCh is closed only      *)
(* after the event worker is gone; until then the callers of all events in *)
(* the manager wait, each for one event.  Every event in the manager has a *)
(* position in the order of arrival, younger than what was applied.  After *)
(* terminateCh is closed the event loop takes at most one more item.       *)
(***************************************************************************)
EXTENDS DSManager, FiniteSetTheorems, SequenceTheorems, TLAPS

Pushing == loop.pc = "pushEvent"
Working == worker.pc \in {"handling", "replying"}

Types ==
    /\ eventQ \in Seq(Callers) /\ watchQ \in Nat
    /\ watchWorker \in [WatchWorkers -> {"idle", "dispatching", "exited"}]
    /\ caller \in [Callers -> {"idle", "sending", "awaiting"}]
    /\ errCh \in [Callers -> {"open", "closed"}]
    /\ runner \in [Runners -> {"idle", "subscribing", "returned", "failed"}]
    /\ closer \in [AllClosers -> {"idle", "locking", "waiting", "returned", "error"}]
    /\ applied \in Seq(Callers) /\ accepted \in Seq(Callers) /\ results \in Seq(Callers)
    /\ Pushing => loop.ev \in Callers
    /\ Working => worker.ev \in Callers

\* Run starts one event loop, which closes doneCh when all workers have ended.
LifeInv ==
    /\ \A p, q \in Runners : runner[p] = "subscribing" /\ runner[q] = "subscribing" => p = q
    /\ \A p \in Runners : runner[p] = "subscribing" => ~running /\ ~closed
    /\ ~running /\ ~closed => loop.pc = "none"
    /\ \A p \in AllClosers : closer[p] = "waiting" => running \/ closed
    /\ done => loop.pc = "exited" /\ terminated /\ NoDispatchAfterClose /\ muxClosed
    /\ loop.pc \in {"awaitWatchWorkers", "exited"} => worker.pc = "exited"
    /\ worker.pc = "exited" => terminated
    /\ \A w \in WatchWorkers : watchWorker[w] = "exited" => terminated
    /\ NoDispatchAfterClose

Live(c) == c \in Callers /\ caller[c] = "awaiting" /\ errCh[c] = "open"

\* The callers of the events in the manager wait, each for one event.
EventInv ==
    worker.pc # "exited" =>
      /\ Pushing => Live(loop.ev) /\ \A i \in DOMAIN eventQ : eventQ[i] # loop.ev
      /\ Working => Live(worker.ev) /\ \A i \in DOMAIN eventQ : eventQ[i] # worker.ev
      /\ Pushing /\ Working => loop.ev # worker.ev
      /\ \A i \in DOMAIN eventQ : Live(eventQ[i])
      /\ \A i, j \in DOMAIN eventQ : eventQ[i] = eventQ[j] => i = j

\* What the workers can no longer take, and what the event loop may still put into the queues.
LateEvents == IF worker.pc = "exited" THEN Len(eventQ) ELSE 0
LateAssignments == IF \A w \in WatchWorkers : watchWorker[w] = "exited" THEN watchQ ELSE 0
InHand == IF loop.pc \in {"select", "pushEvent", "pushWatch"} THEN 1 ELSE 0
LateInv == terminated => LateEvents + LateAssignments + InHand <= 1

\* A caller that is about to return nil.
Acked(c) == IF caller[c] = "awaiting" /\ errCh[c] = "closed" THEN 1 ELSE 0
AckInv ==
    \A c \in Callers : /\ Times(c, results) + Acked(c) <= Times(c, applied)
                       /\ caller[c] = "sending" => errCh[c] = "open"

\* The positions in the order of arrival: f of what was applied, g of the queue, w of the
\* event in the worker's hand and l of that in the event loop's.
Placed(f, g, w, l) ==
    /\ \A i \in DOMAIN applied : applied[i] = accepted[f[i]]
    /\ \A i, j \in DOMAIN applied : i < j => f[i] < f[j]
    /\ \A i \in DOMAIN eventQ : eventQ[i] = accepted[g[i]]
    /\ \A i, j \in DOMAIN eventQ : i < j => g[i] < g[j]
    /\ \A i \in DOMAIN applied, j \in DOMAIN eventQ : f[i] < g[j]
    /\ Working => /\ w \in DOMAIN accepted /\ accepted[w] = worker.ev
                  /\ \A i \in DOMAIN applied : f[i] < w
                  /\ \A j \in DOMAIN eventQ : w < g[j]
    /\ Pushing => /\ l \in DOMAIN accepted /\ accepted[l] = loop.ev
                  /\ \A i \in DOMAIN applied : f[i] < l
                  /\ \A j \in DOMAIN eventQ : g[j] < l
                  /\ Working => w < l

OrderInv ==
    \E f \in [DOMAIN applied -> DOMAIN accepted], g \in [DOMAIN eventQ -> DOMAIN accepted],
       w, l \in 0 .. Len(accepted) : Placed(f, g, w, l)

IInv == Types /\ LifeInv /\ EventInv /\ LateInv /\ AckInv /\ OrderInv

LEMMA InitIInv == Init => IInv
  <1> SUFFICES ASSUME Init PROVE IInv
    OBVIOUS
  <1>0. loop.pc = "none" /\ worker.pc = "idle" /\ eventQ = <<>> /\ applied = <<>> /\ accepted = <<>> /\ results = <<>>
    BY DEF Init, At
  <1>e. <<>> \in Seq(Callers) /\ Len(<<>>) = 0 /\ DOMAIN <<>> = {}
    OBVIOUS
  <1>1. Types
    BY <1>0, <1>e DEF Init, Types, Pushing, Working
  <1>2. LifeInv /\ LateInv
    BY <1>0 DEF Init, LifeInv, LateInv, NoDispatchAfterClose
  <1>3. EventInv
    BY <1>0, <1>e DEF EventInv, Pushing, Working
  <1>4. AckInv
    <2>1. \A c \in Callers : Acked(c) = 0 /\ errCh[c] = "open"
      BY DEF Init, Acked
    <2>2. \A c \in Callers : Times(c, <<>>) = 0
      <3> SUFFICES ASSUME NEW c \in Callers PROVE Times(c, <<>>) = 0
        OBVIOUS
      <3>1. {i \in DOMAIN <<>> : <<>>[i] = c} = {}
        BY <1>e
      <3> QED
        BY <3>1, FS_EmptySet DEF Times
    <2> QED
      BY <1>0, <2>1, <2>2 DEF AckInv
  <1>5. OrderInv
    <2> DEFINE f == [i \in {} |-> 0]
    <2>1. DOMAIN applied = {} /\ DOMAIN eventQ = {} /\ Len(accepted) = 0
      BY <1>0, <1>e
    <2>2. f \in [DOMAIN applied -> DOMAIN accepted] /\ f \in [DOMAIN eventQ -> DOMAIN accepted]
      BY <2>1
    <2>3. Placed(f, f, 0, 0)
      BY <1>0, <2>1 DEF Placed, Pushing, Working
    <2>4. 0 \in 0 .. Len(accepted)
      BY <2>1
    <2> QED
      BY <2>2, <2>3, <2>4, Zenon DEF OrderInv
  <1> QED
    BY <1>1, <1>2, <1>3, <1>4, <1>5 DEF IInv

(***************************************************************************)
(* The life of the manager.                                                *)
(***************************************************************************)
LEMMA NextLifeInv == Types /\ LifeInv /\ Next => LifeInv'
  <1> SUFFICES ASSUME Types, LifeInv, Next PROVE LifeInv'
    BY ZenonT(30)
  <1> USE DEF Types, LifeInv, NoDispatchAfterClose, lifecycle, eventPool, watchPool, procs, At, With
  <1>1. ASSUME NEW p \in Runners, RunCheck(p) PROVE LifeInv'
    BY <1>1 DEF RunCheck
  <1>2. ASSUME NEW p \in Runners, SubscribeFails(p) PROVE LifeInv'
    BY <1>2 DEF SubscribeFails
  <1>3. ASSUME NEW p \in Runners, RunStart(p) PROVE LifeInv'
    BY <1>3 DEF RunStart
  <1>4. ASSUME NEW c \in Callers, Call(c) PROVE LifeInv'
    BY <1>4 DEF Call
  <1>5. ASSUME NEW c \in Callers, SendOnClosed(c) PROVE LifeInv'
    BY <1>5 DEF SendOnClosed
  <1>6. ASSUME NEW c \in Callers, Await(c) PROVE LifeInv'
    BY <1>6 DEF Await
  <1>7. ASSUME NEW c \in Callers, LoopReceiveEvent(c) PROVE LifeInv'
    BY <1>7 DEF LoopReceiveEvent
  <1>8. CASE LoopCheck
    BY <1>8 DEF LoopCheck
  <1>9. CASE LoopPushEvent
    BY <1>9 DEF LoopPushEvent
  <1>10. CASE LoopReceiveAssignment
    BY <1>10 DEF LoopReceiveAssignment
  <1>11. CASE LoopPushWatch
    BY <1>11 DEF LoopPushWatch
  <1>12. CASE LoopTerminate
    BY <1>12 DEF LoopTerminate
  <1>13. CASE LoopChannelClosed
    BY <1>13 DEF LoopChannelClosed
  <1>14. CASE LoopAwaitEventWorker
    BY <1>14 DEF LoopAwaitEventWorker
  <1>15. CASE LoopFinish
    BY <1>15 DEF LoopFinish
  <1>16. CASE WorkerTake
    BY <1>16 DEF WorkerTake
  <1>17. CASE WorkerSucceed
    BY <1>17, Zenon DEF WorkerSucceed
  <1>18. CASE WorkerFail
    BY <1>18, Zenon DEF WorkerFail
  <1>19. CASE WorkerReply
    BY <1>19 DEF WorkerReply
  <1>20. CASE WorkerExit
    BY <1>20, Zenon DEF WorkerExit
  <1>21. ASSUME NEW w \in WatchWorkers, WatchTake(w) PROVE LifeInv'
    BY <1>21, Zenon DEF WatchTake
  <1>22. ASSUME NEW w \in WatchWorkers, WatchSend(w) PROVE LifeInv'
    BY <1>22 DEF WatchSend
  <1>23. ASSUME NEW w \in WatchWorkers, WatchTimeout(w) PROVE LifeInv'
    BY <1>23, Zenon DEF WatchTimeout
  <1>24. ASSUME NEW w \in WatchWorkers, WatchExit(w) PROVE LifeInv'
    BY <1>24, Zenon DEF WatchExit
  <1>25. CASE Consume
    BY <1>25, Zenon DEF Consume
  <1>26. ASSUME NEW p \in AllClosers, CloseCall(p) PROVE LifeInv'
    BY <1>26, ZenonT(30) DEF CloseCall
  <1>27. ASSUME NEW p \in AllClosers, CloseBegin(p) PROVE LifeInv'
    BY <1>27 DEF CloseBegin
  <1>28. ASSUME NEW p \in AllClosers, CloseEnd(p) PROVE LifeInv'
    BY <1>28, Zenon DEF CloseEnd
  <1> QED
    BY <1>1, <1>2, <1>3, <1>4, <1>5, <1>6, <1>7, <1>8, <1>9, <1>10, <1>11, <1>12, <1>13, <1>14, <1>15, <1>16, <1>17, <1>18, <1>19, <1>20, <1>21, <1>22, <1>23, <1>24, <1>25, <1>26, <1>27, <1>28
   , Zenon DEF Next, Step, Loop, EventWorker, WatchWorker, AllClosers

(***************************************************************************)
(* What is left in the queues.                                             *)
(***************************************************************************)
AllExited == \A w \in WatchWorkers : watchWorker[w] = "exited"

\* The sum gets no larger.
LEMMA LateKept ==
  ASSUME LateInv, terminated' = terminated,
         NEW a \in Nat, NEW b \in Nat, NEW h \in Nat, NEW x \in Nat, NEW y \in Nat, NEW z \in Nat,
         LateEvents = a, LateAssignments = b, InHand = h,
         LateEvents' = x, LateAssignments' = y, InHand' = z, x + y + z <= a + b + h
  PROVE  LateInv'
  <1> SUFFICES ASSUME terminated PROVE x + y + z <= 1
    BY DEF LateInv
  <1>1. a + b + h <= 1
    BY DEF LateInv
  <1> QED
    BY <1>1

LEMMA NextLateInv == Types /\ LifeInv /\ LateInv /\ Next => LateInv'
  <1> SUFFICES ASSUME Types, LifeInv, LateInv, Next PROVE LateInv'
    BY Zenon
  <1>0. LateEvents \in Nat /\ LateAssignments \in Nat /\ InHand \in Nat /\ Len(eventQ) \in Nat
    BY LenProperties DEF Types, LateEvents, LateAssignments, InHand
  <1> USE DEF lifecycle, eventPool, watchPool, procs, At, With
  <1>1. CASE UNCHANGED <<terminated, loop, eventQ, worker, watchQ, watchWorker>>
    BY <1>1 DEF LateInv, LateEvents, LateAssignments, InHand
  <1>2. ASSUME NEW p \in Runners, RunStart(p) PROVE LateInv'
    <2>1. LateEvents' = LateEvents /\ LateAssignments' = LateAssignments /\ InHand' = 0 /\ terminated' = terminated
      BY <1>2, Zenon DEF RunStart, LateEvents, LateAssignments, InHand
    <2>2. InHand + 0 >= 0
      BY <1>0
    <2> QED
      BY <1>0, <2>1, <2>2, LateKept
  <1>3. CASE LoopCheck
    <2>1. /\ LateEvents' = LateEvents /\ LateAssignments' = LateAssignments /\ terminated' = terminated
          /\ terminated => InHand' = 0
      BY <1>3 DEF LoopCheck, LateEvents, LateAssignments, InHand
    <2> QED
      BY <1>0, <2>1 DEF LateInv
  <1>4. ASSUME NEW c \in Callers, LoopReceiveEvent(c) PROVE LateInv'
    <2>1. LateEvents' = LateEvents /\ LateAssignments' = LateAssignments /\ InHand' = InHand /\ terminated' = terminated
      BY <1>4 DEF LoopReceiveEvent, LateEvents, LateAssignments, InHand
    <2> QED
      BY <2>1 DEF LateInv
  <1>5. CASE LoopReceiveAssignment
    <2>1. LateEvents' = LateEvents /\ LateAssignments' = LateAssignments /\ InHand' = InHand /\ terminated' = terminated
      BY <1>5 DEF LoopReceiveAssignment, LateEvents, LateAssignments, InHand
    <2> QED
      BY <2>1 DEF LateInv
  <1>6. CASE LoopPushEvent
    <2>1. Len(eventQ') = Len(eventQ) + 1
      BY <1>6, AppendProperties, Zenon DEF LoopPushEvent, Types, Pushing
    <2>2. /\ LateEvents' \in {LateEvents, LateEvents + 1} /\ LateAssignments' = LateAssignments
          /\ InHand = 1 /\ InHand' = 0 /\ terminated' = terminated
      BY <1>6, <2>1 DEF LoopPushEvent, LateEvents, LateAssignments, InHand
    <2> QED
      BY <1>0, <2>2, LateKept
  <1>7. CASE LoopPushWatch
    <2>1. /\ LateAssignments' \in {LateAssignments, LateAssignments + 1} /\ LateEvents' = LateEvents
          /\ InHand = 1 /\ InHand' = 0 /\ terminated' = terminated
      BY <1>7, Zenon DEF LoopPushWatch, LateEvents, LateAssignments, InHand
    <2> QED
      BY <1>0, <2>1, LateKept
  <1>8. CASE LoopTerminate \/ LoopChannelClosed \/ LoopAwaitEventWorker \/ LoopFinish
    <2>1. LateEvents' = LateEvents /\ LateAssignments' = LateAssignments /\ InHand' = 0 /\ terminated' = terminated
      BY <1>8 DEF LoopTerminate, LoopChannelClosed, LoopAwaitEventWorker, LoopFinish, LateEvents, LateAssignments,
                  InHand
    <2> QED
      BY <1>0, <2>1 DEF LateInv
  <1>9. CASE WorkerTake \/ WorkerSucceed \/ WorkerFail \/ WorkerReply
    <2>1. worker.pc # "exited" /\ worker'.pc # "exited" /\ UNCHANGED <<terminated, loop, watchQ, watchWorker>>
      <3>1. CASE WorkerTake
        BY <3>1, Zenon DEF WorkerTake
      <3>2. CASE WorkerSucceed
        BY <3>2 DEF WorkerSucceed
      <3>3. CASE WorkerFail
        BY <3>3 DEF WorkerFail
      <3>4. CASE WorkerReply
        BY <3>4 DEF WorkerReply
      <3> QED
        BY <1>9, <3>1, <3>2, <3>3, <3>4
    <2> QED
      BY <2>1 DEF LateInv, LateEvents, LateAssignments, InHand
  <1>10. CASE WorkerExit
    <2>1. Len(eventQ) = 0
      BY <1>10 DEF WorkerExit
    <2>2. LateEvents' = 0 /\ UNCHANGED <<terminated, loop, watchQ, watchWorker>>
      BY <1>10, <2>1 DEF WorkerExit, LateEvents
    <2>3. LateAssignments' = LateAssignments /\ InHand' = InHand
      BY <2>2 DEF LateAssignments, InHand
    <2> QED
      BY <1>0, <2>2, <2>3 DEF LateInv
  <1>11. ASSUME NEW w \in WatchWorkers, WatchTake(w) \/ WatchSend(w) \/ WatchTimeout(w) PROVE LateInv'
    <2>1. (~AllExited /\ ~AllExited') \/ UNCHANGED <<watchQ, watchWorker>>
      BY <1>11, Zenon DEF WatchTake, WatchSend, WatchTimeout, AllExited, Types
    <2>2. UNCHANGED <<terminated, loop, eventQ, worker>>
      BY <1>11, Zenon DEF WatchTake, WatchSend, WatchTimeout
    <2> QED
      BY <2>1, <2>2 DEF LateInv, LateEvents, LateAssignments, InHand, AllExited
  <1>12. ASSUME NEW w \in WatchWorkers, WatchExit(w) PROVE LateInv'
    <2>1. LateAssignments' = 0 /\ UNCHANGED <<terminated, loop, eventQ, worker>>
      BY <1>12, Zenon DEF WatchExit, LateAssignments
    <2>2. LateEvents' = LateEvents /\ InHand' = InHand
      BY <2>1 DEF LateEvents, InHand
    <2> QED
      BY <1>0, <2>1, <2>2 DEF LateInv
  <1>13. ASSUME NEW p \in AllClosers, CloseBegin(p) PROVE LateInv'
    <2>1. UNCHANGED <<loop, eventQ, worker, watchQ, watchWorker>>
      BY <1>13, Zenon DEF CloseBegin
    <2>2. CASE terminated
      <3>1. terminated' = terminated
        BY <1>13, <2>2, Zenon DEF CloseBegin
      <3> QED
        BY <1>1, <2>1, <3>1
    <2>3. CASE ~terminated
      <3>1. worker.pc # "exited" /\ ~AllExited
        BY <2>3, DSManagerAssumption DEF LifeInv, AllExited
      <3> QED
        BY <2>1, <3>1 DEF LateInv, LateEvents, LateAssignments, InHand, AllExited
    <2> QED
      BY <2>2, <2>3
  <1>14. ASSUME NEW p \in Runners, RunCheck(p) \/ SubscribeFails(p) PROVE LateInv'
    BY <1>1, <1>14, Zenon DEF RunCheck, SubscribeFails
  <1>15. ASSUME NEW c \in Callers, Call(c) \/ SendOnClosed(c) \/ Await(c) PROVE LateInv'
    BY <1>1, <1>15 DEF Call, SendOnClosed, Await
  <1>16. ASSUME NEW p \in AllClosers, CloseCall(p) \/ CloseEnd(p) PROVE LateInv'
    BY <1>1, <1>16, Zenon DEF CloseCall, CloseEnd
  <1>17. CASE Consume
    BY <1>1, <1>17 DEF Consume
  <1> QED
    BY <1>2, <1>3, <1>4, <1>5, <1>6, <1>7, <1>8, <1>9, <1>10, <1>11, <1>12, <1>13, <1>14, <1>15, <1>16, <1>17
    DEF Next, Step, Loop, EventWorker, WatchWorker, AllClosers

(***************************************************************************)
(* The steps that concern events, and all others.                          *)
(***************************************************************************)
EventStep ==
    \/ \E c \in Callers : Call(c) \/ Await(c) \/ LoopReceiveEvent(c)
    \/ LoopPushEvent \/ EventWorker

Elsewhere ==
    /\ UNCHANGED <<eventQ, worker, caller, errCh, results, applied, accepted>>
    /\ loop' = loop \/ (~Pushing /\ ~Pushing')
    /\ watchQ' \in Nat /\ watchWorker' \in [WatchWorkers -> {"idle", "dispatching", "exited"}]
    /\ runner' \in [Runners -> {"idle", "subscribing", "returned", "failed"}]
    /\ closer' \in [AllClosers -> {"idle", "locking", "waiting", "returned", "error"}]

LEMMA Predecessor == \A n \in Nat : n > 0 => n - 1 \in Nat
  OBVIOUS

LEMMA Steps == Types /\ LifeInv /\ Next => EventStep \/ Elsewhere
  <1> SUFFICES ASSUME Types, LifeInv, Next PROVE EventStep \/ Elsewhere
    BY Zenon
  <1> USE DEF Types, Pushing, lifecycle, eventPool, watchPool, calls, procs, history, At, Elsewhere
  <1>1. ASSUME NEW p \in Runners, RunCheck(p) \/ SubscribeFails(p) PROVE Elsewhere
    BY <1>1, Zenon DEF RunCheck, SubscribeFails
  <1>2. ASSUME NEW p \in Runners, RunStart(p) PROVE Elsewhere
    BY <1>2, Zenon DEF RunStart, LifeInv
  <1>3. CASE LoopCheck \/ LoopReceiveAssignment \/ LoopPushWatch \/ LoopTerminate
    BY <1>3, DSManagerAssumption, SMTT(30) DEF LoopCheck, LoopReceiveAssignment, LoopPushWatch, LoopTerminate
  <1>4. CASE LoopAwaitEventWorker \/ LoopFinish
    BY <1>4 DEF LoopAwaitEventWorker, LoopFinish
  <1>9. CASE LoopChannelClosed
    BY <1>9, Zenon DEF LoopChannelClosed, AllClosers
  <1>5. ASSUME NEW w \in WatchWorkers, WatchWorker(w) PROVE Elsewhere
    <2>1. CASE WatchTake(w)
      <3>1. watchQ \in Nat /\ watchQ > 0
        BY <2>1, Zenon DEF WatchTake
      <3>2. watchQ - 1 \in Nat
        BY <3>1, Predecessor, Zenon
      <3> QED
        BY <2>1, <3>2, Zenon DEF WatchTake
    <2>2. CASE WatchSend(w)
      BY <2>2, Zenon DEF WatchSend
    <2>3. CASE WatchTimeout(w) \/ WatchExit(w)
      BY <2>3, Zenon DEF WatchTimeout, WatchExit
    <2> QED
      BY <1>5, <2>1, <2>2, <2>3, Zenon DEF WatchWorker
  <1>6. ASSUME NEW p \in AllClosers, CloseCall(p) \/ CloseBegin(p) \/ CloseEnd(p) PROVE Elsewhere
    <2>1. CASE CloseCall(p)
      BY <2>1, Zenon DEF CloseCall
    <2>2. CASE CloseBegin(p)
      <3>1. CASE ~running \/ closed
        BY <2>2, <3>1, Zenon DEF CloseBegin
      <3>2. CASE ~(~running \/ closed)
        BY <2>2, <3>2, Zenon DEF CloseBegin
      <3> QED
        BY <3>1, <3>2, Zenon
    <2>3. CASE CloseEnd(p)
      BY <2>3, Zenon DEF CloseEnd
    <2> QED
      BY <1>6, <2>1, <2>2, <2>3, Zenon
  <1>7. CASE Consume
    BY <1>7, Zenon DEF Consume
  <1>8. ASSUME NEW c \in Callers, SendOnClosed(c) PROVE Elsewhere
    BY <1>8, Zenon DEF SendOnClosed
  <1> QED
    BY <1>1, <1>2, <1>3, <1>4, <1>5, <1>6, <1>7, <1>8, <1>9, Zenon DEF Next, Step, Loop, EventStep, AllClosers

(***************************************************************************)
(* Sequences.                                                              *)
(***************************************************************************)
LEMMA AppendFacts ==
  ASSUME NEW S, NEW q \in Seq(S), NEW x \in S
  PROVE  /\ Append(q, x) \in Seq(S) /\ Len(q) \in Nat /\ DOMAIN q = 1 .. Len(q)
         /\ DOMAIN Append(q, x) = 1 .. (Len(q) + 1) /\ Len(Append(q, x)) = Len(q) + 1
         /\ \A i \in DOMAIN q : Append(q, x)[i] = q[i]
         /\ Append(q, x)[Len(q) + 1] = x
         /\ \A i \in DOMAIN Append(q, x) : i \in DOMAIN q \/ i = Len(q) + 1
  <1>1. Append(q, x) \in Seq(S) /\ Len(Append(q, x)) = Len(q) + 1
    BY AppendProperties, Zenon
  <1>2. DOMAIN q = 1 .. Len(q) /\ Len(q) \in Nat /\ DOMAIN Append(q, x) = 1 .. (Len(q) + 1)
    BY <1>1, LenProperties
  <1>3. \A i \in 1 .. (Len(q) + 1) : i \in 1 .. Len(q) \/ i = Len(q) + 1
    BY <1>2
  <1> QED
    BY <1>1, <1>2, <1>3, AppendProperties

\* r is q with x, at its end n.
Extends(q, x, r, n) ==
    /\ n \in Nat /\ n \in DOMAIN r /\ r[n] = x /\ Len(r) = n
    /\ \A i \in DOMAIN q : i < n /\ i # n /\ i \in DOMAIN r /\ r[i] = q[i]
    /\ \A i \in DOMAIN r : i \in DOMAIN q \/ i = n
    /\ \A i, j \in DOMAIN r : i < j => i \in DOMAIN q

LEMMA AppendExtends == \A q \in Seq(Callers), x \in Callers : Extends(q, x, Append(q, x), Len(q) + 1)
  <1> TAKE q \in Seq(Callers), x \in Callers
  <1>1. PICK r : r = Append(q, x)
    BY Zenon
  <1>2. PICK k : k = Len(q)
    OBVIOUS
  <1>3. /\ k \in Nat /\ DOMAIN q = 1 .. k /\ DOMAIN r = 1 .. (k + 1) /\ Len(r) = k + 1
        /\ r[k + 1] = x
    BY <1>1, <1>2, AppendFacts
  <1>4. \A i \in DOMAIN q : r[i] = q[i]
    BY <1>1, AppendFacts
  <1>5. /\ k + 1 \in 1 .. (k + 1)
        /\ \A i \in 1 .. k : i < k + 1 /\ i # k + 1 /\ i \in 1 .. (k + 1)
        /\ \A i \in 1 .. (k + 1) : i \in 1 .. k \/ i = k + 1
        /\ \A i, j \in 1 .. (k + 1) : i < j => i \in 1 .. k
    BY <1>3
  <1>6. Extends(q, x, r, k + 1)
    BY <1>3, <1>4, <1>5 DEF Extends
  <1> QED
    BY <1>1, <1>2, <1>6

LEMMA TailFacts ==
  ASSUME NEW S, NEW q \in Seq(S), q # <<>>
  PROVE  /\ Tail(q) \in Seq(S) /\ Head(q) = q[1] /\ 1 \in DOMAIN q /\ q[1] \in S
         /\ \A i \in DOMAIN Tail(q) : i \in Nat /\ i >= 1 /\ i + 1 \in DOMAIN q /\ Tail(q)[i] = q[i + 1]
  <1>1. Tail(q) \in Seq(S) /\ Len(Tail(q)) = Len(q) - 1 /\ \A i \in 1 .. Len(Tail(q)) : Tail(q)[i] = q[i + 1]
    BY HeadTailProperties, Zenon
  <1>2. Len(q) \in Nat /\ Len(q) # 0 /\ DOMAIN q = 1 .. Len(q) /\ DOMAIN Tail(q) = 1 .. (Len(q) - 1)
    BY <1>1, LenProperties, EmptySeq
  <1>3. 1 \in DOMAIN q /\ \A i \in 1 .. (Len(q) - 1) : i \in Nat /\ i >= 1 /\ i + 1 \in 1 .. Len(q)
    BY <1>2
  <1>4. Head(q) = q[1] /\ q[1] \in S
    BY <1>2, <1>3, ElementOfSeq
  <1> QED
    BY <1>1, <1>2, <1>3, <1>4

LEMMA TimesType ==
  ASSUME NEW S, NEW q \in Seq(S), NEW c
  PROVE  IsFiniteSet({i \in DOMAIN q : q[i] = c}) /\ Times(c, q) \in Nat
  <1>1. IsFiniteSet(DOMAIN q)
    BY LenProperties, FS_Interval
  <1>2. {i \in DOMAIN q : q[i] = c} \in SUBSET DOMAIN q
    OBVIOUS
  <1>3. IsFiniteSet({i \in DOMAIN q : q[i] = c})
    BY <1>1, <1>2, FS_Subset
  <1> QED
    BY <1>3, FS_CardinalityType DEF Times

LEMMA TimesAppend ==
  ASSUME NEW S, NEW q \in Seq(S), NEW x \in S, NEW c
  PROVE  /\ Times(c, Append(q, x)) = IF x = c THEN Times(c, q) + 1 ELSE Times(c, q)
         /\ Times(c, q) \in Nat
  <1> DEFINE P == {i \in DOMAIN q : q[i] = c}
             R == {i \in DOMAIN Append(q, x) : Append(q, x)[i] = c}
  <1>1. IsFiniteSet(P) /\ Times(c, q) \in Nat
    BY TimesType, Zenon
  <1>2. Len(q) + 1 \notin P
    <2>1. Len(q) \in Nat /\ DOMAIN q = 1 .. Len(q)
      BY LenProperties, Zenon
    <2>2. Len(q) + 1 \notin 1 .. Len(q)
      BY <2>1
    <2> QED
      BY <2>1, <2>2
  <1>3. DOMAIN q \subseteq DOMAIN Append(q, x) /\ Len(q) + 1 \in DOMAIN Append(q, x)
    <2>1. Len(q) \in Nat /\ DOMAIN q = 1 .. Len(q) /\ DOMAIN Append(q, x) = 1 .. (Len(q) + 1)
      BY AppendFacts
    <2> QED
      BY <2>1
  <1>a. /\ \A i \in DOMAIN q : Append(q, x)[i] = q[i]
        /\ Append(q, x)[Len(q) + 1] = x
        /\ \A i \in DOMAIN Append(q, x) : i \in DOMAIN q \/ i = Len(q) + 1
    BY AppendFacts
  <1>4. CASE x = c
    <2>1. R = P \cup {Len(q) + 1}
      BY <1>3, <1>4, <1>a, Zenon
    <2> QED
      BY <1>1, <1>2, <1>4, <2>1, FS_AddElement, Zenon DEF Times
  <1>5. CASE x # c
    <2>1. R = P
      BY <1>3, <1>5, <1>a, Zenon
    <2> QED
      BY <1>1, <1>5, <2>1, Zenon DEF Times
  <1> QED
    BY <1>1, <1>4, <1>5, Zenon

(***************************************************************************)
(* Types, and the events in the manager.                                   *)
(***************************************************************************)
LEMMA AppendTimes ==
  \A q \in Seq(Callers), x, c \in Callers :
      Times(c, Append(q, x)) = IF x = c THEN Times(c, q) + 1 ELSE Times(c, q)
  BY TimesAppend, Zenon

LEMMA TailCallers == \A q \in Seq(Callers) : q # <<>> => Tail(q) \in Seq(Callers) /\ Head(q) \in Callers
  BY TailFacts

LEMMA NextTypes == Types /\ LifeInv /\ Next => Types'
  <1> SUFFICES ASSUME Types, LifeInv, Next PROVE Types'
    BY Zenon
  <1> USE DEF Types, Pushing, Working, lifecycle, eventPool, watchPool, calls, procs, history, At, With
  <1>1. CASE Elsewhere
    BY <1>1, Zenon DEF Elsewhere
  <1>2. ASSUME NEW c \in Callers, Call(c) PROVE Types'
    BY <1>2 DEF Call
  <1>3. ASSUME NEW c \in Callers, Await(c) PROVE Types'
    <2>1. Append(results, c) \in Seq(Callers)
      BY AppendFacts, Zenon
    <2> QED
      BY <1>3, <2>1, Zenon DEF Await
  <1>4. ASSUME NEW c \in Callers, LoopReceiveEvent(c) PROVE Types'
    <2>1. Append(accepted, c) \in Seq(Callers)
      BY AppendFacts, Zenon
    <2> QED
      BY <1>4, <2>1, Zenon DEF LoopReceiveEvent
  <1>5. CASE LoopPushEvent
    <2>1. Append(eventQ, loop.ev) \in Seq(Callers)
      BY <1>5, AppendFacts, Zenon DEF LoopPushEvent
    <2> QED
      BY <1>5, <2>1, Zenon DEF LoopPushEvent
  <1>6. CASE WorkerTake
    <2>0. eventQ \in Seq(Callers) /\ eventQ # <<>>
      BY <1>6, Zenon DEF WorkerTake
    <2>1. Tail(eventQ) \in Seq(Callers) /\ Head(eventQ) \in Callers
      BY <2>0, TailCallers, Zenon
    <2> QED
      BY <1>6, <2>1, Zenon DEF WorkerTake
  <1>7. CASE WorkerSucceed
    <2>1. Append(applied, worker.ev) \in Seq(Callers)
      BY <1>7, AppendFacts, Zenon DEF WorkerSucceed
    <2> QED
      BY <1>7, <2>1, Zenon DEF WorkerSucceed
  <1>8. CASE WorkerFail
    BY <1>8, Zenon DEF WorkerFail
  <1>9. CASE WorkerReply
    BY <1>9, Zenon DEF WorkerReply
  <1>10. CASE WorkerExit
    BY <1>10, Zenon DEF WorkerExit
  <1> QED
    BY <1>1, <1>2, <1>3, <1>4, <1>5, <1>6, <1>7, <1>8, <1>9, <1>10, Steps, Zenon DEF EventStep, EventWorker

LEMMA NextEventInv == Types /\ LifeInv /\ EventInv /\ AckInv /\ Next => EventInv'
  <1> SUFFICES ASSUME Types, LifeInv, EventInv, AckInv, Next PROVE EventInv'
    BY Zenon
  <1> USE DEF eventPool, calls, At, With
  <1>t. /\ eventQ \in Seq(Callers) /\ caller \in [Callers -> {"idle", "sending", "awaiting"}]
        /\ errCh \in [Callers -> {"open", "closed"}]
    BY DEF Types
  <1>0. \A i \in DOMAIN eventQ : eventQ[i] \in Callers
    BY <1>t, ElementOfSeq, LenProperties
  <1>k. ASSUME UNCHANGED <<eventQ, worker>>, loop' = loop \/ ~Pushing', \A d \in Callers : Live(d) => Live(d)'
        PROVE  EventInv'
    <2>1. CASE worker.pc = "exited"
      BY <1>k, <2>1, Zenon DEF EventInv
    <2>2. CASE worker.pc # "exited"
      <3>1. \A d : Live(d) => Live(d)'
        BY <1>k, Zenon DEF Live
      <3>2. Pushing' => Live(loop.ev)' /\ \A i \in DOMAIN eventQ' : eventQ'[i] # loop'.ev
        <4>1. ASSUME loop' = loop, Pushing PROVE Live(loop.ev) /\ \A i \in DOMAIN eventQ : eventQ[i] # loop.ev
          BY <2>2, <4>1, Zenon DEF EventInv
        <4> QED
          <5>1. CASE ~Pushing'
            BY <5>1, Zenon
          <5>2. CASE loop' = loop /\ Pushing'
            <6>1. Pushing /\ loop'.ev = loop.ev /\ eventQ' = eventQ
              BY <1>k, <5>2, Zenon DEF Pushing
            <6>2. Live(loop.ev) /\ \A i \in DOMAIN eventQ : eventQ[i] # loop.ev
              BY <4>1, <5>2, <6>1, Zenon
            <6>3. Live(loop.ev)'
              BY <3>1, <6>1, <6>2, Zenon DEF Live
            <6> QED
              BY <6>1, <6>2, <6>3
          <5> QED
            BY <1>k, <5>1, <5>2, Zenon
      <3>3. Working' => Live(worker.ev)' /\ \A i \in DOMAIN eventQ' : eventQ'[i] # worker'.ev
        <4>1. Working => Live(worker.ev) /\ \A i \in DOMAIN eventQ : eventQ[i] # worker.ev
          BY <2>2, Zenon DEF EventInv
        <4> QED
          BY <1>k, <3>1, <4>1, Zenon DEF Working, Live
      <3>4. Pushing' /\ Working' => loop'.ev # worker'.ev
        BY <1>k, <2>2, Zenon DEF EventInv, Pushing, Working
      <3>5. \A i \in DOMAIN eventQ' : Live(eventQ[i])'
        <4>1. \A i \in DOMAIN eventQ : Live(eventQ[i])
          BY <2>2, Zenon DEF EventInv
        <4> QED
          BY <1>k, <3>1, <4>1, Zenon DEF Live
      <3>6. \A i, j \in DOMAIN eventQ' : eventQ'[i] = eventQ'[j] => i = j
        BY <1>k, <2>2, Zenon DEF EventInv
      <3> QED
        BY <3>2, <3>3, <3>4, <3>5, <3>6, Zenon DEF EventInv
    <2> QED
      BY <2>1, <2>2, Zenon
  <1>1. CASE Elsewhere
    BY <1>1, <1>k, Zenon DEF Elsewhere, Live
  <1>2. ASSUME NEW c \in Callers, Call(c) PROVE EventInv'
    <2>1. \A d \in Callers : Live(d) => Live(d)'
      BY <1>t, <1>2, Zenon DEF Call, Live
    <2> QED
      BY <1>2, <1>k, <2>1, Zenon DEF Call
  <1>3. ASSUME NEW c \in Callers, Await(c) PROVE EventInv'
    <2>1. CASE errCh[c] = "closed"
      <3>1. \A d \in Callers : Live(d) => Live(d)'
        BY <1>t, <1>3, <2>1, Zenon DEF Await, Live
      <3> QED
        BY <1>3, <1>k, <3>1, Zenon DEF Await
    <2>2. CASE done
      <3>1. worker'.pc = "exited"
        BY <1>3, <2>2, Zenon DEF Await, LifeInv
      <3> QED
        BY <3>1, Zenon DEF EventInv
    <2> QED
      BY <1>3, <2>1, <2>2, Zenon DEF Await
  <1>4. ASSUME NEW c \in Callers, LoopReceiveEvent(c) PROVE EventInv'
    <2>1. errCh[c] = "open" /\ ~Live(c) /\ UNCHANGED <<eventQ, worker>> /\ loop'.ev = c
      BY <1>4, Zenon DEF LoopReceiveEvent, AckInv, Live
    <2>2. \A d \in Callers : (Live(d) => Live(d)') /\ Live(c)'
      BY <1>t, <1>4, <2>1, Zenon DEF LoopReceiveEvent, Live
    <2> QED
      BY <1>0, <2>1, <2>2, SMTT(30) DEF EventInv, Pushing, Working, Live
  <1>5. CASE LoopPushEvent
    <2>0. PICK e \in Callers : e = loop.ev
      BY <1>5, Zenon DEF LoopPushEvent, Types, Pushing
    <2>1. Pushing /\ ~Pushing' /\ eventQ' = Append(eventQ, e) /\ UNCHANGED <<worker, caller, errCh>>
      BY <1>5, <2>0, Zenon DEF LoopPushEvent, Pushing
    <2>2. \A i \in DOMAIN eventQ' : \/ i \in DOMAIN eventQ /\ eventQ'[i] = eventQ[i]
                                    \/ i = Len(eventQ) + 1 /\ eventQ'[i] = e
      <3>1. Extends(eventQ, e, eventQ', Len(eventQ) + 1)
        BY <1>t, <2>1, AppendExtends
      <3> QED
        BY <3>1, Zenon DEF Extends
    <2>3. \A d : Live(d)' <=> Live(d)
      BY <2>1, Zenon DEF Live
    <2> SUFFICES ASSUME worker.pc # "exited"
                 PROVE  /\ Working => Live(worker.ev) /\ \A i \in DOMAIN eventQ' : eventQ'[i] # worker.ev
                        /\ \A i \in DOMAIN eventQ' : Live(eventQ'[i])
                        /\ \A i, j \in DOMAIN eventQ' : eventQ'[i] = eventQ'[j] => i = j
      BY <2>1, <2>3, Zenon DEF EventInv, Working, Live
    <2>4. /\ Live(e) /\ \A i \in DOMAIN eventQ : eventQ[i] # e /\ Live(eventQ[i])
          /\ Working => Live(worker.ev) /\ e # worker.ev /\ \A i \in DOMAIN eventQ : eventQ[i] # worker.ev
          /\ \A i, j \in DOMAIN eventQ : eventQ[i] = eventQ[j] => i = j
      BY <2>0, <2>1, Zenon DEF EventInv
    <2> QED
      BY <2>2, <2>4, Zenon
  <1>6. CASE WorkerTake
    <2>0. eventQ # <<>> /\ eventQ' = Tail(eventQ) /\ worker' = With("handling", Head(eventQ))
      BY <1>6, Zenon DEF WorkerTake
    <2>1. worker.pc # "exited" /\ worker'.ev = eventQ[1] /\ 1 \in DOMAIN eventQ /\ UNCHANGED <<loop, caller, errCh>>
      BY <1>t, <1>6, <2>0, TailFacts, SMTT(30) DEF WorkerTake
    <2>2. \A i \in DOMAIN eventQ' : i \in Nat /\ i >= 1 /\ i + 1 \in DOMAIN eventQ /\ eventQ'[i] = eventQ[i + 1]
      BY <1>t, <2>0, TailFacts, Zenon
    <2>3. /\ Pushing => Live(loop.ev) /\ \A i \in DOMAIN eventQ : eventQ[i] # loop.ev
          /\ \A i \in DOMAIN eventQ : Live(eventQ[i])
          /\ \A i, j \in DOMAIN eventQ : eventQ[i] = eventQ[j] => i = j
      BY <2>1, Zenon DEF EventInv
    <2>4. \A i, j \in DOMAIN eventQ' : eventQ'[i] = eventQ'[j] => i = j
      <3> SUFFICES ASSUME NEW i \in DOMAIN eventQ', NEW j \in DOMAIN eventQ', eventQ'[i] = eventQ'[j] PROVE i = j
        OBVIOUS
      <3>1. i + 1 = j + 1 /\ i \in Nat /\ j \in Nat
        BY <2>2, <2>3, Zenon
      <3> QED
        BY <3>1
    <2>5. \A i \in DOMAIN eventQ' : eventQ'[i] # eventQ[1]
      <3> SUFFICES ASSUME NEW i \in DOMAIN eventQ', eventQ'[i] = eventQ[1] PROVE FALSE
        BY Zenon
      <3>1. i + 1 = 1 /\ i \in Nat /\ i >= 1
        BY <2>1, <2>2, <2>3, Zenon
      <3> QED
        BY <3>1
    <2>6. \A d : Live(d)' <=> Live(d)
      BY <2>1, Zenon DEF Live
    <2>7. /\ Pushing => Live(loop.ev) /\ loop.ev # eventQ[1] /\ \A i \in DOMAIN eventQ' : eventQ'[i] # loop.ev
          /\ Live(eventQ[1]) /\ \A i \in DOMAIN eventQ' : Live(eventQ'[i])
      BY <2>1, <2>2, <2>3, SMTT(30)
    <2>8. Pushing' => Live(loop.ev)' /\ loop'.ev # worker'.ev /\ \A i \in DOMAIN eventQ' : eventQ'[i] # loop'.ev
      BY <2>1, <2>7, Zenon DEF Pushing, Live
    <2>9. Live(worker.ev)' /\ \A i \in DOMAIN eventQ' : eventQ'[i] # worker'.ev
      BY <2>1, <2>5, <2>7, Zenon DEF Live
    <2>10. \A i \in DOMAIN eventQ' : Live(eventQ[i])'
      BY <2>1, <2>7, Zenon DEF Live
    <2> QED
      BY <2>4, <2>8, <2>9, <2>10, Zenon DEF EventInv
  <1>7. CASE WorkerSucceed
    BY <1>t, <1>0, <1>7, Zenon DEF WorkerSucceed, EventInv, Pushing, Working, Live
  <1>8. CASE WorkerFail
    BY <1>t, <1>0, <1>8, Zenon DEF WorkerFail, EventInv, Pushing, Working, Live
  <1>9. CASE WorkerReply
    BY <1>t, <1>0, <1>9, Zenon DEF WorkerReply, EventInv, Pushing, Working, Live
  <1>10. CASE WorkerExit
    BY <1>10, Zenon DEF WorkerExit, EventInv
  <1> QED
    BY <1>1, <1>2, <1>3, <1>4, <1>5, <1>6, <1>7, <1>8, <1>9, <1>10, Steps DEF EventStep, EventWorker

(***************************************************************************)
(* The answers.                                                            *)
(***************************************************************************)
LEMMA NextAckInv == Types /\ LifeInv /\ EventInv /\ AckInv /\ Next => AckInv'
  <1> SUFFICES ASSUME Types, LifeInv, EventInv, AckInv, Next PROVE AckInv'
    BY Zenon
  <1>q. results \in Seq(Callers) /\ applied \in Seq(Callers)
    BY Zenon DEF Types
  <1>0. \A c \in Callers : Times(c, results) \in Nat /\ Times(c, applied) \in Nat /\ Acked(c) \in {0, 1}
    BY TimesType, Zenon DEF Types, Acked
  <1>a. \A c \in Callers : Times(c, results) + Acked(c) <= Times(c, applied) /\ (caller[c] = "sending" => errCh[c] = "open")
    BY Zenon DEF AckInv
  <1>r. results' = results => \A c \in Callers : Times(c, results)' = Times(c, results)
    BY DEF Times
  <1>p. applied' = applied => \A c \in Callers : Times(c, applied)' = Times(c, applied)
    BY DEF Times
  <1> USE DEF lifecycle, eventPool, watchPool, calls, procs, history
  <1>1. CASE UNCHANGED <<caller, errCh, results, applied>>
    BY <1>1, Zenon DEF AckInv, Acked, Times
  <1>2. ASSUME NEW c \in Callers, Call(c) PROVE AckInv'
    <2>1. UNCHANGED <<results, applied>> /\ \A d \in Callers : Acked(d)' = Acked(d)
      BY <1>2, Zenon DEF Call, Acked, Types
    <2>2. \A d \in Callers : caller'[d] = "sending" => errCh'[d] = "open"
      BY <1>2, <1>a DEF Call, Types
    <2> QED
      BY <1>a, <1>r, <1>p, <2>1, <2>2, Zenon DEF AckInv
  <1>3. ASSUME NEW c \in Callers, Await(c) PROVE AckInv'
    <2>1. applied' = applied /\ Acked(c)' = 0 /\ \A d \in Callers \ {c} : Acked(d)' = Acked(d)
      BY <1>3, Zenon DEF Await, Acked, Types
    <2>2. \A d \in Callers : caller'[d] = "sending" => errCh'[d] = "open"
      BY <1>3, <1>a, Zenon DEF Await, Types
    <2>3. CASE results' = results
      <3> SUFFICES ASSUME NEW d \in Callers PROVE Times(d, results)' + Acked(d)' <= Times(d, applied)'
        BY <2>2, Zenon DEF AckInv
      <3>1. Times(d, results)' = Times(d, results) /\ Times(d, applied)' = Times(d, applied)
        BY <1>r, <1>p, <2>1, <2>3, Zenon
      <3>2. Times(d, results) \in Nat /\ Times(d, applied) \in Nat /\ Acked(d) \in {0, 1}
        BY <1>0, Zenon
      <3>3. Times(d, results) + Acked(d) <= Times(d, applied)
        BY <1>a, Zenon
      <3>4. Acked(d)' = 0 \/ Acked(d)' = Acked(d)
        BY <2>1, Zenon
      <3> QED
        BY <3>1, <3>2, <3>3, <3>4
    <2>4. CASE errCh[c] = "closed" /\ results' = Append(results, c)
      <3> SUFFICES ASSUME NEW d \in Callers PROVE Times(d, results)' + Acked(d)' <= Times(d, applied)'
        BY <2>2 DEF AckInv
      <3>1. Times(d, results') = IF c = d THEN Times(d, results) + 1 ELSE Times(d, results)
        BY <1>q, <2>4, AppendTimes, Zenon
      <3>2. Acked(c) = 1
        BY <1>3, <2>4, Zenon DEF Await, Acked
      <3>3. Times(d, results)' = Times(d, results')
        BY Zenon DEF Times
      <3>4. /\ Times(d, results) \in Nat /\ Times(d, applied) \in Nat /\ Acked(d) \in Nat
            /\ Times(d, results) + Acked(d) <= Times(d, applied) /\ Times(d, applied)' = Times(d, applied)
        <4>1. Times(d, results) \in Nat /\ Times(d, applied) \in Nat /\ Acked(d) \in Nat
          BY <1>0
        <4>2. Times(d, results) + Acked(d) <= Times(d, applied)
          BY <1>a
        <4>3. Times(d, applied)' = Times(d, applied)
          BY <1>p, <2>1, Zenon
        <4> QED
          BY <4>1, <4>2, <4>3, Zenon
      <3>5. CASE c = d
        BY <2>1, <3>1, <3>2, <3>3, <3>4, <3>5
      <3>6. CASE c # d
        BY <2>1, <3>1, <3>3, <3>4, <3>6, Zenon
      <3> QED
        BY <3>5, <3>6, Zenon
    <2> QED
      BY <1>3, <2>3, <2>4, Zenon DEF Await
  <1>4. ASSUME NEW c \in Callers, LoopReceiveEvent(c) PROVE AckInv'
    <2>1. UNCHANGED <<results, applied>> /\ \A d \in Callers : Acked(d)' = Acked(d)
      BY <1>4, <1>a, Zenon DEF LoopReceiveEvent, Acked, Types
    <2>2. \A d \in Callers : caller'[d] = "sending" => errCh'[d] = "open"
      BY <1>4, <1>a, Zenon DEF LoopReceiveEvent, Types
    <2> QED
      BY <1>a, <1>r, <1>p, <2>1, <2>2, Zenon DEF AckInv
  <1>5. CASE WorkerSucceed
    <2>0. PICK e \in Callers : e = worker.ev
      BY <1>5, Zenon DEF WorkerSucceed, Working, Types
    <2>1. /\ results' = results /\ applied' = Append(applied, e) /\ caller' = caller
          /\ errCh' = [errCh EXCEPT ![e] = "closed"]
      BY <1>5, <2>0, Zenon DEF WorkerSucceed
    <2>2. caller[e] = "awaiting" /\ errCh[e] = "open"
      BY <1>5, <2>0, Zenon DEF WorkerSucceed, EventInv, Working, Live
    <2>3. \A d \in Callers : caller'[d] = "sending" => errCh'[d] = "open"
      BY <1>a, <2>1, <2>2, Zenon DEF Types
    <2> SUFFICES ASSUME NEW d \in Callers PROVE Times(d, results)' + Acked(d)' <= Times(d, applied)'
      BY <2>3 DEF AckInv
    <2>4. Times(d, applied') = IF e = d THEN Times(d, applied) + 1 ELSE Times(d, applied)
      BY <1>q, <2>1, AppendTimes, Zenon
    <2>5. Times(d, applied)' = Times(d, applied')
      BY DEF Times
    <2>6. IF e = d THEN Acked(d) = 0 /\ Acked(d)' = 1 ELSE Acked(d)' = Acked(d)
      BY <2>1, <2>2, Zenon DEF Acked, Types
    <2>7. /\ Times(d, results) \in Nat /\ Times(d, applied) \in Nat /\ Acked(d) \in {0, 1}
          /\ Times(d, results)' = Times(d, results)
      BY <1>0, <1>r, <2>1, Zenon
    <2>8. Times(d, results) + Acked(d) <= Times(d, applied)
      BY <1>a
    <2> QED
      BY <2>4, <2>5, <2>6, <2>7, <2>8, SMTT(30)
  <1>6. CASE WorkerReply
    <2>0. PICK e \in Callers : e = worker.ev
      BY <1>6, Zenon DEF WorkerReply, Working, Types
    <2>1. /\ UNCHANGED <<results, applied>> /\ caller' = [caller EXCEPT ![e] = "idle"]
          /\ errCh' = [errCh EXCEPT ![e] = "closed"]
      BY <1>6, <2>0, Zenon DEF WorkerReply
    <2>2. \A d \in Callers : caller'[d] = "sending" => errCh'[d] = "open"
      BY <1>a, <2>1, Zenon DEF Types
    <2> SUFFICES ASSUME NEW d \in Callers PROVE Times(d, results)' + Acked(d)' <= Times(d, applied)'
      BY <2>2 DEF AckInv
    <2>3. Acked(d)' = IF e = d THEN 0 ELSE Acked(d)
      BY <2>1, Zenon DEF Acked, Types
    <2> QED
      BY <1>0, <1>a, <1>r, <1>p, <2>1, <2>3
  <1>7. CASE Elsewhere
    BY <1>1, <1>7, Zenon DEF Elsewhere
  <1>8. CASE LoopPushEvent \/ WorkerTake \/ WorkerFail \/ WorkerExit
    BY <1>1, <1>8, Zenon DEF LoopPushEvent, WorkerTake, WorkerFail, WorkerExit
  <1> QED
    BY <1>2, <1>3, <1>4, <1>5, <1>6, <1>7, <1>8, Steps, Zenon DEF EventStep, EventWorker

(***************************************************************************)
(* The order.                                                              *)
(***************************************************************************)
LEMMA NextOrderInv == Types /\ LifeInv /\ OrderInv /\ Next => OrderInv'
  <1> SUFFICES ASSUME Types, LifeInv, OrderInv, Next PROVE OrderInv'
    BY Zenon
  <1> USE DEF Pushing, Working, lifecycle, eventPool, watchPool, calls, procs, history, At, With
  <1>0. PICK f \in [DOMAIN applied -> DOMAIN accepted], g \in [DOMAIN eventQ -> DOMAIN accepted],
             w \in 0 .. Len(accepted), l \in 0 .. Len(accepted) : Placed(f, g, w, l)
    BY DEF OrderInv
  <1>t. accepted \in Seq(Callers) /\ eventQ \in Seq(Callers) /\ applied \in Seq(Callers)
    BY Zenon DEF Types
  <1>n. Len(accepted) \in Nat /\ DOMAIN accepted = 1 .. Len(accepted)
    BY <1>t, LenProperties
  <1>1. CASE /\ UNCHANGED <<eventQ, applied, accepted>>
             /\ loop' = loop \/ ~Pushing'
             /\ worker' = worker \/ ~Working' \/ (Working /\ worker'.ev = worker.ev)
    <2>1. Placed(f, g, w, l)'
      BY <1>0, <1>1, Zenon DEF Placed
    <2> QED
      BY <1>0, <1>1, <2>1, Zenon DEF OrderInv
  <1>2. ASSUME NEW c \in Callers, LoopReceiveEvent(c) PROVE OrderInv'
    <2>0. PICK n \in Nat : n = Len(accepted) + 1
      BY <1>n
    <2>1. /\ UNCHANGED <<eventQ, worker, applied>> /\ accepted' = Append(accepted, c)
          /\ loop'.ev = c
      BY <1>2, Zenon DEF LoopReceiveEvent
    <2>2. Extends(accepted, c, accepted', n)
      BY <1>t, <2>0, <2>1, AppendExtends, Zenon
    <2>3. w \in 0 .. n /\ n \in 0 .. n
      BY <1>n, <2>0
    <2>4. f \in [DOMAIN applied' -> DOMAIN accepted'] /\ g \in [DOMAIN eventQ' -> DOMAIN accepted']
      BY <2>1, <2>2, Zenon DEF Extends
    <2>5. Placed(f, g, w, n)'
      <3>1. /\ \A i \in DOMAIN accepted : accepted'[i] = accepted[i] /\ i \in DOMAIN accepted' /\ i < n
            /\ accepted'[n] = c /\ n \in DOMAIN accepted'
        BY <2>2, Zenon DEF Extends
      <3> QED
        BY <1>0, <2>1, <3>1, Zenon DEF Placed
    <2>6. Len(accepted') = n
      BY <2>2, Zenon DEF Extends
    <2> QED
      BY <2>3, <2>4, <2>5, <2>6, Zenon DEF OrderInv
  <1>3. CASE LoopPushEvent
    <2>0. PICK n : n = Len(eventQ) + 1
      BY Zenon
    <2>h. PICK h : h = [i \in DOMAIN eventQ' |-> IF i = n THEN l ELSE g[i]]
      BY Zenon
    <2>1. /\ UNCHANGED <<worker, applied, accepted>> /\ Pushing /\ ~Pushing'
          /\ eventQ' = Append(eventQ, loop.ev) /\ loop.ev \in Callers
      BY <1>3, Zenon DEF LoopPushEvent, Types
    <2>2. Extends(eventQ, loop.ev, eventQ', n)
      BY <1>t, <2>0, <2>1, AppendExtends, Zenon
    <2>3. l \in DOMAIN accepted
      BY <1>0, <2>1, Zenon DEF Placed
    <2>4. h \in [DOMAIN eventQ' -> DOMAIN accepted']
      BY <2>1, <2>2, <2>3, <2>h, Zenon DEF Extends
    <2>5. \A i \in DOMAIN eventQ' : \/ i \in DOMAIN eventQ /\ i < n /\ eventQ'[i] = eventQ[i] /\ h[i] = g[i]
                                    \/ i = n /\ eventQ'[i] = loop.ev /\ h[i] = l
      BY <2>2, <2>h, Zenon DEF Extends
    <2>6. \A i, j \in DOMAIN eventQ' : i < j => i \in DOMAIN eventQ
      BY <2>2, Zenon DEF Extends
    <2>7. Placed(f, h, w, l)'
      <3>1. \A i \in DOMAIN eventQ' : eventQ'[i] = accepted'[h[i]]
        BY <1>0, <2>1, <2>5, Zenon DEF Placed
      <3>2. ASSUME NEW i \in DOMAIN eventQ', NEW j \in DOMAIN eventQ', i < j PROVE h[i] < h[j]
        <4>1. i \in DOMAIN eventQ /\ h[i] = g[i]
          <5>1. i \in DOMAIN eventQ
            BY <2>6, <3>2, Zenon
          <5>2. i # n
            BY <2>2, <5>1, Zenon DEF Extends
          <5> QED
            BY <2>h, <5>1, <5>2, Zenon
        <4>2. CASE j = n
          BY <1>0, <2>1, <2>5, <4>1, <4>2, Zenon DEF Placed
        <4>3. CASE j \in DOMAIN eventQ /\ j # n
          BY <1>0, <2>h, <3>2, <4>1, <4>3, Zenon DEF Placed
        <4> QED
          BY <2>2, <4>2, <4>3, Zenon DEF Extends
      <3>3. \A i \in DOMAIN applied, j \in DOMAIN eventQ' : f[i] < h[j]
        BY <1>0, <2>1, <2>5, Zenon DEF Placed
      <3>4. Working => \A j \in DOMAIN eventQ' : w < h[j]
        BY <1>0, <2>1, <2>5, Zenon DEF Placed
      <3> QED
        BY <1>0, <2>1, <3>1, <3>2, <3>3, <3>4, Zenon DEF Placed
    <2> QED
      BY <1>0, <2>1, <2>4, <2>7, Zenon DEF OrderInv
  <1>4. CASE WorkerTake
    <2>h. PICK h : h = [i \in DOMAIN eventQ' |-> g[i + 1]]
      BY Zenon
    <2>1. /\ UNCHANGED <<loop, applied, accepted>> /\ ~Working /\ worker'.ev = eventQ[1] /\ 1 \in DOMAIN eventQ
      BY <1>4, TailFacts, Zenon DEF WorkerTake, Types
    <2>2. \A i \in DOMAIN eventQ' : i \in Nat /\ i + 1 \in DOMAIN eventQ /\ 1 < i + 1 /\ eventQ'[i] = eventQ[i + 1]
      <3>1. \A i \in DOMAIN eventQ' : i \in Nat /\ i >= 1 /\ i + 1 \in DOMAIN eventQ /\ eventQ'[i] = eventQ[i + 1]
        BY <1>4, TailFacts, Zenon DEF WorkerTake, Types
      <3> QED
        BY <3>1, SMTT(30)
    <2>3. h \in [DOMAIN eventQ' -> DOMAIN accepted'] /\ \A i \in DOMAIN eventQ' : h[i] = g[i + 1]
      BY <2>1, <2>2, <2>h, Zenon
    <2>4. g[1] \in DOMAIN accepted /\ g[1] \in 0 .. Len(accepted)
      BY <1>n, <2>1, SMTT(30)
    <2>5. \A i, j \in DOMAIN eventQ' : i < j => i + 1 < j + 1
      BY <2>2, SMTT(30)
    <2>6. Placed(f, h, g[1], l)'
      <3>1. \A i \in DOMAIN eventQ' : eventQ'[i] = accepted'[h[i]] /\ g[1] < h[i]
        <4>1. /\ \A i \in DOMAIN eventQ : eventQ[i] = accepted[g[i]]
              /\ \A i, j \in DOMAIN eventQ : i < j => g[i] < g[j]
          BY <1>0, Zenon DEF Placed
        <4> SUFFICES ASSUME NEW i \in DOMAIN eventQ' PROVE eventQ'[i] = accepted'[h[i]] /\ g[1] < h[i]
          BY Zenon
        <4>2. PICK k \in DOMAIN eventQ : k = i + 1
          BY <2>2, Zenon
        <4>3. h[i] = g[k] /\ eventQ'[i] = eventQ[k] /\ 1 < k
          BY <2>2, <2>3, <4>2, Zenon
        <4> QED
          BY <2>1, <4>1, <4>3, Zenon
      <3>2. ASSUME NEW i \in DOMAIN eventQ', NEW j \in DOMAIN eventQ', i < j PROVE h[i] < h[j]
        <4>1. \A a, b \in DOMAIN eventQ : a < b => g[a] < g[b]
          BY <1>0, Zenon DEF Placed
        <4>2. i + 1 \in DOMAIN eventQ /\ j + 1 \in DOMAIN eventQ /\ i + 1 < j + 1
          BY <2>2, <2>5, <3>2, Zenon
        <4> QED
          BY <2>3, <4>1, <4>2, Zenon
      <3>3. /\ \A i \in DOMAIN applied, j \in DOMAIN eventQ' : f[i] < h[j]
            /\ \A i \in DOMAIN applied : f[i] < g[1]
        <4>1. \A i \in DOMAIN applied, j \in DOMAIN eventQ : f[i] < g[j]
          BY <1>0, Zenon DEF Placed
        <4> QED
          BY <2>1, <2>2, <2>3, <4>1, Zenon
      <3>4. accepted[g[1]] = worker'.ev
        BY <1>0, <2>1, Zenon DEF Placed
      <3>5. Pushing => g[1] < l /\ \A j \in DOMAIN eventQ' : h[j] < l
        <4>1. Pushing => \A j \in DOMAIN eventQ : g[j] < l
          BY <1>0, Zenon DEF Placed
        <4> QED
          BY <2>1, <2>2, <2>3, <4>1, Zenon
      <3> QED
        BY <1>0, <2>1, <2>4, <3>1, <3>2, <3>3, <3>4, <3>5, Zenon DEF Placed
    <2> QED
      BY <1>0, <2>1, <2>3, <2>4, <2>6, Zenon DEF OrderInv
  <1>5. CASE WorkerSucceed
    <2>0. PICK n : n = Len(applied) + 1
      BY Zenon
    <2>h. PICK h : h = [i \in DOMAIN applied' |-> IF i = n THEN w ELSE f[i]]
      BY Zenon
    <2>1. /\ UNCHANGED <<loop, eventQ, accepted>> /\ Working /\ ~Working'
          /\ applied' = Append(applied, worker.ev) /\ worker.ev \in Callers
      BY <1>5, Zenon DEF WorkerSucceed, Types
    <2>2. Extends(applied, worker.ev, applied', n)
      BY <1>t, <2>0, <2>1, AppendExtends, Zenon
    <2>3. w \in DOMAIN accepted
      BY <1>0, <2>1, Zenon DEF Placed
    <2>4. h \in [DOMAIN applied' -> DOMAIN accepted']
      BY <2>1, <2>2, <2>3, <2>h, Zenon DEF Extends
    <2>5. \A i \in DOMAIN applied' : \/ i \in DOMAIN applied /\ i < n /\ applied'[i] = applied[i] /\ h[i] = f[i]
                                     \/ i = n /\ applied'[i] = worker.ev /\ h[i] = w
      BY <2>2, <2>h, Zenon DEF Extends
    <2>6. \A i, j \in DOMAIN applied' : i < j => i \in DOMAIN applied
      BY <2>2, Zenon DEF Extends
    <2>7. Placed(h, g, w, l)'
      <3>1. \A i \in DOMAIN applied' : applied'[i] = accepted'[h[i]]
        BY <1>0, <2>1, <2>5, Zenon DEF Placed
      <3>2. ASSUME NEW i \in DOMAIN applied', NEW j \in DOMAIN applied', i < j PROVE h[i] < h[j]
        <4>1. i \in DOMAIN applied /\ h[i] = f[i]
          <5>1. i \in DOMAIN applied
            BY <2>6, <3>2, Zenon
          <5>2. i # n
            BY <2>2, <5>1, Zenon DEF Extends
          <5> QED
            BY <2>h, <5>1, <5>2, Zenon
        <4>2. CASE j = n
          BY <1>0, <2>1, <2>5, <4>1, <4>2, Zenon DEF Placed
        <4>3. CASE j \in DOMAIN applied /\ j # n
          BY <1>0, <2>h, <3>2, <4>1, <4>3, Zenon DEF Placed
        <4> QED
          BY <2>2, <4>2, <4>3, Zenon DEF Extends
      <3>3. \A i \in DOMAIN applied', j \in DOMAIN eventQ : h[i] < g[j]
        BY <1>0, <2>1, <2>5, Zenon DEF Placed
      <3>4. Pushing => \A i \in DOMAIN applied' : h[i] < l
        BY <1>0, <2>1, <2>5, Zenon DEF Placed
      <3> QED
        BY <1>0, <2>1, <3>1, <3>2, <3>3, <3>4, Zenon DEF Placed
    <2> QED
      BY <1>0, <2>1, <2>4, <2>7, Zenon DEF OrderInv
  <1>6. CASE Elsewhere
    BY <1>1, <1>6, Zenon DEF Elsewhere
  <1>7. ASSUME NEW c \in Callers, Call(c) \/ Await(c) PROVE OrderInv'
    BY <1>1, <1>7, Zenon DEF Call, Await
  <1>8. CASE WorkerFail
    BY <1>1, <1>8, Zenon DEF WorkerFail
  <1>9. CASE WorkerReply
    <2>1. UNCHANGED <<eventQ, applied, accepted, loop>> /\ worker'.pc = "idle"
      BY <1>9, Zenon DEF WorkerReply
    <2> QED
      BY <1>1, <2>1, Zenon
  <1>10. CASE WorkerExit
    <2>1. UNCHANGED <<eventQ, applied, accepted, loop>> /\ worker'.pc = "exited"
      BY <1>10, Zenon DEF WorkerExit
    <2> QED
      BY <1>1, <2>1, Zenon
  <1> QED
    BY <1>2, <1>3, <1>4, <1>5, <1>6, <1>7, <1>8, <1>9, <1>10, Steps, Zenon DEF EventStep, EventWorker

LEMMA NextIInv == IInv /\ [Next]_vars => IInv'
  <1> SUFFICES ASSUME IInv, [Next]_vars PROVE IInv'
    BY Zenon
  <1>1. CASE Next
    BY <1>1, NextTypes, NextLifeInv, NextEventInv, NextLateInv, NextAckInv, NextOrderInv, Zenon DEF IInv
  <1>2. CASE UNCHANGED vars
    <2>1. UNCHANGED <<running, closed, terminated, done, muxClosed, loop, eventQ, worker, watchQ, watchWorker,
                      caller, errCh, results, runner, closer, applied, accepted>>
      BY <1>2, Zenon DEF vars, lifecycle, eventPool, watchPool, calls, procs, history
    <2>2. Types'
      BY <2>1, Zenon DEF IInv, Types, Pushing, Working
    <2>5. LifeInv'
      BY <2>1, Zenon DEF IInv, LifeInv, NoDispatchAfterClose
    <2>6. EventInv'
      BY <2>1, Zenon DEF IInv, EventInv, Pushing, Working, Live
    <2>3. LateInv' /\ AckInv'
      BY <2>1, Zenon DEF IInv, LateInv, LateEvents, LateAssignments, InHand, AckInv, Acked, Times
    <2>4. OrderInv'
      <3>1. PICK f \in [DOMAIN applied -> DOMAIN accepted], g \in [DOMAIN eventQ -> DOMAIN accepted],
                 w \in 0 .. Len(accepted), l \in 0 .. Len(accepted) : Placed(f, g, w, l)
        BY Zenon DEF IInv, OrderInv
      <3>2. Placed(f, g, w, l)'
        BY <2>1, <3>1, Zenon DEF Placed, Pushing, Working
      <3> QED
        BY <2>1, <3>1, <3>2, Zenon DEF OrderInv
    <2> QED
      BY <2>2, <2>3, <2>4, <2>5, <2>6, Zenon DEF IInv
  <1> QED
    BY <1>1, <1>2, Zenon

(***************************************************************************)
(* The theorems.                                                           *)
(***************************************************************************)

(* The inductive invariant holds in every state the manager can reach.     *)
THEOREM IInvInvariant == Spec => []IInv
  <1> QED
    BY InitIInv, NextIInv, PTL DEF Spec

(* closeMux runs after every watch worker has left its goroutine: no       *)
(* dispatch on a channel of the multiplexer that is closed.                *)
THEOREM NoLateDispatch == Spec => []NoDispatchAfterClose
  <1>1. IInv => NoDispatchAfterClose
    BY Zenon DEF IInv, LifeInv
  <1> QED
    BY <1>1, IInvInvariant, PTL

(* handleEvent's send on errCh always has the caller in await at its other *)
(* end, however the call, the shutdown and the five seconds overlap.       *)
THEOREM Reply == Spec => []ReplyHasReceiver
  <1>1. IInv => ReplyHasReceiver
    BY Zenon DEF IInv, EventInv, Working, Live, ReplyHasReceiver
  <1> QED
    BY <1>1, IInvInvariant, PTL

(* When doneCh is closed the two queues hold at most one item.             *)
THEOREM LeftBehind == Spec => []AtMostOneLeftBehind
  <1>1. IInv => AtMostOneLeftBehind
    <2> SUFFICES ASSUME IInv, done PROVE Len(eventQ) + watchQ <= 1
      BY Zenon DEF AtMostOneLeftBehind
    <2>1. worker.pc = "exited" /\ terminated /\ loop.pc = "exited" /\ \A w \in WatchWorkers : watchWorker[w] = "exited"
      BY Zenon DEF IInv, LifeInv, NoDispatchAfterClose
    <2>2. LateEvents = Len(eventQ) /\ LateAssignments = watchQ /\ InHand = 0
      BY <2>1, Zenon DEF LateEvents, LateAssignments, InHand
    <2>3. Len(eventQ) \in Nat /\ watchQ \in Nat
      BY LenProperties, Zenon DEF IInv, Types
    <2> QED
      BY <2>1, <2>2, <2>3, SMTT(30) DEF IInv, LateInv
  <1> QED
    BY <1>1, IInvInvariant, PTL

(* The event pool's one worker applies what the event loop received in the *)
(* order of arrival, and nothing twice.                                    *)
THEOREM Order == Spec => []AppliedInOrder
  <1>1. IInv => AppliedInOrder
    BY Zenon DEF IInv, OrderInv, Placed, AppliedInOrder, IsSubsequence
  <1> QED
    BY <1>1, IInvInvariant, PTL

LEMMA SubsequenceTimes ==
  ASSUME NEW S, NEW p \in Seq(S), NEW q \in Seq(S), IsSubsequence(p, q), NEW c
  PROVE  Times(c, p) <= Times(c, q)
  <1> DEFINE P == {i \in DOMAIN p : p[i] = c}
             Q == {i \in DOMAIN q : q[i] = c}
  <1>1. PICK f \in [DOMAIN p -> DOMAIN q] : /\ \A i, j \in DOMAIN p : i < j => f[i] < f[j]
                                            /\ \A i \in DOMAIN p : p[i] = q[f[i]]
    BY Zenon DEF IsSubsequence
  <1>2. \A i, j \in DOMAIN p : f[i] = f[j] => i = j
    <2> SUFFICES ASSUME NEW i \in DOMAIN p, NEW j \in DOMAIN p, f[i] = f[j] PROVE i = j
      BY Zenon
    <2>1. i \in Int /\ j \in Int /\ f[i] \in Int /\ f[j] \in Int
      BY LenProperties
    <2>2. ~(f[i] < f[j]) /\ ~(f[j] < f[i])
      BY <2>1
    <2>3. ~(i < j) /\ ~(j < i)
      BY <1>1, <2>2, Zenon
    <2> QED
      BY <2>1, <2>3
  <1> DEFINE h == [i \in P |-> f[i]]
  <1>3. h \in [P -> Q]
    BY <1>1, Zenon
  <1>4. h \in Injection(P, Q)
    BY <1>2, <1>3, Zenon DEF Injection, IsInjective
  <1>5. IsFiniteSet(Q)
    BY TimesType, Zenon
  <1> HIDE DEF P, Q, h
  <1>6. Cardinality(P) <= Cardinality(Q)
    BY <1>4, <1>5, FS_Injection, Zenon
  <1> QED
    BY <1>6, Zenon DEF Times, P, Q

(* SetObjects, BatchUpdateSession and BatchDeleteSession return nil only   *)
(* for an event that was applied, and only received events are applied.    *)
THEOREM Acknowledged == Spec => []AckImpliesApplied
  <1>1. IInv => AckImpliesApplied
    <2> SUFFICES ASSUME IInv, NEW c \in Callers
                 PROVE  Times(c, results) <= Times(c, applied) /\ Times(c, applied) <= Times(c, accepted)
      BY Zenon DEF AckImpliesApplied
    <2>1. Times(c, results) \in Nat /\ Times(c, applied) \in Nat /\ Acked(c) \in {0, 1}
      BY TimesType, Zenon DEF IInv, Types, Acked
    <2>2. Times(c, results) + Acked(c) <= Times(c, applied)
      BY Zenon DEF IInv, AckInv
    <2>3. IsSubsequence(applied, accepted)
      BY Zenon DEF IInv, OrderInv, Placed, IsSubsequence
    <2>4. Times(c, applied) <= Times(c, accepted)
      BY <2>3, SubsequenceTimes, Zenon DEF IInv, Types
    <2> QED
      BY <2>1, <2>2, <2>4, SMTT(30)
  <1> QED
    BY <1>1, IInvInvariant, PTL
=============================================================================
