---------------------- MODULE ProcessMachinesProofs ----------------------
(***************************************************************************)
(* Proofs about the life of the process and about the state machines, two  *)
(* parts that share no state.                                              *)
(*                                                                         *)
(* Process.  For every number of backends, every capacity of the watcher's *)
(* channel and every number of ticks: what may panic and when, that the    *)
(* BPF objects outlive the event worker, and what has been closed when     *)
(* main is done.                                                           *)
(*                                                                         *)
(* The argument.  None of the four properties is inductive: each is about  *)
(* where several goroutines are at one moment.  What relates them is the   *)
(* place of main, which fixes the states of the manager and the monitor,   *)
(* and that a goroutine closes the channels of its watchers only when it   *)
(* will send no more.                                                      *)
(*                                                                         *)
(* StateMachines.  A fork, its original and the states handed out stay     *)
(* apart, a fork answers as its original, a counter keeps the sum it       *)
(* stands for, and Decode restores the state a snapshot was taken of.      *)
(***************************************************************************)
EXTENDS Process, StateMachines, WellFoundedInduction, TLAPS


\* Controller.Close has begun.
Stopping == {"closeMonitor", "monitorClosing", "closeManager", "managerClosing", "closeProg", "exited"}

\* main runs the controller, whose monitor is a backendState and is closed first.
MainInv ==
    /\ main \in Places
    /\ main # "none" => monitorKind = "backendState"
    /\ main \in Stopping => ctxDone
    /\ main \in {"closeManager", "managerClosing", "closeProg", "exited"} => state = "closed"
    /\ (main # "none" /\ watch = "cancelled") => ctxDone

\* The loop of a monitor closes the watcher as its last step.
LoopInv ==
    /\ (Looping /\ watch = "closed") => loop = "ended"
    /\ (Looping /\ state = "new") => loop = "off"

\* The manager is where main has brought it.
ManagerInv ==
    /\ main \in {"none", "runProg", "runManager"} => mgr = "new" /\ mgrLoop = "off"
    /\ mgr = "closing" <=> main = "managerClosing"
    /\ mgr = "closed" <=> main \in {"closeProg", "exited"}
    /\ mgrLoop = "ended" => mgrTerminated
    /\ call = "main" => main = "applying"
    /\ (mgr = "closed" /\ mgrLoop # "ended") => timedOut

\* The channel of the assignments is closed only once the signal has arrived.
AssignmentInv ==
    /\ assignWatch \in {"none", "open", "closed", "cancelled"}
    /\ assignWatch \in {"closed", "cancelled"} => ctxDone
    /\ dispatcher = "send" => assignWatch # "none"

IInv ==
    /\ MainInv /\ LoopInv /\ ManagerInv /\ AssignmentInv
    /\ maps = "closed" => main = "exited"
    /\ NoPanicWhileServing
    /\ MonitorsCloseSafely
    /\ ShutdownComplete

LEMMA InitIInv == ProcessInit => IInv
  BY DEF ProcessInit, MonitorInit, IInv, MainInv, LoopInv, ManagerInv, AssignmentInv, Places, Stopping, Looping,
         mgrTerminated, NoPanicWhileServing, MonitorsCloseSafely, ShutdownComplete

LEMMA ControllerIInv == IInv /\ Alive /\ Controller => IInv'
  <1> SUFFICES ASSUME IInv, Alive, Controller PROVE IInv'
    BY Zenon
  <1> USE DEF IInv, MainInv, LoopInv, ManagerInv, AssignmentInv, Places, Stopping, Looping, mgrTerminated,
              NoPanicWhileServing, MonitorsCloseSafely, ShutdownComplete, Alive,
              monitorVars, monitor, manager, process
  <1>1. ASSUME NEW p \in {"runProg", "runManager"}, Fail(p) PROVE IInv'
    BY <1>1 DEF Fail, At
  <1>2. CASE RunProg
    BY <1>2 DEF RunProg, At
  <1>3. CASE RunManager
    BY <1>3 DEF RunManager, At
  <1>4. CASE RunMonitor
    BY <1>4 DEF RunMonitor, At, MonitorRun
  <1>5. CASE Apply
    BY <1>5 DEF Apply, At
  <1>6. CASE Signal
    BY <1>6 DEF Signal
  <1>7. CASE CancelHealth
    BY <1>7 DEF CancelHealth, At, Cancel
  <1>8. CASE CloseMonitor
    BY <1>8 DEF CloseMonitor, At, CloseBegin, CloseEnd
  <1>9. CASE CloseManager
    BY <1>9 DEF CloseManager, At
  <1>10. CASE ManagerClosed
    BY <1>10, Zenon DEF ManagerClosed, At
  <1>11. CASE CloseProg
    BY <1>11 DEF CloseProg, At
  <1>12. CASE HealthEntry
    BY <1>12 DEF HealthEntry, Receive
  <1>13. CASE HealthApply
    BY <1>13 DEF HealthApply
  <1>14. CASE HealthEnd
    BY <1>14 DEF HealthEnd
  <1>15. CASE AssignmentWatch
    BY <1>15 DEF AssignmentWatch
  <1>16. CASE AssignmentEnd
    BY <1>16 DEF AssignmentEnd
  <1>17. CASE ManagerTake
    BY <1>17 DEF ManagerTake
  <1>18. CASE ManagerHandle
    BY <1>18 DEF ManagerHandle
  <1>19. CASE ManagerDrop
    BY <1>19 DEF ManagerDrop
  <1>20. CASE Aborted
    BY <1>20 DEF Aborted
  <1>21. CASE ManagerEnd
    BY <1>21 DEF ManagerEnd
  <1>22. CASE SendEventOnClosed
    BY <1>22 DEF SendEventOnClosed
  <1>23. CASE AssignmentTake
    BY <1>23 DEF AssignmentTake
  <1>24. CASE AssignmentSend
    BY <1>24 DEF AssignmentSend
  <1>25. CASE DispatcherEnd
    BY <1>25 DEF DispatcherEnd
  <1> QED
    BY <1>1, <1>2, <1>3, <1>4, <1>5, <1>6, <1>7, <1>8, <1>9, <1>10, <1>11, <1>12, <1>13, <1>14, <1>15, <1>16, <1>17, <1>18, <1>19, <1>20, <1>21, <1>22, <1>23, <1>24, <1>25, Zenon DEF Controller

LEMMA ClientIInv == IInv /\ Alive /\ Client /\ UNCHANGED process => IInv'
  <1> SUFFICES ASSUME IInv, Alive, Client, UNCHANGED process PROVE IInv'
    OBVIOUS
  <1>0. main = "none"
    BY DEF Client
  <1> USE <1>0 DEF IInv, MainInv, LoopInv, ManagerInv, AssignmentInv, Places, Stopping, Looping, mgrTerminated,
              NoPanicWhileServing, MonitorsCloseSafely, ShutdownComplete, Alive, process
  <1>1. CASE Watch
    BY <1>1 DEF Watch
  <1>2. CASE Cancel
    BY <1>2 DEF Cancel
  <1>3. CASE MonitorRun
    BY <1>3 DEF MonitorRun
  <1>4. CASE CloseBegin
    BY <1>4 DEF CloseBegin
  <1>5. CASE CloseEnd
    BY <1>5 DEF CloseEnd
  <1>6. CASE SpecListClose
    BY <1>6 DEF SpecListClose
  <1>7. CASE Receive
    BY <1>7 DEF Receive
  <1> QED
    BY <1>1, <1>2, <1>3, <1>4, <1>5, <1>6, <1>7, Zenon DEF Client

LEMMA MonitorIInv == IInv /\ Alive /\ Monitor /\ UNCHANGED process => IInv'
  <1> SUFFICES ASSUME IInv, Alive, Monitor, UNCHANGED process PROVE IInv'
    OBVIOUS
  <1> USE DEF IInv, MainInv, LoopInv, ManagerInv, AssignmentInv, Places, Stopping, Looping, mgrTerminated,
              NoPanicWhileServing, MonitorsCloseSafely, ShutdownComplete, Alive, process
  <1>1. CASE Tick
    BY <1>1 DEF Tick
  <1>2. CASE Packet
    BY <1>2 DEF Packet
  <1>3. CASE List
    BY <1>3 DEF List, Left, Turn
  <1>4. CASE SendOne
    BY <1>4 DEF SendOne, Left, Turn
  <1>5. CASE LoopEnd
    BY <1>5 DEF LoopEnd
  <1> QED
    BY <1>1, <1>2, <1>3, <1>4, <1>5, Zenon DEF Monitor, Dispatching

LEMMA NextIInv == IInv /\ [ProcessNext]_processVars => IInv'
  <1> SUFFICES ASSUME IInv, [ProcessNext]_processVars PROVE IInv'
    OBVIOUS
  <1>1. CASE UNCHANGED processVars
    BY <1>1 DEF processVars, monitorVars, monitor, process, IInv, MainInv, LoopInv, ManagerInv, AssignmentInv, Looping,
                mgrTerminated, NoPanicWhileServing, MonitorsCloseSafely, ShutdownComplete
  <1>2. CASE ProcessNext
    BY <1>2, ControllerIInv, ClientIInv, MonitorIInv DEF ProcessNext
  <1> QED
    BY <1>1, <1>2

(* The places of main, the manager, the monitor and their goroutines fit   *)
(* together in every reachable state, however the signal, a timeout or a   *)
(* late dispatch interleaves with the startup and the shutdown.            *)
THEOREM IInvInvariant == ProcessSpec => []IInv
  BY InitIInv, NextIInv, PTL DEF ProcessSpec

(* Without a signal no step of Run, of a health change or of a dispatch    *)
(* panics.                                                                 *)
THEOREM ServingIsSafe == ProcessSpec => []NoPanicWhileServing
  <1>1. IInv => NoPanicWhileServing
    BY DEF IInv
  <1> QED
    BY <1>1, IInvInvariant, PTL

(* The Close of a monitor that has a loop meets no dispatch of its own: it *)
(* panics only over a watcher that was cancelled.                          *)
THEOREM CloseIsSafe == ProcessSpec => []MonitorsCloseSafely
  <1>1. IInv => MonitorsCloseSafely
    BY DEF IInv
  <1> QED
    BY <1>1, IInvInvariant, PTL

(* closeProg closes the BPF objects under the event worker only if Close   *)
(* of the manager has timed out.                                           *)
THEOREM MapsOutlive == ProcessSpec => []MapsOutliveEvents
  <1>1. IInv => MapsOutliveEvents
    BY DEF IInv, ManagerInv, MapsOutliveEvents
  <1> QED
    BY <1>1, IInvInvariant, PTL

(* When main exits, Controller.Close has gone through all its steps.       *)
THEOREM Shutdown == ProcessSpec => []ShutdownComplete
  <1>1. IInv => ShutdownComplete
    BY DEF IInv
  <1> QED
    BY <1>1, IInvInvariant, PTL

(***************************************************************************)
(* State machines.                                                         *)
(***************************************************************************)
Int64 == -Half .. Half - 1

(***************************************************************************)
(* Wrap is the remainder that int64 keeps of a sum.                        *)
(***************************************************************************)
LEMMA DivMod ==
  \A a \in Int, M \in Nat \ {0} : a % M \in 0 .. M - 1 /\ \E q \in Int : a = (M * q) + (a % M)
  <1> SUFFICES ASSUME NEW a \in Int, NEW M \in Nat \ {0}
               PROVE a % M \in 0 .. M - 1 /\ \E q \in Int : a = (M * q) + (a % M)
    BY Zenon
  <1>1. a % M \in 0 .. M - 1
    OBVIOUS
  <1>2. (a \div M) \in Int /\ a = (M * (a \div M)) + (a % M)
    OBVIOUS
  <1>3. QED
    BY <1>1, <1>2, Zenon

LEMMA NoMultiple == \A M \in Nat \ {0}, k \in Int : (-M < M * k /\ M * k < M) => k = 0
  <1> SUFFICES ASSUME NEW M \in Nat \ {0}, NEW k \in Int, -M < M * k, M * k < M PROVE k = 0
    OBVIOUS
  <1>1. CASE k >= 1
    <2>1. M * k = M + M * (k - 1) /\ M * (k - 1) >= 0
      BY <1>1
    <2>2. QED
      BY <2>1
  <1>2. CASE k <= -1
    <2>1. M * k = -M - M * (-1 - k) /\ M * (-1 - k) >= 0
      BY <1>2
    <2>2. QED
      BY <2>1
  <1>3. QED
    BY <1>1, <1>2

\* The remainder is the only number of its range that differs by a multiple.
LEMMA Remainder ==
  \A M \in Nat \ {0}, a \in Int, q \in Int : \A r \in 0 .. M - 1 : a = (M * q) + r => a % M = r
  <1> SUFFICES ASSUME NEW M \in Nat \ {0}, NEW a \in Int, NEW q \in Int, NEW r \in 0 .. M - 1,
                      a = (M * q) + r
               PROVE a % M = r
    OBVIOUS
  <1>1. PICK p \in Int : a = (M * p) + (a % M)
    BY DivMod, Zenon
  <1>2. a % M \in 0 .. M - 1
    BY DivMod
  <1>3. M * (q - p) = (M * q) - (M * p)
    OBVIOUS
  <1>4. M * q \in Int /\ M * p \in Int
    OBVIOUS
  <1>5. M * (q - p) = (a % M) - r
    BY <1>1, <1>2, <1>3, <1>4
  <1>6. q - p = 0
    BY <1>2, <1>5, NoMultiple
  <1>7. QED
    BY <1>1, <1>2, <1>4, <1>6

LEMMA WrapTypes == Half \in Nat \ {0} /\ 2 * Half \in Nat \ {0}
  BY StateMachinesAssumption

LEMMA WrapRange == \A n \in Int : Wrap(n) \in Int64
  <1> SUFFICES ASSUME NEW n \in Int PROVE Wrap(n) \in Int64
    OBVIOUS
  <1>1. (n + Half) % (2 * Half) \in 0 .. (2 * Half) - 1
    BY DivMod, WrapTypes
  <1>2. QED
    BY <1>1, WrapTypes DEF Wrap, Int64

\* A number that differs from n by a multiple of 2 * Half wraps to the same.
LEMMA WrapMultiple ==
  \A n \in Int, q \in Int, r \in Int64 : n = (2 * Half) * q + r => Wrap(n) = r
  <1> SUFFICES ASSUME NEW n \in Int, NEW q \in Int, NEW r \in Int64, n = (2 * Half) * q + r
               PROVE Wrap(n) = r
    OBVIOUS
  <1> DEFINE M == 2 * Half
  <1>1. M \in Nat \ {0} /\ r + Half \in 0 .. M - 1 /\ r \in Int /\ Half \in Nat
    BY WrapTypes DEF Int64
  <1>2. M * q \in Int /\ n = (M * q) + r
    BY <1>1
  <1>3. n + Half = (M * q) + (r + Half)
    BY <1>1, <1>2
  <1>4. (n + Half) % M = r + Half
    <2>1. n + Half \in Int
      BY <1>1
    <2> HIDE DEF M
    <2>2. QED
      BY <1>1, <1>3, <2>1, Remainder, Zenon
  <1>5. QED
    BY <1>1, <1>4 DEF Wrap

LEMMA WrapCases ==
  \A n \in Int :
     /\ n \in Int64 => Wrap(n) = n
     /\ (n >= Half /\ n < 3 * Half) => Wrap(n) = n - 2 * Half
     /\ (n < -Half /\ n >= -(3 * Half)) => Wrap(n) = n + 2 * Half
  <1> SUFFICES ASSUME NEW n \in Int
               PROVE /\ n \in Int64 => Wrap(n) = n
                     /\ (n >= Half /\ n < 3 * Half) => Wrap(n) = n - 2 * Half
                     /\ (n < -Half /\ n >= -(3 * Half)) => Wrap(n) = n + 2 * Half
    OBVIOUS
  <1>1. ASSUME n \in Int64 PROVE Wrap(n) = n
    <2>1. n = (2 * Half) * 0 + n
      BY WrapTypes
    <2>2. QED
      BY <1>1, <2>1, WrapMultiple
  <1>2. ASSUME n >= Half, n < 3 * Half PROVE Wrap(n) = n - 2 * Half
    <2>1. n = (2 * Half) * 1 + (n - 2 * Half) /\ n - 2 * Half \in Int64
      BY <1>2, WrapTypes DEF Int64
    <2>2. QED
      BY <2>1, WrapMultiple
  <1>3. ASSUME n < -Half, n >= -(3 * Half) PROVE Wrap(n) = n + 2 * Half
    <2>1. n = (2 * Half) * (-1) + (n + 2 * Half) /\ n + 2 * Half \in Int64
      BY <1>3, WrapTypes DEF Int64
    <2>2. QED
      BY <2>1, WrapMultiple
  <1>4. QED
    BY <1>1, <1>2, <1>3

\* Wrapping at every addition and wrapping the sum are the same.
LEMMA WrapSum == \A n \in Int, i \in Int : Wrap(Wrap(n) + i) = Wrap(n + i)
  <1> SUFFICES ASSUME NEW n \in Int, NEW i \in Int PROVE Wrap(Wrap(n) + i) = Wrap(n + i)
    OBVIOUS
  <1> DEFINE M == 2 * Half
  <1>1. M \in Nat \ {0} /\ Half \in Nat
    BY WrapTypes
  <1>2. PICK q \in Int : n + Half = (M * q) + ((n + Half) % M)
    <2>1. n + Half \in Int
      BY <1>1
    <2>2. QED
      BY <1>1, <2>1, DivMod, Zenon
  <1>3. Wrap(n) = ((n + Half) % M) - Half /\ Wrap(n) \in Int
    BY WrapRange, <1>1 DEF Wrap, Int64
  <1>4. PICK p \in Int : Wrap(n) + i + Half = (M * p) + ((Wrap(n) + i + Half) % M)
    <2>1. Wrap(n) + i + Half \in Int
      BY <1>1, <1>3
    <2>2. QED
      BY <1>1, <2>1, DivMod, Zenon
  <1>5. Wrap(Wrap(n) + i) = ((Wrap(n) + i + Half) % M) - Half /\ Wrap(Wrap(n) + i) \in Int64
    <2>1. Wrap(n) + i \in Int
      BY <1>3
    <2>2. \A x : Wrap(x) = ((x + Half) % M) - Half
      BY Zenon DEF Wrap
    <2>3. QED
      BY <2>1, <2>2, WrapRange, Zenon
  <1>6. (n + Half) % M \in Int /\ (Wrap(n) + i + Half) % M \in Int
    BY <1>1, <1>3, DivMod
  <1> DEFINE w == Wrap(n)
             u == Wrap(Wrap(n) + i)
  <1>7. n = (M * q) + w /\ w + i = (M * p) + u /\ M * q \in Int /\ M * p \in Int /\ u \in Int /\ w \in Int
    <2>1. M * q \in Int /\ M * p \in Int
      BY <1>1
    <2>2. QED
      BY <1>1, <1>2, <1>3, <1>4, <1>5, <1>6, <2>1 DEF Int64
  <1>8. M * (q + p) = (M * q) + (M * p)
    BY <1>1
  <1>9. n + i = (M * (q + p)) + u
    <2> DEFINE a == M * q
               b == M * p
               c == M * (q + p)
    <2>1. c \in Int /\ a \in Int /\ b \in Int /\ c = a + b
      BY <1>1, <1>7, <1>8
    <2>2. n = a + w /\ w + i = b + u /\ u \in Int /\ w \in Int
      BY <1>7
    <2>3. n + i = c + u
      <3> HIDE DEF M, w, u, a, b, c
      <3>1. QED
        BY <2>1, <2>2
    <2>4. QED
      BY <2>3
  <1>10. QED
    BY <1>5, <1>9, WrapMultiple

(***************************************************************************)
(* The inductive invariant.  The references are apart: the machine has     *)
(* reference 1, a fork 2, a state handed out 3.  A fork has the options of *)
(* its original but for allowOverflow.  What the snapshot holds was in the *)
(* bounds when it was taken, so that decoding it keeps a machine in them.  *)
(***************************************************************************)
Plain(v) ==
    /\ kind = "hashmap" => v = [j \in DOMAIN v |-> v[j]]
    /\ kind = "counter" => v \in Int64

Within(o, v) ==
    /\ \A mx \in o.maxVal : v <= mx + Largest
    /\ \A mn \in o.minVal : v >= mn - Largest

Apart ==
    /\ heap = [r \in 1 .. 3 |-> heap[r]] /\ \A r \in 1 .. 3 : Plain(heap[r])
    /\ own = [m \in Machines |-> own[m]]
    /\ ref \in [Machines -> 0 .. 2] /\ ref["stm"] = 1 /\ ref["fork"] \in {0, 2}
    /\ handed.ref \in {0, 3}
    /\ \A v \in buf : Plain(v)
    /\ Isolated

Forked ==
    /\ opts \in [Machines -> Options]
    /\ ref["fork"] # 0 => opts["fork"] = ForkOptions(opts["stm"])

Counted ==
    kind = "counter" =>
        /\ exact \in Int
        /\ CounterExact
        /\ ~opts["stm"].allowOverflow => \A v \in buf : Within(opts["stm"], v)

StmInv == kind \in Kinds /\ Apart /\ Forked /\ Counted

(***************************************************************************)
(* Facts about the constants and the options.                              *)
(***************************************************************************)
LEMMA NatGreatest ==
  \A T \in SUBSET Nat, h \in Nat : (T # {} /\ \A x \in T : x <= h) => \E x \in T : \A y \in T : y <= x
  <1> SUFFICES ASSUME NEW T \in SUBSET Nat, NEW h \in Nat, T # {}, \A x \in T : x <= h
               PROVE \E x \in T : \A y \in T : y <= x
    BY Zenon
  <1> DEFINE D == {d \in Nat : \E x \in T : d = h - x}
  <1>1. D \subseteq Nat /\ D # {}
    <2>1. PICK x \in T : TRUE
      BY Zenon
    <2>2. h - x \in D
      BY <2>1
    <2>3. QED
      BY <2>2, Zenon
  <1>2. \E d \in D : \A e \in D : ~(<<e, d>> \in OpToRel(<, Nat))
    <2> HIDE DEF D
    <2>1. QED
      BY <1>1, NatLessThanWellFounded, WFMin, Zenon
  <1>3. PICK d \in D : \A e \in D : ~(<<e, d>> \in OpToRel(<, Nat))
    BY <1>2, Zenon
  <1>4. OpToRel(<, Nat) = {ss \in Nat \X Nat : ss[1] < ss[2]}
    BY Zenon DEF OpToRel
  <1>5. ASSUME NEW e \in D PROVE d <= e
    <2>1. ~(<<e, d>> \in {ss \in Nat \X Nat : ss[1] < ss[2]})
      BY <1>3, <1>4, Zenon
    <2>2. QED
      BY <2>1
  <1>6. PICK x \in T : d = h - x
    BY <1>3, Zenon
  <1>7. ASSUME NEW y \in T PROVE y <= x
    <2>1. h - y \in D
      BY <1>7
    <2>2. QED
      BY <1>5, <1>6, <2>1
  <1>8. QED
    BY <1>7

LEMMA LargestValue == Largest \in Values /\ Largest \in Nat /\ \A w \in Values : w <= Largest
  <1>1. Values \in SUBSET Nat /\ Values # {} /\ Half - 1 \in Nat /\ \A x \in Values : x <= Half - 1
    BY StateMachinesAssumption
  <1>2. \E x \in Values : \A y \in Values : y <= x
    BY <1>1, NatGreatest, Zenon
  <1>3. Largest \in Values /\ \A w \in Values : w <= Largest
    BY <1>2, Zenon DEF Largest
  <1>4. QED
    BY <1>1, <1>3

LEMMA OptionsTypes ==
  \A o \in Options :
     /\ o = [filter |-> o.filter, allowOverflow |-> o.allowOverflow, maxVal |-> o.maxVal, minVal |-> o.minVal]
     /\ o.filter \in BOOLEAN /\ o.allowOverflow \in BOOLEAN
     /\ o.filter => ~o.allowOverflow /\ o.maxVal = {} /\ o.minVal = {}
     /\ o.maxVal = {} \/ \E b \in 0 .. Half - 1 : o.maxVal = {b}
     /\ o.minVal = {} \/ \E b \in 0 .. Half - 1 : o.minVal = {-b}
  <1> SUFFICES ASSUME NEW o \in Options
               PROVE /\ o = [filter |-> o.filter, allowOverflow |-> o.allowOverflow,
                             maxVal |-> o.maxVal, minVal |-> o.minVal]
                     /\ o.filter \in BOOLEAN /\ o.allowOverflow \in BOOLEAN
                     /\ o.filter => ~o.allowOverflow /\ o.maxVal = {} /\ o.minVal = {}
                     /\ o.maxVal = {} \/ \E b \in 0 .. Half - 1 : o.maxVal = {b}
                     /\ o.minVal = {} \/ \E b \in 0 .. Half - 1 : o.minVal = {-b}
    OBVIOUS
  <1>1. CASE o \in [filter : BOOLEAN, allowOverflow : {FALSE}, maxVal : {{}}, minVal : {{}}]
    BY <1>1, Zenon
  <1>2. CASE o \in [filter : {FALSE}, allowOverflow : BOOLEAN,
                    maxVal : {{}} \cup {{b} : b \in Bounds}, minVal : {{}} \cup {{-b} : b \in Bounds}]
    <2>1. /\ o = [filter |-> o.filter, allowOverflow |-> o.allowOverflow, maxVal |-> o.maxVal, minVal |-> o.minVal]
          /\ o.filter = FALSE /\ o.allowOverflow \in BOOLEAN
          /\ o.maxVal \in {{}} \cup {{b} : b \in Bounds} /\ o.minVal \in {{}} \cup {{-b} : b \in Bounds}
      BY <1>2, Zenon
    <2>2. Bounds \subseteq 0 .. Half - 1
      BY StateMachinesAssumption
    <2>3. o.maxVal = {} \/ \E b \in 0 .. Half - 1 : o.maxVal = {b}
      BY <2>1, <2>2, Zenon
    <2>4. o.minVal = {} \/ \E b \in 0 .. Half - 1 : o.minVal = {-b}
      BY <2>1, <2>2, Zenon
    <2>5. QED
      BY <2>1, <2>3, <2>4, Zenon
  <1>3. QED
    BY <1>1, <1>2, Zenon DEF Options

LEMMA RefuseOverflow ==
  \A F, S, T :
     \A o \in [filter : F, allowOverflow : BOOLEAN, maxVal : S, minVal : T] :
        LET f == [o EXCEPT !.allowOverflow = FALSE]
        IN /\ f \in [filter : F, allowOverflow : BOOLEAN, maxVal : S, minVal : T]
           /\ ~f.allowOverflow /\ f.maxVal = o.maxVal /\ f.minVal = o.minVal
           /\ ~o.allowOverflow => f = o
  BY Zenon

LEMMA ForkTypes ==
  \A o \in Options :
     /\ ForkOptions(o) \in Options /\ ~ForkOptions(o).allowOverflow
     /\ ForkOptions(o).maxVal = o.maxVal /\ ForkOptions(o).minVal = o.minVal
     /\ ~o.allowOverflow => ForkOptions(o) = o
  <1> DEFINE X == {{}} \cup {{b} : b \in Bounds}
             Y == {{}} \cup {{-b} : b \in Bounds}
             E == {{}}
             B == BOOLEAN
             P == [filter : BOOLEAN, allowOverflow : {FALSE}, maxVal : {{}}, minVal : {{}}]
             Q == [filter : {FALSE}, allowOverflow : BOOLEAN, maxVal : X, minVal : Y]
  <1>1. Options = P \cup Q
    BY Zenon DEF Options
  <1>2. \A o \in P : o \in [filter : B, allowOverflow : BOOLEAN, maxVal : E, minVal : E]
                     /\ ~o.allowOverflow
    BY Zenon
  <1> HIDE DEF X, Y
  <1> SUFFICES ASSUME NEW o \in Options
               PROVE /\ ForkOptions(o) \in Options /\ ~ForkOptions(o).allowOverflow
                     /\ ForkOptions(o).maxVal = o.maxVal /\ ForkOptions(o).minVal = o.minVal
                     /\ ~o.allowOverflow => ForkOptions(o) = o
    OBVIOUS
  <1>3. CASE o \in P
    <2> HIDE DEF P, Q, E, B
    <2>1. ~o.allowOverflow
      BY <1>2, <1>3, Zenon
    <2>2. ForkOptions(o) = o
      BY <1>2, <1>3, <2>1, RefuseOverflow, Zenon DEF ForkOptions
    <2>3. QED
      BY <2>1, <2>2
  <1>4. CASE o \in Q
    <2>1. ForkOptions(o) = [o EXCEPT !.allowOverflow = FALSE]
      BY Zenon DEF ForkOptions
    <2>2. /\ [o EXCEPT !.allowOverflow = FALSE] \in Q
          /\ ~[o EXCEPT !.allowOverflow = FALSE].allowOverflow
          /\ [o EXCEPT !.allowOverflow = FALSE].maxVal = o.maxVal
          /\ [o EXCEPT !.allowOverflow = FALSE].minVal = o.minVal
          /\ ~o.allowOverflow => [o EXCEPT !.allowOverflow = FALSE] = o
      BY <1>4, Zenon
    <2> HIDE DEF P, Q
    <2>3. QED
      BY <1>1, <2>1, <2>2
  <1>5. QED
    BY <1>1, <1>3, <1>4, Zenon

LEMMA SingleValue == \A x : Value({x}) = x
  BY DEF Value

(***************************************************************************)
(* What add and subtract do to an int64.                                   *)
(***************************************************************************)
Amounts == Values \cup {-1}

LEMMA AddSteps ==
  \A o \in Options, s \in Int64, i \in Amounts :
     LET r == add(o, s, i)
     IN /\ r.state \in Int64
        /\ (~o.allowOverflow /\ Within(o, s)) => Within(o, r.state)
        /\ (o.maxVal = {} /\ r.err = "nil") => r.state = Wrap(s + i) /\ (~o.allowOverflow => r.state = s + i)
        /\ (o.maxVal = {} /\ r.err # "nil") => r.state = s
  <1> SUFFICES ASSUME NEW o \in Options, NEW s \in Int64, NEW i \in Amounts
               PROVE LET r == add(o, s, i)
                     IN /\ r.state \in Int64
                        /\ (~o.allowOverflow /\ Within(o, s)) => Within(o, r.state)
                        /\ (o.maxVal = {} /\ r.err = "nil")
                              => r.state = Wrap(s + i) /\ (~o.allowOverflow => r.state = s + i)
                        /\ (o.maxVal = {} /\ r.err # "nil") => r.state = s
    BY Zenon
  <1> DEFINE new == Wrap(s + i)
  <1>1. s \in Int /\ i \in Int /\ Half \in Nat \ {0} /\ i < Half /\ i >= -1
    BY StateMachinesAssumption DEF Int64, Amounts
  <1>2. new \in Int64 /\ new \in Int
    BY <1>1, WrapRange DEF Int64
  <1>3. CASE i < 0
    BY <1>1, <1>3 DEF add, Fails
  <1>4. CASE i = 0
    <2>1. add(o, s, i) = Done(s) /\ Wrap(s + i) = s /\ s + i = s
      BY <1>1, <1>4, WrapCases DEF add
    <2>2. QED
      BY <2>1 DEF Done
  <1>5. CASE i > 0 /\ HitsMax(o, s, HasOverflown(new, s))
    <2>1. PICK b \in 0 .. Half - 1 : o.maxVal = {b}
      BY <1>5, OptionsTypes DEF HitsMax
    <2>2. add(o, s, i) = Done(b)
      <3>1. add(o, s, i) = Done(Value(o.maxVal))
        BY <1>1, <1>5 DEF add
      <3>2. QED
        BY <2>1, <3>1, SingleValue, Zenon
    <2>3. b \in Int64 /\ Within(o, b)
      BY <1>1, <2>1, LargestValue, OptionsTypes DEF Int64, Within
    <2>4. QED
      BY <2>1, <2>2, <2>3 DEF Done
  <1>6. CASE i > 0 /\ ~HitsMax(o, s, HasOverflown(new, s)) /\ HasOverflown(new, s)
    <2>1. o.maxVal = {}
      BY <1>6, OptionsTypes DEF HitsMax
    <2>2. add(o, s, i) = IF ~o.allowOverflow THEN Fails("ErrNoOverflow", s) ELSE Done(new)
      BY <1>1, <1>6 DEF add
    <2>3. QED
      BY <1>2, <2>1, <2>2, OptionsTypes DEF Done, Fails
  <1>7. CASE i > 0 /\ ~HitsMax(o, s, HasOverflown(new, s)) /\ ~HasOverflown(new, s)
    <2>1. add(o, s, i) = Done(new)
      BY <1>1, <1>7 DEF add
    <2>2. new = s + i
      BY <1>1, <1>2, <1>7, WrapCases DEF HasOverflown, Int64
    <2>3. i <= Largest /\ Largest \in Nat
      BY <1>7, LargestValue DEF Amounts
    <2>4. Within(o, s) => Within(o, new)
      BY <1>1, <1>7, <2>2, <2>3, OptionsTypes DEF HitsMax, Within
    <2>5. QED
      BY <1>2, <2>1, <2>2, <2>4 DEF Done
  <1>8. i < 0 \/ i = 0 \/ i > 0
    BY <1>1
  <1>9. QED
    BY <1>3, <1>4, <1>5, <1>6, <1>7, <1>8, Zenon

LEMMA SubtractSteps ==
  \A o \in Options, s \in Int64, i \in Amounts :
     LET r == subtract(o, s, i)
     IN /\ r.state \in Int64
        /\ (~o.allowOverflow /\ Within(o, s)) => Within(o, r.state)
        /\ (o.minVal = {} /\ r.err = "nil") => r.state = Wrap(s - i) /\ (~o.allowOverflow => r.state = s - i)
        /\ (o.minVal = {} /\ r.err # "nil") => r.state = s
  <1> SUFFICES ASSUME NEW o \in Options, NEW s \in Int64, NEW i \in Amounts
               PROVE LET r == subtract(o, s, i)
                     IN /\ r.state \in Int64
                        /\ (~o.allowOverflow /\ Within(o, s)) => Within(o, r.state)
                        /\ (o.minVal = {} /\ r.err = "nil")
                              => r.state = Wrap(s - i) /\ (~o.allowOverflow => r.state = s - i)
                        /\ (o.minVal = {} /\ r.err # "nil") => r.state = s
    BY Zenon
  <1> DEFINE new == Wrap(s - i)
  <1>1. s \in Int /\ i \in Int /\ Half \in Nat \ {0} /\ i < Half /\ i >= -1
    BY StateMachinesAssumption DEF Int64, Amounts
  <1>2. new \in Int64 /\ new \in Int
    BY <1>1, WrapRange DEF Int64
  <1>3. CASE i < 0
    BY <1>1, <1>3 DEF subtract, Fails
  <1>4. CASE i = 0
    <2>1. subtract(o, s, i) = Done(s) /\ Wrap(s - i) = s /\ s - i = s
      BY <1>1, <1>4, WrapCases DEF subtract
    <2>2. QED
      BY <2>1 DEF Done
  <1>5. CASE i > 0 /\ (\E mn \in o.minVal : new > s \/ s < mn)
    <2>1. PICK b \in 0 .. Half - 1 : o.minVal = {-b}
      BY <1>5, OptionsTypes
    <2>2. subtract(o, s, i) = Done(-b)
      <3>1. subtract(o, s, i) = Done(Value(o.minVal))
        BY <1>1, <1>5 DEF subtract
      <3>2. QED
        BY <2>1, <3>1, SingleValue, Zenon
    <2>3. -b \in Int64 /\ Within(o, -b)
      BY <1>1, <2>1, LargestValue, OptionsTypes DEF Int64, Within
    <2>4. QED
      BY <2>1, <2>2, <2>3 DEF Done
  <1>6. CASE i > 0 /\ ~(\E mn \in o.minVal : new > s \/ s < mn) /\ new > s
    <2>1. o.minVal = {}
      BY <1>6, OptionsTypes
    <2>2. subtract(o, s, i) = IF ~o.allowOverflow THEN Fails("ErrNoUnderflow", s) ELSE Done(new)
      BY <1>1, <1>6 DEF subtract
    <2>3. QED
      BY <1>2, <2>1, <2>2, OptionsTypes DEF Done, Fails
  <1>7. CASE i > 0 /\ ~(\E mn \in o.minVal : new > s \/ s < mn) /\ ~(new > s)
    <2>1. subtract(o, s, i) = Done(new)
      BY <1>1, <1>7 DEF subtract
    <2>2. new = s - i
      BY <1>1, <1>2, <1>7, WrapCases DEF Int64
    <2>3. i <= Largest /\ Largest \in Nat
      BY <1>7, LargestValue DEF Amounts
    <2>4. Within(o, s) => Within(o, new)
      BY <1>1, <1>7, <2>2, <2>3, OptionsTypes DEF Within
    <2>5. QED
      BY <1>2, <2>1, <2>2, <2>4 DEF Done
  <1>8. i < 0 \/ i = 0 \/ i > 0
    BY <1>1
  <1>9. QED
    BY <1>3, <1>4, <1>5, <1>6, <1>7, <1>8, Zenon

(***************************************************************************)
(* What a command and Decode make of a value, for every kind.              *)
(***************************************************************************)
LEMMA OverlayPlain ==
  \A new, old : Overlay(new, old) = [j \in DOMAIN Overlay(new, old) |-> Overlay(new, old)[j]]
  BY DEF Overlay

LEMMA CounterSteps ==
  ASSUME kind = "counter", NEW o \in Options, NEW s \in Int64, NEW verb \in Verbs, NEW obj \in Objs
  PROVE LET r == Result(o, s, verb, obj)
            d == Signed(verb, obj.v)
        IN /\ r.state \in Int64 /\ d \in Int
           /\ (~o.allowOverflow /\ Within(o, s)) => Within(o, r.state)
           /\ (o.maxVal = {} /\ o.minVal = {} /\ r.err = "nil")
                 => r.state = Wrap(s + d) /\ (~o.allowOverflow => r.state = s + d)
           /\ (o.maxVal = {} /\ o.minVal = {} /\ r.err # "nil") => r.state = s
  <1> DEFINE i == obj.v
  <1>1. i \in Amounts /\ i \in Int /\ s \in Int
    <2>1. i \in Amounts
      BY DEF Objs, Amounts
    <2>2. \A x \in Amounts : x \in Int
      BY StateMachinesAssumption DEF Amounts
    <2>3. s \in Int
      BY StateMachinesAssumption DEF Int64
    <2>4. QED
      BY <2>1, <2>2, <2>3
  <1>2. Result(o, s, verb, obj) = counterExecute(o, s, verb, i)
    BY DEF Result
  <1> HIDE DEF i
  <1>3. CASE verb = "add"
    <2>1. counterExecute(o, s, verb, i) = add(o, s, i) /\ Signed(verb, i) = i
      BY <1>3 DEF counterExecute, Signed
    <2>2. Result(o, s, verb, obj) = add(o, s, i) /\ Signed(verb, obj.v) = i
      BY <1>2, <2>1, Zenon DEF i
    <2>3. LET r == add(o, s, i)
          IN /\ r.state \in Int64
             /\ (~o.allowOverflow /\ Within(o, s)) => Within(o, r.state)
             /\ (o.maxVal = {} /\ r.err = "nil") => r.state = Wrap(s + i) /\ (~o.allowOverflow => r.state = s + i)
             /\ (o.maxVal = {} /\ r.err # "nil") => r.state = s
      BY <1>1, AddSteps, Zenon
    <2>4. QED
      BY <1>1, <2>2, <2>3, Zenon
  <1>4. CASE verb = "subtract"
    <2>1. counterExecute(o, s, verb, i) = subtract(o, s, i) /\ Signed(verb, i) = -i
      BY <1>4 DEF counterExecute, Signed
    <2>2. s - i = s + (-i) /\ -i \in Int
      BY <1>1
    <2>3. Result(o, s, verb, obj) = subtract(o, s, i) /\ Signed(verb, obj.v) = -i
      BY <1>2, <2>1, Zenon DEF i
    <2>4. LET r == subtract(o, s, i)
          IN /\ r.state \in Int64
             /\ (~o.allowOverflow /\ Within(o, s)) => Within(o, r.state)
             /\ (o.minVal = {} /\ r.err = "nil") => r.state = Wrap(s - i) /\ (~o.allowOverflow => r.state = s - i)
             /\ (o.minVal = {} /\ r.err # "nil") => r.state = s
      BY <1>1, SubtractSteps, Zenon
    <2>5. QED
      BY <1>1, <2>2, <2>3, <2>4, Zenon
  <1>5. CASE verb # "add" /\ verb # "subtract"
    <2>1. counterExecute(o, s, verb, i) = Fails("ErrUnsupportedStateMachineCommand", s)
          /\ Signed(verb, i) = -i
      BY <1>5 DEF counterExecute, Signed
    <2>2. QED
      BY <1>1, <1>2, <2>1 DEF i, Fails
  <1>6. QED
    BY <1>3, <1>4, <1>5, Zenon

LEMMA ResultPlain ==
  ASSUME kind \in Kinds, NEW o \in Options, NEW s, Plain(s), NEW verb \in Verbs, NEW obj \in Objs
  PROVE Plain(Result(o, s, verb, obj).state)
  <1>1. CASE kind = "counter"
    BY <1>1, CounterSteps DEF Plain
  <1>2. CASE kind = "hashmap"
    <2>1. Result(o, s, verb, obj) = hashmapExecute(s, verb, obj)
      BY <1>2 DEF Result
    <2>2. CASE obj.v # 0 /\ verb = "put"
      <3>1. hashmapExecute(s, verb, obj) = Done(Overlay([j \in {obj.k} |-> obj.v], s))
        BY <2>2 DEF hashmapExecute
      <3>2. QED
        BY <1>2, <2>1, <3>1, OverlayPlain DEF Plain, Done
    <2>3. CASE obj.v # 0 /\ verb = "delete"
      <3>1. hashmapExecute(s, verb, obj) = Done(Without(s, obj.k))
        BY <2>3 DEF hashmapExecute
      <3>2. Without(s, obj.k) = [j \in DOMAIN Without(s, obj.k) |-> Without(s, obj.k)[j]]
        BY DEF Without
      <3>3. QED
        BY <1>2, <2>1, <3>1, <3>2 DEF Plain, Done
    <2>4. CASE obj.v = 0 \/ verb \notin {"put", "delete"}
      <3>1. hashmapExecute(s, verb, obj).state = s
        BY <2>4 DEF hashmapExecute, Fails
      <3>2. QED
        BY <2>1, <3>1
    <2>5. QED
      BY <2>2, <2>3, <2>4
  <1>3. CASE kind \notin {"counter", "hashmap"}
    BY <1>3 DEF Plain
  <1>4. QED
    BY <1>1, <1>2, <1>3

LEMMA DecodedPlain ==
  ASSUME kind \in Kinds, NEW s, Plain(s), NEW t, Plain(t)
  PROVE /\ Plain(Decoded(s, t))
        /\ kind \in {"array", "counter"} => Decoded(s, t) = t
        /\ kind = "hashmap" => Decoded(s, t) = Overlay(t, s)
        /\ kind = "set" => Decoded(s, t) = s \cup t
  <1>1. /\ kind \in {"array", "counter"} => Decoded(s, t) = t
        /\ kind = "hashmap" => Decoded(s, t) = Overlay(t, s)
        /\ kind = "set" => Decoded(s, t) = s \cup t
    BY DEF Decoded, Kinds, arrayDecode, hashmapDecode, setDecode
  <1>2. Plain(Decoded(s, t))
    BY <1>1, OverlayPlain DEF Plain
  <1>3. QED
    BY <1>1, <1>2

LEMMA InitStmInv == Init => StmInv
  <1> SUFFICES ASSUME Init PROVE StmInv
    OBVIOUS
  <1>1. Plain(Initial)
    BY StateMachinesAssumption DEF Init, Kinds, Plain, Initial, Int64
  <1>2. kind \in Kinds /\ Apart
    BY <1>1 DEF Init, Apart, Isolated, Current, Present, Machines
  <1>3. Forked
    BY DEF Init, Forked, Machines
  <1>4. Counted
    <2> SUFFICES ASSUME kind = "counter"
                 PROVE /\ exact \in Int
                       /\ CounterExact
                       /\ ~opts["stm"].allowOverflow => \A v \in buf : Within(opts["stm"], v)
      BY DEF Counted
    <2>1. exact = 0 /\ buf = {} /\ \A m \in Present : Current(m) = 0 /\ opts[m] \in Options
      BY DEF Init, Initial, Present, Machines, Current
    <2>2. Wrap(0) = 0 /\ "stm" \in Present
      BY WrapCases, StateMachinesAssumption DEF Int64, Init, Present, Machines
    <2>3. \A o \in Options : Within(o, 0)
      BY OptionsTypes, LargestValue, StateMachinesAssumption DEF Within
    <2>4. QED
      BY <2>1, <2>2, <2>3 DEF CounterExact, Within
  <1>5. QED
    BY <1>2, <1>3, <1>4 DEF StmInv

(***************************************************************************)
(* Every action preserves the inductive invariant.                         *)
(***************************************************************************)

\* A machine changes the value of its own reference, and no other.
LEMMA ChangeOwn ==
  ASSUME Apart, NEW m \in Present, NEW v, Plain(v),
         heap' = [heap EXCEPT ![ref[m]] = v], own' = [own EXCEPT ![m] = v],
         UNCHANGED <<kind, ref, handed>>, \A w \in buf' : Plain(w)
  PROVE Apart' /\ Present' = Present /\ Current(m)' = v
        /\ \A n \in Present : n # m => Current(n)' = Current(n)
  <1>1. m \in Machines /\ ref[m] \in {1, 2} /\ \A n \in Present : n # m => ref[n] # ref[m] /\ ref[n] \in {1, 2}
    BY DEF Apart, Present, Machines
  <1>2. heap' = [r \in 1 .. 3 |-> IF r = ref[m] THEN v ELSE heap[r]]
    <2>1. heap = [r \in 1 .. 3 |-> heap[r]]
      BY DEF Apart
    <2>2. QED
      BY <1>1, <2>1, Zenon
  <1>3. own' = [n \in Machines |-> IF n = m THEN v ELSE own[n]]
    <2>1. own = [n \in Machines |-> own[n]]
      BY DEF Apart
    <2>2. QED
      BY <1>1, <2>1
  <1>4. Present' = Present /\ ref' = ref /\ kind' = kind /\ handed' = handed
    BY DEF Present
  <1>5. Current(m)' = v /\ \A n \in Present : n # m => Current(n)' = Current(n)
    BY <1>1, <1>2, <1>4 DEF Current
  <1>6. \A w : Plain(w)' <=> Plain(w)
    BY <1>4 DEF Plain, Int64
  <1>7. Isolated'
    <2>1. handed.ref # 0 => heap'[handed.ref] = heap[handed.ref] /\ heap[handed.ref] = handed.val
      BY <1>1, <1>2 DEF Apart, Isolated
    <2>2. \A n \in Present : Current(n)' = own'[n]
      <3>1. \A n \in Present : n \in Machines /\ Current(n) = own[n]
        BY DEF Apart, Isolated, Present
      <3>2. QED
        BY <1>3, <1>5, <3>1
    <2>3. QED
      BY <1>4, <2>1, <2>2 DEF Isolated
  <1>8. heap' = [r \in 1 .. 3 |-> heap'[r]] /\ \A r \in 1 .. 3 : Plain(heap'[r])
    <2>1. \A r \in 1 .. 3 : Plain(heap[r])
      BY DEF Apart
    <2>2. \A r \in 1 .. 3 : heap'[r] = v \/ heap'[r] = heap[r]
      BY <1>2
    <2>3. QED
      BY <1>2, <2>1, <2>2, Zenon
  <1>9. own' = [n \in Machines |-> own'[n]]
    BY <1>3, Zenon
  <1>10. Apart'
    BY <1>4, <1>6, <1>7, <1>8, <1>9, Zenon DEF Apart, Machines
  <1>11. QED
    BY <1>4, <1>5, <1>10

\* The two halves of CounterExact, without the case that kind is another.
Sums(current, e) ==
    (opts["stm"].maxVal = {} /\ opts["stm"].minVal = {})
        => current = (IF opts["stm"].allowOverflow THEN Wrap(e) ELSE e)

InBounds == ~opts["stm"].allowOverflow => \A m \in Present : Within(opts[m], Current(m))

LEMMA CounterExactHalves ==
  kind = "counter" => (CounterExact <=> (Sums(Current("stm"), exact) /\ InBounds))
  BY DEF CounterExact, Sums, InBounds, Within

LEMMA Members ==
  ASSUME StmInv
  PROVE /\ "stm" \in Present
        /\ \A m \in Present : /\ m \in Machines /\ opts[m] \in Options
                              /\ ref[m] \in 1 .. 2 /\ Plain(Current(m)) /\ Current(m) = own[m]
                              /\ m # "stm" => m = "fork" /\ opts["fork"] = ForkOptions(opts["stm"])
  <1>1. "stm" \in Present
    BY DEF StmInv, Apart, Present, Machines
  <1>2. ASSUME NEW m \in Present
        PROVE m \in Machines /\ ref[m] # 0 /\ (m = "stm" \/ m = "fork")
    BY DEF Present, Machines
  <1>3. ASSUME NEW m \in Present PROVE ref[m] \in 1 .. 2 /\ Plain(Current(m)) /\ Current(m) = own[m]
    <2>1. ref[m] \in 1 .. 2 /\ ref[m] \in 1 .. 3
      BY <1>2 DEF StmInv, Apart
    <2>2. QED
      BY <2>1 DEF StmInv, Apart, Isolated, Current
  <1>4. ASSUME NEW m \in Present
        PROVE opts[m] \in Options /\ (m # "stm" => m = "fork" /\ opts["fork"] = ForkOptions(opts["stm"]))
    BY <1>2 DEF StmInv, Forked
  <1>5. QED
    BY <1>1, <1>2, <1>3, <1>4

LEMMA ExecuteStep ==
  ASSUME StmInv, NEW m \in Machines, NEW verb \in Verbs, NEW obj \in Objs, Execute(m, verb, obj)
  PROVE StmInv'
  <1> DEFINE res == Result(opts[m], Current(m), verb, obj)
             d == Signed(verb, obj.v)
  <1>1. m \in Present /\ UNCHANGED <<kind, opts, ref, handed, buf>>
    BY Zenon DEF Execute
  <1>2. opts[m] \in Options /\ Plain(Current(m)) /\ Current(m) = own[m] /\ kind \in Kinds /\ m \in Machines
    BY <1>1, Members DEF StmInv
  <1>3. Plain(res.state)
    BY <1>2, ResultPlain, Zenon
  <1>4. heap' = [heap EXCEPT ![ref[m]] = res.state] /\ own' = [own EXCEPT ![m] = res.state]
        /\ exact' = IF kind = "counter" /\ m = "stm" /\ res.err = "nil" THEN exact + d ELSE exact
    <2>1. heap' = [heap EXCEPT ![ref[m]] = res.state]
          /\ exact' = IF kind = "counter" /\ m = "stm" /\ res.err = "nil" THEN exact + d ELSE exact
      BY Zenon DEF Execute
    <2>2. own' = [own EXCEPT ![m] = Result(opts[m], own[m], verb, obj).state]
      BY Zenon DEF Execute
    <2>3. QED
      BY <1>2, <2>1, <2>2
  <1> HIDE DEF res
  <1>5. Apart' /\ Present' = Present /\ Current(m)' = res.state
        /\ \A n \in Present : n # m => Current(n)' = Current(n)
    <2>1. Apart /\ \A w \in buf' : Plain(w)
      BY <1>1 DEF StmInv, Apart
    <2>2. QED
      BY <1>1, <1>3, <1>4, <2>1, ChangeOwn, Zenon
  <1>6. Forked' /\ (kind \in Kinds)'
    BY <1>1, <1>2 DEF StmInv, Forked
  <1>7. Counted'
    <2> SUFFICES ASSUME kind = "counter"
                 PROVE /\ exact' \in Int
                       /\ Sums(Current("stm"), exact)' /\ InBounds'
                       /\ ~opts["stm"].allowOverflow => \A v \in buf : Within(opts["stm"], v)
      <3>1. (CounterExact <=> (Sums(Current("stm"), exact) /\ InBounds))' \/ kind # "counter"
        BY <1>1, Zenon DEF CounterExact, Sums, InBounds, Within
      <3>2. QED
        BY <1>1, <3>1 DEF Counted, Within
    <2>1. /\ exact \in Int /\ Sums(Current("stm"), exact) /\ InBounds
          /\ ~opts["stm"].allowOverflow => \A v \in buf : Within(opts["stm"], v)
      BY CounterExactHalves DEF StmInv, Counted
    <2>2. Current(m) \in Int64
      BY <1>2 DEF Plain
    <2>3. /\ res.state \in Int64 /\ d \in Int
          /\ (~opts[m].allowOverflow /\ Within(opts[m], Current(m))) => Within(opts[m], res.state)
          /\ (opts[m].maxVal = {} /\ opts[m].minVal = {} /\ res.err = "nil")
                => res.state = Wrap(Current(m) + d) /\ (~opts[m].allowOverflow => res.state = Current(m) + d)
          /\ (opts[m].maxVal = {} /\ opts[m].minVal = {} /\ res.err # "nil") => res.state = Current(m)
      BY <1>2, <2>2, CounterSteps, Zenon DEF res
    <2> HIDE DEF d
    <2>4. exact' \in Int
      <3>1. exact' = exact + d \/ exact' = exact
        BY <1>4, Zenon
      <3>2. exact \in Int /\ d \in Int
        BY <2>1, <2>3, Zenon
      <3>3. QED
        BY <3>1, <3>2
    <2>5. Sums(Current("stm"), exact)'
      <3>1. CASE m = "stm"
        <4>1. (exact' = exact + d /\ res.err = "nil") \/ (exact' = exact /\ res.err # "nil")
          BY <1>4, <3>1
        <4>2. Wrap(Wrap(exact) + d) = Wrap(exact + d)
          BY <2>1, <2>3, WrapSum, Zenon
        <4>3. QED
          BY <1>1, <1>5, <2>1, <2>3, <3>1, <4>1, <4>2, Zenon DEF Sums
      <3>2. CASE m # "stm"
        BY <1>1, <1>4, <1>5, <2>1, <3>2, Members, Zenon DEF Sums
      <3>3. QED
        BY <3>1, <3>2
    <2>6. InBounds'
      <3> SUFFICES ASSUME ~opts["stm"].allowOverflow, NEW n \in Present
                   PROVE Within(opts[n], Current(n)')
        BY <1>1, <1>5, Zenon DEF InBounds, Within
      <3>1. Within(opts[n], Current(n)) /\ ~opts[n].allowOverflow
        BY <2>1, Members, ForkTypes DEF InBounds
      <3>2. QED
        BY <1>5, <2>3, <3>1, Zenon
    <2>7. QED
      BY <2>1, <2>4, <2>5, <2>6
  <1>8. QED
    BY <1>5, <1>6, <1>7 DEF StmInv

\* State and DeepCopy copy the machine's value to a reference that nothing has.
LEMMA CopyApart ==
  ASSUME StmInv, NEW r \in 2 .. 3, heap' = [heap EXCEPT ![r] = Current("stm")]
  PROVE /\ heap' = [q \in 1 .. 3 |-> heap'[q]] /\ \A q \in 1 .. 3 : Plain(heap'[q])
        /\ heap'[r] = Current("stm") /\ \A q \in 1 .. 3 : q # r => heap'[q] = heap[q]
  <1>1. Plain(Current("stm"))
    BY Members
  <1>2. heap = [q \in 1 .. 3 |-> heap[q]] /\ \A q \in 1 .. 3 : Plain(heap[q])
    BY DEF StmInv, Apart
  <1>3. heap' = [q \in 1 .. 3 |-> IF q = r THEN Current("stm") ELSE heap[q]]
    BY <1>2, Zenon
  <1>4. QED
    BY <1>1, <1>2, <1>3

LEMMA StateStep ==
  ASSUME StmInv, State
  PROVE StmInv'
  <1>1. /\ handed' = [ref |-> 3, val |-> Current("stm")]
        /\ heap' = [heap EXCEPT ![3] = Current("stm")]
        /\ kind' = kind /\ opts' = opts /\ ref' = ref /\ buf' = buf /\ own' = own /\ exact' = exact
    BY DEF State, CopiedTo
  <1>2. /\ heap' = [q \in 1 .. 3 |-> heap'[q]] /\ \A q \in 1 .. 3 : Plain(heap'[q])
        /\ heap'[3] = Current("stm") /\ \A q \in 1 .. 3 : q # 3 => heap'[q] = heap[q]
    BY <1>1, CopyApart
  <1>3. \A w : Plain(w)' <=> Plain(w)
    BY <1>1 DEF Plain, Int64
  <1>4. handed'.ref = 3 /\ handed'.val = Current("stm")
    BY <1>1
  <1>5. Present' = Present /\ \A m \in Present : Current(m)' = Current(m)
    <2>1. \A m \in Present : ref[m] \in 1 .. 2
      BY Members
    <2>2. QED
      BY <1>1, <1>2, <2>1 DEF Present, Current
  <1>6. Isolated'
    BY <1>1, <1>2, <1>4, <1>5, Members DEF Isolated
  <1>7. Apart'
    BY <1>1, <1>2, <1>3, <1>4, <1>6, Zenon DEF StmInv, Apart, Machines
  <1>8. Forked' /\ (kind \in Kinds)'
    BY <1>1 DEF StmInv, Forked
  <1>9. Counted'
    <2>1. CounterExact' <=> CounterExact
      BY <1>1, <1>5, Members, Zenon DEF CounterExact
    <2>2. QED
      BY <1>1, <2>1 DEF StmInv, Counted, Within
  <1>10. QED
    BY <1>7, <1>8, <1>9 DEF StmInv

LEMMA DeepCopyStep ==
  ASSUME StmInv, DeepCopy
  PROVE StmInv'
  <1>1. /\ ref["fork"] = 0 /\ ref' = [ref EXCEPT !["fork"] = 2]
        /\ heap' = [heap EXCEPT ![2] = Current("stm")]
        /\ opts' = [opts EXCEPT !["fork"] = ForkOptions(opts["stm"])]
        /\ own' = [own EXCEPT !["fork"] = Current("stm")]
        /\ kind' = kind /\ handed' = handed /\ buf' = buf /\ exact' = exact
    BY DEF DeepCopy, CopiedTo
  <1>2. /\ heap' = [q \in 1 .. 3 |-> heap'[q]] /\ \A q \in 1 .. 3 : Plain(heap'[q])
        /\ heap'[2] = Current("stm") /\ \A q \in 1 .. 3 : q # 2 => heap'[q] = heap[q]
    BY <1>1, CopyApart
  <1>3. \A w : Plain(w)' <=> Plain(w)
    BY <1>1 DEF Plain, Int64
  <1>4. ref' \in [Machines -> 0 .. 2] /\ ref'["stm"] = 1 /\ ref'["fork"] = 2
    BY <1>1 DEF StmInv, Apart, Machines
  <1>5. own' = [m \in Machines |-> own'[m]] /\ own'["stm"] = own["stm"] /\ own'["fork"] = Current("stm")
    <2>1. own = [m \in Machines |-> own[m]]
      BY DEF StmInv, Apart
    <2>2. own' = [m \in Machines |-> IF m = "fork" THEN Current("stm") ELSE own[m]]
      BY <1>1, <2>1
    <2>3. QED
      BY <2>2 DEF Machines
  <1>6. opts' \in [Machines -> Options] /\ opts'["stm"] = opts["stm"] /\ opts'["fork"] = ForkOptions(opts["stm"])
    <2>1. opts \in [Machines -> Options] /\ "stm" \in Machines /\ "fork" \in Machines
      BY DEF StmInv, Forked, Machines
    <2>2. ForkOptions(opts["stm"]) \in Options
      BY <2>1, ForkTypes
    <2>3. QED
      BY <1>1, <2>1, <2>2
  <1>7. /\ Present' = Machines /\ Current("stm")' = Current("stm") /\ Current("fork")' = Current("stm")
        /\ Current("stm") = own["stm"]
    <2>1. ref["stm"] = 1
      BY Zenon DEF StmInv, Apart
    <2>2. Current("stm") = own["stm"]
      BY Members, Zenon
    <2>3. QED
      BY <1>2, <1>4, <2>1, <2>2 DEF Present, Machines, Current
  <1>8. Isolated'
    <2>1. handed'.ref # 0 => heap'[handed'.ref] = handed'.val
      BY <1>1, <1>2 DEF StmInv, Apart, Isolated
    <2>2. \A m \in Machines : Current(m)' = own'[m]
      BY <1>5, <1>7 DEF Machines
    <2>3. QED
      BY <1>7, <2>1, <2>2 DEF Isolated
  <1>9. Apart'
    BY <1>1, <1>2, <1>3, <1>4, <1>5, <1>8, Zenon DEF StmInv, Apart, Machines
  <1>10. Forked' /\ (kind \in Kinds)'
    BY <1>1, <1>6 DEF StmInv, Forked, ForkOptions
  <1>11. Counted'
    <2> SUFFICES ASSUME kind = "counter"
                 PROVE /\ exact \in Int
                       /\ Sums(Current("stm"), exact)' /\ InBounds'
                       /\ ~opts["stm"].allowOverflow => \A v \in buf : Within(opts["stm"], v)
      <3>1. (CounterExact <=> (Sums(Current("stm"), exact) /\ InBounds))' \/ kind # "counter"
        BY <1>1, Zenon DEF CounterExact, Sums, InBounds, Within
      <3>2. QED
        BY <1>1, <1>6, <3>1, Zenon DEF Counted, Within
    <2>1. /\ exact \in Int /\ Sums(Current("stm"), exact) /\ InBounds
          /\ ~opts["stm"].allowOverflow => \A v \in buf : Within(opts["stm"], v)
      BY CounterExactHalves DEF StmInv, Counted
    <2>2. Sums(Current("stm"), exact)'
      BY <1>1, <1>6, <1>7, <2>1, Zenon DEF Sums
    <2>3. InBounds'
      <3> SUFFICES ASSUME ~opts["stm"].allowOverflow, NEW m \in Machines
                   PROVE Within(opts'[m], Current(m)')
        BY <1>6, <1>7, Zenon DEF InBounds, Within
      <3>1. Within(opts["stm"], Current("stm")) /\ opts["stm"] \in Options
        BY <2>1, Members DEF InBounds
      <3>2. ForkOptions(opts["stm"]) = opts["stm"]
        BY <3>1, ForkTypes
      <3>3. QED
        BY <1>6, <1>7, <3>1, <3>2 DEF Machines
    <2>4. QED
      BY <2>1, <2>2, <2>3
  <1>12. QED
    BY <1>9, <1>10, <1>11 DEF StmInv

LEMMA EncodeStep ==
  ASSUME StmInv, Encode
  PROVE StmInv'
  <1>1. /\ buf' = {Current("stm")} /\ kind' = kind /\ opts' = opts /\ heap' = heap
        /\ ref' = ref /\ handed' = handed /\ own' = own /\ exact' = exact
    BY DEF Encode
  <1>2. \A w : Plain(w)' <=> Plain(w)
    BY <1>1 DEF Plain, Int64
  <1>3. Present' = Present /\ (\A m : Current(m)' = Current(m)) /\ Plain(Current("stm"))
    BY <1>1, Members DEF Present, Current
  <1>4. Isolated' /\ (CounterExact' <=> CounterExact)
    BY <1>1, <1>3, Zenon DEF StmInv, Apart, Isolated, CounterExact
  <1>5. Apart'
    BY <1>1, <1>2, <1>3, <1>4 DEF StmInv, Apart, Machines
  <1>6. Forked' /\ (kind \in Kinds)'
    BY <1>1 DEF StmInv, Forked
  <1>7. (kind = "counter" /\ ~opts["stm"].allowOverflow) => Within(opts["stm"], Current("stm"))
    BY Members, CounterExactHalves DEF StmInv, Counted, InBounds
  <1>8. Counted'
    BY <1>1, <1>4, <1>7, Zenon DEF StmInv, Counted, Within
  <1>9. QED
    BY <1>5, <1>6, <1>8 DEF StmInv

\* What Decode does to the references and to the machine that decodes.
LEMMA DecodeEffect ==
  ASSUME StmInv, NEW m \in Machines, Decode(m)
  PROVE LET new == Decoded(Current(m), Value(buf))
        IN /\ m \in Present /\ Value(buf) \in buf /\ Plain(Value(buf)) /\ Plain(Current(m)) /\ Plain(new)
           /\ heap' = [heap EXCEPT ![ref[m]] = new] /\ own' = [own EXCEPT ![m] = new]
           /\ buf' = {} /\ kind' = kind /\ opts' = opts /\ ref' = ref /\ handed' = handed
           /\ exact' = IF m = "stm" /\ kind = "counter" THEN Value(buf) ELSE exact
  <1>1. /\ m \in Present /\ buf # {}
        /\ heap' = [heap EXCEPT ![ref[m]] = Decoded(heap[ref[m]], Value(buf))]
        /\ own' = [own EXCEPT ![m] = Decoded(own[m], Value(buf))]
        /\ exact' = IF m = "stm" /\ kind = "counter" THEN Value(buf) ELSE exact
        /\ buf' = {} /\ kind' = kind /\ opts' = opts /\ ref' = ref /\ handed' = handed
    BY DEF Decode
  <1>2. Value(buf) \in buf
    BY <1>1, Zenon DEF Value
  <1>3. Plain(Value(buf)) /\ kind \in Kinds
    BY <1>2 DEF StmInv, Apart
  <1>4. Plain(Current(m)) /\ Current(m) = own[m] /\ Current(m) = heap[ref[m]]
    BY <1>1, Members DEF Current
  <1>5. Plain(Decoded(Current(m), Value(buf)))
    BY <1>3, <1>4, DecodedPlain, Zenon
  <1>6. QED
    BY <1>1, <1>2, <1>3, <1>4, <1>5

LEMMA DecodeStep ==
  ASSUME StmInv, NEW m \in Machines, Decode(m)
  PROVE StmInv'
  <1> DEFINE t == Value(buf)
             new == Decoded(Current(m), t)
  <1>1. /\ m \in Present /\ t \in buf /\ Plain(t) /\ Plain(Current(m)) /\ Plain(new)
        /\ heap' = [heap EXCEPT ![ref[m]] = new] /\ own' = [own EXCEPT ![m] = new]
        /\ buf' = {} /\ kind' = kind /\ opts' = opts /\ ref' = ref /\ handed' = handed
        /\ exact' = IF m = "stm" /\ kind = "counter" THEN t ELSE exact
    BY DecodeEffect
  <1>2. kind = "counter" => new = t
    BY <1>1, DecodedPlain, Zenon DEF Kinds
  <1> HIDE DEF t, new
  <1>3. Apart' /\ Present' = Present /\ Current(m)' = new
        /\ \A n \in Present : n # m => Current(n)' = Current(n)
    BY <1>1, ChangeOwn, Zenon DEF StmInv
  <1>4. Forked' /\ (kind \in Kinds)'
    BY <1>1 DEF StmInv, Forked
  <1>5. Counted'
    <2> SUFFICES ASSUME kind = "counter"
                 PROVE exact' \in Int /\ Sums(Current("stm"), exact)' /\ InBounds'
      <3>1. (CounterExact <=> (Sums(Current("stm"), exact) /\ InBounds))' \/ kind # "counter"
        BY <1>1, Zenon DEF CounterExact, Sums, InBounds, Within
      <3>2. QED
        BY <1>1, <3>1 DEF Counted
    <2>1. /\ exact \in Int /\ Sums(Current("stm"), exact) /\ InBounds
          /\ ~opts["stm"].allowOverflow => Within(opts["stm"], t)
      BY <1>1, CounterExactHalves DEF StmInv, Counted
    <2>2. t \in Int64 /\ t \in Int /\ Wrap(t) = t
      BY <1>1, WrapCases, StateMachinesAssumption DEF Plain, Int64
    <2>3. Sums(Current("stm"), exact)'
      <3>1. CASE m = "stm"
        BY <1>1, <1>2, <1>3, <2>2, <3>1 DEF Sums
      <3>2. CASE m # "stm"
        BY <1>1, <1>3, <2>1, <3>2, Members, Zenon DEF Sums
      <3>3. QED
        BY <3>1, <3>2
    <2>4. InBounds'
      <3> SUFFICES ASSUME ~opts["stm"].allowOverflow, NEW n \in Present
                   PROVE Within(opts[n], Current(n)')
        BY <1>1, <1>3, Zenon DEF InBounds, Within
      <3>1. Within(opts[n], Current(n)) /\ opts[n] = opts["stm"]
        BY <2>1, Members, ForkTypes, Zenon DEF InBounds
      <3>2. QED
        BY <1>2, <1>3, <2>1, <3>1, Zenon
    <2>5. QED
      BY <1>1, <2>1, <2>2, <2>3, <2>4
  <1>6. QED
    BY <1>3, <1>4, <1>5 DEF StmInv

LEMMA StutterStep ==
  ASSUME StmInv, UNCHANGED vars
  PROVE StmInv'
  <1>1. /\ buf' = buf /\ kind' = kind /\ opts' = opts /\ heap' = heap
        /\ ref' = ref /\ handed' = handed /\ own' = own /\ exact' = exact
    BY DEF vars
  <1>2. \A w : Plain(w)' <=> Plain(w)
    BY <1>1 DEF Plain, Int64
  <1>3. Present' = Present /\ (\A m : Current(m)' = Current(m))
    BY <1>1 DEF Present, Current
  <1>4. Isolated' /\ (CounterExact' <=> CounterExact)
    BY <1>1, <1>3, Zenon DEF StmInv, Apart, Isolated, CounterExact
  <1>5. Apart'
    BY <1>1, <1>2, <1>3, <1>4 DEF StmInv, Apart, Machines
  <1>6. QED
    BY <1>1, <1>4, <1>5, Zenon DEF StmInv, Forked, Counted, Within

LEMMA NextStmInv == StmInv /\ [Next]_vars => StmInv'
  <1> SUFFICES ASSUME StmInv, [Next]_vars PROVE StmInv'
    OBVIOUS
  <1>1. ASSUME NEW m \in Machines, NEW verb \in Verbs, NEW obj \in Objs, Execute(m, verb, obj)
        PROVE StmInv'
    BY <1>1, ExecuteStep
  <1>2. ASSUME NEW m \in Machines, Decode(m) PROVE StmInv'
    BY <1>2, DecodeStep
  <1>3. QED
    BY <1>1, <1>2, StateStep, DeepCopyStep, EncodeStep, StutterStep DEF Next

(***************************************************************************)
(* Theorems.                                                               *)
(***************************************************************************)

(* Every step of a state machine, its fork, State, Encode and Decode keeps *)
(* the inductive invariant.                                                *)
THEOREM StmInvInvariant == Spec => []StmInv
  BY InitStmInv, NextStmInv, PTL DEF Spec

(* State and DeepCopy really copy: nothing a machine executes or decodes   *)
(* reaches a state handed out, a fork or the original of a fork.           *)
THEOREM IsolatedAlways == Spec => []Isolated
  <1>1. StmInv => Isolated
    BY DEF StmInv, Apart
  <1>2. QED
    BY <1>1, StmInvInvariant, PTL

(* A fork in the state of its original answers every command with the      *)
(* error and the new state the original would, unless the original may     *)
(* overflow: DeepCopy copies the filter and both bounds.                   *)
THEOREM ForksAnswerAlike == Spec => []ForksAgree
  <1>1. StmInv => ForksAgree
    <2> SUFFICES ASSUME StmInv, Present = Machines, Current("stm") = Current("fork"),
                        ~opts["stm"].allowOverflow
                 PROVE opts["fork"] = opts["stm"]
      BY DEF ForksAgree
    <2>1. "fork" \in Present
      BY DEF Machines
    <2>2. opts["fork"] = ForkOptions(opts["stm"]) /\ opts["stm"] \in Options
      BY <2>1, Members
    <2>3. QED
      BY <2>2, ForkTypes
  <1>2. QED
    BY <1>1, StmInvInvariant, PTL

(* A counter without bounds holds the sum of what it accepted, wrapped to  *)
(* int64 if it may overflow; one with bounds that may not overflow passes  *)
(* a bound by one addition or subtraction at most, forks included, and a   *)
(* decoded snapshot does not take it further.                              *)
THEOREM CounterKeepsSum == Spec => []CounterExact
  <1>1. StmInv => CounterExact
    BY Zenon DEF StmInv, Counted, CounterExact
  <1>2. QED
    BY <1>1, StmInvInvariant, PTL

\* Merging a snapshot that has every key of the state gives the snapshot.
LEMMA OverlayAll ==
  \A new, old :
     (new = [j \in DOMAIN new |-> new[j]] /\ DOMAIN old \subseteq DOMAIN new) => Overlay(new, old) = new
  <1> SUFFICES ASSUME NEW new, NEW old,
                      new = [j \in DOMAIN new |-> new[j]], DOMAIN old \subseteq DOMAIN new
               PROVE Overlay(new, old) = new
    OBVIOUS
  <1>1. DOMAIN new \cup DOMAIN old = DOMAIN new
    OBVIOUS
  <1>2. Overlay(new, old) = [j \in DOMAIN new |-> new[j]]
    BY <1>1 DEF Overlay
  <1>3. QED
    BY <1>2

LEMMA DecodeRestoresStep ==
  ASSUME StmInv, [Next]_vars, NEW m \in Present, buf # {}, buf' = {}, own'[m] # own[m],
         ~HasMore(Current(m), Value(buf))
  PROVE heap'[ref[m]] = Value(buf)
  <1>1. PICK n \in Machines : Decode(n)
    <2>1. ASSUME NEW k \in Machines, NEW verb \in Verbs, NEW obj \in Objs, Execute(k, verb, obj)
          PROVE FALSE
      BY <2>1, Zenon DEF Execute
    <2>2. ~State /\ ~DeepCopy /\ ~Encode /\ ~UNCHANGED vars
      BY Zenon DEF State, DeepCopy, Encode, vars
    <2>3. QED
      BY <2>1, <2>2, Zenon DEF Next
  <1> DEFINE t == Value(buf)
             new == Decoded(Current(n), t)
  <1>2. /\ n \in Present /\ Plain(t) /\ Plain(Current(n))
        /\ heap' = [heap EXCEPT ![ref[n]] = new] /\ own' = [own EXCEPT ![n] = new]
    BY <1>1, DecodeEffect
  <1>3. n = m
    <2>1. own = [k \in Machines |-> own[k]] /\ m \in Machines
      BY Members, Zenon DEF StmInv, Apart
    <2>2. QED
      BY <1>2, <2>1
  <1>4. heap'[ref[m]] = new
    <2>1. heap = [r \in 1 .. 3 |-> heap[r]] /\ ref[m] \in 1 .. 3
      BY Members DEF StmInv, Apart
    <2>2. QED
      BY <1>2, <1>3, <2>1
  <1>5. kind \in Kinds
    BY DEF StmInv
  <1>6. CASE kind \in {"array", "counter"}
    BY <1>2, <1>3, <1>4, <1>5, <1>6, DecodedPlain, Zenon
  <1>7. CASE kind = "hashmap"
    <2>1. DOMAIN Current(m) \subseteq DOMAIN t
      BY <1>7 DEF HasMore
    <2>2. t = [j \in DOMAIN t |-> t[j]]
      BY <1>2, <1>7 DEF Plain
    <2>3. new = Overlay(t, Current(m))
      BY <1>2, <1>3, <1>5, <1>7, DecodedPlain, Zenon
    <2> HIDE DEF t, new
    <2>4. Overlay(t, Current(m)) = t
      BY <2>1, <2>2, OverlayAll
    <2>5. QED
      BY <1>4, <2>3, <2>4, Zenon DEF t
  <1>8. CASE kind = "set"
    <2>1. Current(m) \subseteq t
      BY <1>8 DEF HasMore
    <2>2. new = Current(m) \cup t
      BY <1>2, <1>3, <1>5, <1>8, DecodedPlain, Zenon
    <2>3. QED
      BY <1>4, <2>1, <2>2, Zenon
  <1>9. QED
    BY <1>5, <1>6, <1>7, <1>8, Zenon DEF Kinds

(* A machine that decodes a snapshot is back in the state it was encoded   *)
(* from, whatever it executed since; only a map or set that got new keys   *)
(* keeps them, because json.Unmarshal merges into the map that is there.   *)
THEOREM SnapshotsRestore == Spec => DecodeRestores
  <1> DEFINE A == \A m \in Present : (buf # {} /\ buf' = {} /\ own'[m] # own[m])
                     => heap'[ref[m]] = Value(buf) \/ HasMore(Current(m), Value(buf))
  <1>1. StmInv /\ [Next]_vars => [A]_vars
    BY DecodeRestoresStep, Zenon
  <1>2. QED
    BY <1>1, StmInvInvariant, PTL DEF Spec, DecodeRestores
=============================================================================
