------------------------------ MODULE Monitors ------------------------------
(***************************************************************************)
(* The monitors of internal/adapter/monitor: backendState probes backends  *)
(* at every tick, RemoteAssignment receives assignments from a socket, and *)
(* backendSpecList dispatches the configured backends to its first         *)
(* watcher.  All three dispatch to a WatcherMux, here with one watcher,    *)
(* and close it when they end: the first two from their loop, the last     *)
(* from the goroutine that calls Close.                                    *)
(*                                                                         *)
(* Run and Close hold mu, so state is "new", "running", "closing" (Close   *)
(* waits) or "closed".  What is dispatched does not matter here.           *)
(***************************************************************************)
EXTENDS Naturals

CONSTANTS NBackends,  \* backends probed at a tick
          ChCap,      \* capacity of the watcher's channel
          MaxItems    \* bound: ticks, or packets received

ASSUME MonitorsAssumption == {NBackends, ChCap} \subseteq Nat \ {0} /\ MaxItems \in Nat

VARIABLES
    monitorKind,  \* "backendState", "RemoteAssignment" or "backendSpecList"
    state,
    loop,      \* goroutine that dispatches: "off", "select", "list", "send" or "ended"
    todo,      \* probes left in this round
    items,     \* ticks or packets so far
    conn,      \* the socket: "none", "open" or "closed"
    watch,     \* the watcher: "none", "open", "closed" (by the monitor) or "cancelled"
    ch,        \* entries in its channel
    sent,      \* history: entries sent to it
    panicked   \* "no", or what panicked: "send" or "close"

monitor == <<monitorKind, state, loop, todo, items, conn, watch, ch, sent>>
monitorVars == <<monitor, panicked>>

Looping == monitorKind # "backendSpecList"

MonitorInit ==
    /\ state = "new" /\ loop = "off" /\ todo = 0 /\ items = 0 /\ conn = "none"
    /\ ch = 0 /\ sent = 0 /\ panicked = "no"

\* Watch.  The first one of a backendSpecList starts a goroutine that dispatches.
Watch ==
    /\ watch = "none"
    /\ watch' = "open"
    /\ loop' = IF Looping THEN loop ELSE "list"
    /\ UNCHANGED <<monitorKind, state, todo, items, conn, ch, sent, panicked>>

\* The cancel function that Watch returned.
Cancel ==
    /\ watch \in {"open", "closed"}
    /\ watch' = "cancelled"
    /\ UNCHANGED <<monitorKind, state, loop, todo, items, conn, ch, sent, panicked>>

\* What Run and Close of RemoteAssignment do to its socket.
Listening == IF monitorKind = "RemoteAssignment" THEN "open" ELSE conn
Released == IF conn = "open" THEN "closed" ELSE conn

MonitorRun ==
    /\ Looping /\ state = "new"
    /\ state' = "running" /\ loop' = "select"
    /\ conn' = Listening
    /\ UNCHANGED <<monitorKind, todo, items, watch, ch, sent, panicked>>

\* A tick: probe the backends one after the other.
Tick ==
    /\ monitorKind = "backendState" /\ loop = "select" /\ items < MaxItems
    /\ items' = items + 1
    /\ todo' = NBackends /\ loop' = "list"
    /\ UNCHANGED <<monitorKind, state, conn, watch, ch, sent, panicked>>

\* A packet that holds an assignment; others, timeouts and errors change nothing.
Packet ==
    /\ monitorKind = "RemoteAssignment" /\ loop = "select" /\ conn = "open" /\ items < MaxItems
    /\ items' = items + 1
    /\ loop' = "list"
    /\ UNCHANGED <<monitorKind, state, todo, conn, watch, ch, sent, panicked>>

Left == IF todo = 0 THEN 0 ELSE todo - 1
Turn == IF Left > 0 THEN "list" ELSE IF Looping THEN "select" ELSE "ended"

\* Dispatch: take the list of watchers, closed ones included ...
List ==
    /\ loop = "list"
    /\ IF watch \in {"open", "closed"} THEN loop' = "send" /\ UNCHANGED todo ELSE loop' = Turn /\ todo' = Left
    /\ UNCHANGED <<monitorKind, state, items, conn, watch, ch, sent, panicked>>

\* ... and send, with a timeout.  A channel closed in between makes the send panic,
\* unless the select takes the doneCh that a cancelled watcher has closed as well.
SendOne ==
    /\ loop = "send"
    /\ loop' = Turn /\ todo' = Left
    /\ \/ watch = "open" /\ ch < ChCap /\ ch' = ch + 1 /\ sent' = sent + 1 /\ UNCHANGED panicked
       \/ watch = "open" /\ ch = ChCap /\ UNCHANGED <<ch, sent, panicked>>
       \/ watch = "cancelled" /\ panicked' \in {"no", "send"} /\ UNCHANGED <<ch, sent>>
       \/ watch = "closed" /\ panicked' = "send" /\ UNCHANGED <<ch, sent>>
    /\ UNCHANGED <<monitorKind, state, items, conn, watch>>

terminated == state \in {"closing", "closed"}

\* Mutant: the watchers' channels are left open.
LoopEndOpen ==
    /\ Looping /\ loop = "select" /\ terminated
    /\ loop' = "ended"
    /\ UNCHANGED <<monitorKind, state, todo, items, conn, watch, ch, sent, panicked>>

\* terminateCh is seen: watcherMux.Close() and close(doneCh).
LoopEnd ==
    /\ Looping /\ loop = "select" /\ terminated
    /\ loop' = "ended"
    /\ watch' = IF watch = "open" THEN "closed" ELSE watch
    /\ UNCHANGED <<monitorKind, state, todo, items, conn, ch, sent, panicked>>

\* Close of one that does not run returns an error and changes nothing.
CloseBegin ==
    /\ Looping /\ state = "running"
    /\ state' = "closing"
    /\ conn' = Released
    /\ UNCHANGED <<monitorKind, loop, todo, items, watch, ch, sent, panicked>>

\* doneCh is closed, or five seconds have passed.
CloseEnd ==
    /\ state = "closing"
    /\ state' = "closed"
    /\ UNCHANGED <<monitorKind, loop, todo, items, conn, watch, ch, sent, panicked>>

\* backendSpecList.Close, which has no mutex and no state to check.
SpecListClose ==
    /\ ~Looping
    /\ state' = "closed"
    /\ panicked' = IF state = "closed" THEN "close" ELSE "no"
    /\ watch' = IF watch = "open" THEN "closed" ELSE watch
    /\ UNCHANGED <<monitorKind, loop, todo, items, conn, ch, sent>>

\* The watcher receives.
Receive ==
    /\ ch > 0
    /\ ch' = ch - 1
    /\ UNCHANGED <<monitorKind, state, loop, todo, items, conn, watch, sent, panicked>>

Dispatching == List \/ SendOne
=============================================================================
