-------------------------------- MODULE Dvds --------------------------------
(***************************************************************************)
(* The distributed data structure of internal/controller/dvds/dvds.go on   *)
(* top of the write-ahead log: it watches a log of commands and a log of   *)
(* snapshots, applies both to a state machine, here the hashmap, and       *)
(* dispatches the new state.                                               *)
(*                                                                         *)
(* The log of commands is Wal.  The log of snapshots is another wal, of    *)
(* which only what its watcher sees is modelled: snapshots in its channel, *)
(* until it is closed.  A snapshot is the state after some prefix of the   *)
(* accepted commands, as a peer that lags behind may have it.              *)
(*                                                                         *)
(* Run and Close hold ds.mu as those of the log hold w.mu; the watchers of *)
(* the data structure itself are WatcherMux' subject.                      *)
(***************************************************************************)
EXTENDS Wal, Containers

CONSTANTS NKeys,        \* number of keys; two entries in a row are for the same
          MaxSnapshots  \* bound: snapshots that arrive

ASSUME DvdsAssumption == NKeys \in Nat \ {0} /\ MaxSnapshots \in Nat

VARIABLES
    dvState,     \* "new", "running", "closing" or "closed", as walState
    dvLoop,      \* the event loop: "off", "select" or "ended"
    snapCh,      \* channel of the snapshot watcher
    snapOpen,    \* FALSE once the snapshot log has closed it
    state,       \* the state machine
    snapshots,   \* history: number of snapshots sent
    executed,    \* history: commands executed, in order
    decoded      \* history: a snapshot was applied

dv == <<dvState, dvLoop, snapCh, snapOpen, state, snapshots, executed, decoded>>
dvVars == <<vars, walVars, dv>>

Keys == 0 .. NKeys - 1
KeyOf(v) == (v \div 2) % NKeys
Empty == [k \in {} |-> 0]

DvInit ==
    /\ WalInit
    /\ dvState = "new" /\ dvLoop = "off"
    /\ snapCh = <<>> /\ snapOpen = TRUE /\ snapshots = 0
    /\ state = Empty /\ executed = <<>> /\ decoded = FALSE

\* The errors of Execute are ignored.
Execute(st, v) == hashmapExecute(st, "put", [k |-> KeyOf(v), v |-> v]).state

\* The state after the first p accepted commands.
StateAt(p) ==
    LET after[i \in 0 .. p] == IF i = 0 THEN Empty ELSE Execute(after[i - 1], accepted[i])
    IN after[p]

SendSnapshot ==
    /\ snapOpen /\ snapshots < MaxSnapshots /\ dvState # "new"
    /\ \E p \in 1 .. Len(accepted) : snapCh' = Append(snapCh, StateAt(p))
    /\ snapshots' = snapshots + 1
    /\ UNCHANGED <<vars, walVars, dvState, dvLoop, snapOpen, state, executed, decoded>>

CloseSnapshotLog ==
    /\ snapOpen
    /\ snapOpen' = FALSE
    /\ UNCHANGED <<vars, walVars, dvState, dvLoop, snapCh, state, snapshots, executed, decoded>>

\* Run watches both logs and starts the event loop.  A watcher that comes after
\* the log was closed is never served and never closed.
RunDvds ==
    /\ dvState = "new"
    /\ dvState' = "running" /\ dvLoop' = "select"
    /\ watch' = "open"
    /\ UNCHANGED <<vars, list, walState, reader, loop, cmdCh, accepted, dropped, crashed,
                   snapCh, snapOpen, state, snapshots, executed, decoded>>

LoopCommand ==
    /\ dvLoop = "select" /\ cmdCh # <<>>
    /\ cmdCh' = Tail(cmdCh)
    /\ state' = Execute(state, Head(cmdCh))
    /\ executed' = Append(executed, Head(cmdCh))
    /\ UNCHANGED <<vars, list, walState, reader, loop, watch, accepted, dropped, crashed,
                   dvState, dvLoop, snapCh, snapOpen, snapshots, decoded>>

LoopSnapshot ==
    /\ dvLoop = "select" /\ snapCh # <<>>
    /\ snapCh' = Tail(snapCh)
    /\ state' = hashmapDecode(state, Head(snapCh))
    /\ decoded' = TRUE
    /\ UNCHANGED <<vars, walVars, dvState, dvLoop, snapOpen, snapshots, executed>>

\* terminateCh, or either channel, is closed.
ShouldTerminate ==
    \/ dvState \in {"closing", "closed"}
    \/ watch = "closed" /\ cmdCh = <<>>
    \/ ~snapOpen /\ snapCh = <<>>

\* cmdCancel, snapCancel, watcherMux.Close and close(ds.doneCh).
LoopEnd ==
    /\ dvLoop = "select" /\ ShouldTerminate
    /\ dvLoop' = "ended"
    /\ watch' = IF watch = "open" THEN "cancelled" ELSE watch
    /\ UNCHANGED <<vars, list, walState, reader, loop, cmdCh, accepted, dropped, crashed,
                   dvState, snapCh, snapOpen, state, snapshots, executed, decoded>>

CloseDvdsBegin ==
    /\ dvState = "running"
    /\ dvState' = "closing"
    /\ UNCHANGED <<vars, walVars, dvLoop, snapCh, snapOpen, state, snapshots, executed, decoded>>

\* doneCh is closed or five seconds have passed.
CloseDvdsEnd ==
    /\ dvState = "closing"
    /\ dvState' = "closed"
    /\ UNCHANGED <<vars, walVars, dvLoop, snapCh, snapOpen, state, snapshots, executed, decoded>>

DvLoop == LoopCommand \/ LoopSnapshot \/ LoopEnd

DvNext ==
    /\ ~crashed /\ ~Panicked
    /\ \/ WalNext /\ UNCHANGED dv
       \/ SendSnapshot \/ CloseSnapshotLog
       \/ RunDvds \/ CloseDvdsBegin \/ CloseDvdsEnd \/ DvLoop

\* Goroutines that can run do; a select that finds terminateCh closed again and
\* again takes it.  Nobody has to propose, run or close anything.
DvFairness ==
    /\ WF_dvVars(ReaderNext /\ UNCHANGED dv) /\ WF_dvVars(ReaderReturns /\ UNCHANGED dv)
    /\ WF_dvVars(WalLoop /\ UNCHANGED dv) /\ SF_dvVars(LoopTerminate /\ UNCHANGED dv)
    /\ WF_dvVars(DvLoop) /\ SF_dvVars(LoopEnd) /\ SF_dvVars(LoopCommand)
    /\ WF_dvVars(CloseWalEnd /\ UNCHANGED dv) /\ WF_dvVars(CloseDvdsEnd)

DvSpec == DvInit /\ [][DvNext]_dvVars /\ DvFairness

(***************************************************************************)
(* Properties.                                                             *)
(***************************************************************************)

(* Until a snapshot is applied, the value of a key is the newest command   *)
(* executed for it, whatever the ring buffer overwrote and the dispatch    *)
(* dropped on the way: no older proposal overtakes a newer one.  (A        *)
(* snapshot is merged as it comes, older than the state or newer.)         *)
NewestWins ==
    ~decoded =>
        \A k \in Keys :
            LET mine == {v \in {executed[i] : i \in DOMAIN executed} : KeyOf(v) = k}
            IN /\ k \in DOMAIN state <=> mine # {}
               /\ \A v \in mine : v <= state[k]

(* A proposal reaches the state machine: the last one, which nothing can   *)
(* overwrite, is executed once both event loops run, unless its dispatch   *)
(* was dropped, someone closes a log or the data structure, or the process *)
(* dies.                                                                   *)
LastProposalExecuted ==
    (/\ walState = "running" /\ dvState = "running"
     /\ written = MaxWrites /\ \A i \in DOMAIN accepted : accepted[i] # MaxWrites)
        ~> \/ \E i \in DOMAIN executed : executed[i] = MaxWrites
           \/ dropped /\ \E i \in DOMAIN accepted : accepted[i] = MaxWrites
           \/ crashed \/ Panicked
           \/ terminated \/ dvState # "running" \/ ~snapOpen
=============================================================================
