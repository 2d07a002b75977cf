-------------------------------- MODULE Wal --------------------------------
(***************************************************************************)
(* The write-ahead log of internal/adapter/wal/wal.go: Propose writes to   *)
(* the ring buffer, a reader goroutine takes entries from it and offers    *)
(* them on proposalCh, and the event loop appends them to the linked list  *)
(* and dispatches them to the watcher.                                     *)
(*                                                                         *)
(* An entry is its number in the order of the calls of Propose.  The       *)
(* multiplexer serves one watcher; WatcherMux models several.  Run and     *)
(* Close hold w.mu, Close until it returns, so walState is all a caller    *)
(* can tell: "new", "running", "closing" (terminateCh closed, Close waits) *)
(* or "closed".                                                            *)
(***************************************************************************)
EXTENDS RingBuffer

CONSTANTS capacity,   \* of the linked list
          ChCap       \* of the watcher's channel

ASSUME WalAssumption == Cardinality(Readers) = 1 /\ capacity \in Nat /\ ChCap \in Nat \ {0}

VARIABLES
    nodes, head, tail, length,   \* w.linkedList
    walState,
    reader,      \* the reader goroutine: "off", "next", "offering" or "returned"
    loop,        \* the event loop: "off", "select", "list", "send" or "ended"
    watch,       \* the watcher: "none", "open", "closed" (by the log) or "cancelled"
    cmdCh,       \* its channel
    accepted,    \* history: entries appended to the list
    dropped,     \* history: a dispatch was dropped
    crashed      \* history: a send on a closed channel

list == <<nodes, head, tail, length>>
walVars == <<list, walState, reader, loop, watch, cmdCh, accepted, dropped, crashed>>

List == INSTANCE LinkedList

terminated == walState \in {"closing", "closed"}

WalInit ==
    /\ Init
    /\ List!ListInit
    /\ walState = "new" /\ reader = "off" /\ loop = "off"
    /\ watch = "none" /\ cmdCh = <<>>
    /\ accepted = <<>> /\ dropped = FALSE /\ crashed = FALSE

\* Propose returns nil in every state of the log, also before Run and after Close.
Propose == Write /\ UNCHANGED walVars

RunWal ==
    /\ walState = "new"
    /\ walState' = "running" /\ reader' = "next" /\ loop' = "select"
    /\ UNCHANGED <<vars, list, watch, cmdCh, accepted, dropped, crashed>>

\* Mutant: the reader goroutine does not wait for the event loop.
ReaderNextAhead ==
    /\ reader \in {"next", "offering"}
    /\ \E r \in Readers :
        \/ TakeToken(r) /\ UNCHANGED reader
        \/ ReadSlot(r) /\ reader' = IF buf[readIdx] = nil THEN "next" ELSE "offering"
    /\ UNCHANGED <<list, walState, loop, watch, cmdCh, accepted, dropped, crashed>>

\* proposalBuffer.Next() in the reader goroutine, which nothing interrupts.
ReaderNext ==
    /\ reader = "next"
    /\ \E r \in Readers :
        \/ TakeToken(r) /\ UNCHANGED reader
        \/ ReadSlot(r) /\ reader' = IF buf[readIdx] = nil THEN "next" ELSE "offering"
    /\ UNCHANGED <<list, walState, loop, watch, cmdCh, accepted, dropped, crashed>>

ReaderReturns ==
    /\ reader = "offering" /\ terminated
    /\ reader' = "returned"
    /\ UNCHANGED <<vars, list, walState, loop, watch, cmdCh, accepted, dropped, crashed>>

\* The entry goes over proposalCh and into the list.
LoopAccept ==
    /\ loop = "select" /\ reader = "offering"
    /\ List!ListAppend(delivered[Len(delivered)])
    /\ accepted' = Append(accepted, delivered[Len(delivered)])
    /\ reader' = "next" /\ loop' = "list"
    /\ UNCHANGED <<vars, walState, watch, cmdCh, dropped, crashed>>

\* Mutant: nothing is dispatched from a full list.
LoopListSkips ==
    /\ loop = "list"
    /\ loop' = IF watch = "open" /\ length < capacity THEN "send" ELSE "select"
    /\ UNCHANGED <<vars, list, walState, reader, watch, cmdCh, accepted, dropped, crashed>>

\* Dispatch: take the list of watchers ...
LoopList ==
    /\ loop = "list"
    /\ loop' = IF watch = "open" THEN "send" ELSE "select"
    /\ UNCHANGED <<vars, list, walState, reader, watch, cmdCh, accepted, dropped, crashed>>

\* ... and send, with a timeout.  A watcher cancelled in between has closed both
\* channels of the select, which may take either.
LoopSend ==
    /\ loop = "send"
    /\ loop' = "select"
    /\ \/ /\ watch = "open" /\ Len(cmdCh) < ChCap
          /\ cmdCh' = Append(cmdCh, accepted[Len(accepted)])
          /\ UNCHANGED <<dropped, crashed>>
       \/ watch = "open" /\ Len(cmdCh) = ChCap /\ dropped' = TRUE /\ UNCHANGED <<cmdCh, crashed>>
       \/ watch = "cancelled" /\ crashed' \in BOOLEAN /\ UNCHANGED <<cmdCh, dropped>>
    /\ UNCHANGED <<vars, list, walState, reader, watch, accepted>>

\* terminateCh is seen: watcherMux.Close() and close(w.doneCh).
LoopTerminate ==
    /\ loop = "select" /\ terminated
    /\ loop' = "ended"
    /\ watch' = IF watch = "open" THEN "closed" ELSE watch
    /\ UNCHANGED <<vars, list, walState, reader, cmdCh, accepted, dropped, crashed>>

CloseWalBegin ==
    /\ walState = "running"
    /\ walState' = "closing"
    /\ UNCHANGED <<vars, list, reader, loop, watch, cmdCh, accepted, dropped, crashed>>

\* doneCh is closed or five seconds have passed.
CloseWalEnd ==
    /\ walState = "closing"
    /\ walState' = "closed"
    /\ UNCHANGED <<vars, list, reader, loop, watch, cmdCh, accepted, dropped, crashed>>

WalLoop == LoopAccept \/ LoopList \/ LoopSend \/ LoopTerminate

WalNext ==
    \/ Propose \/ RunWal \/ CloseWalBegin \/ CloseWalEnd
    \/ ReaderNext \/ ReaderReturns \/ WalLoop

(***************************************************************************)
(* Properties.                                                             *)
(***************************************************************************)

(* The list holds the newest entries the log accepted, as many as its      *)
(* capacity allows and in the order of the proposals, after any number of  *)
(* evictions: what a reader walking from Head along Next meets.            *)
LogIsNewest ==
    LET kept == IF capacity = 0 \/ Len(accepted) <= capacity THEN Len(accepted) ELSE capacity
    IN /\ List!Forward = SubSeq(accepted, Len(accepted) - kept + 1, Len(accepted))
       /\ length = kept

(* The log stands between the ring buffer and its watchers without losing  *)
(* or repeating: what the reader took is what was accepted, except for one *)
(* entry, in the reader's hand or dropped there at termination.            *)
NothingLostInHand ==
    /\ Len(delivered) - Len(accepted) = (IF reader \in {"offering", "returned"} THEN 1 ELSE 0)
    /\ accepted = SubSeq(delivered, 1, Len(accepted))
=============================================================================
