----------------------------- MODULE ClusterMux -----------------------------
(***************************************************************************)
(* The cluster multiplexer of internal/adapter/cluster/mux.go on one node. *)
(* Goroutines merge the channels given to Send into one; the send loop     *)
(* takes from it and writes to every peer, dialing where it has no         *)
(* connection; the receive loop reads packets and dispatches them to one   *)
(* watcher.  Close releases cm.mu while it waits for both loops.           *)
(*                                                                         *)
(* The nodes are the ones a test puts in cm.nodes, which no operation      *)
(* fills.  A message is <<source, number>>, a packet its number.           *)
(***************************************************************************)
EXTENDS Naturals, Sequences, FiniteSets

CONSTANTS Nodes, nodeId,
          Sources,   \* channels for Send
          Given,     \* those that may have been given already, by others
          Closers,   \* goroutines that call Close
          ChCap,     \* capacity of the watcher's channel
          MaxIn      \* bound: packets that arrive

ASSUME ClusterMuxAssumption == Given \subseteq Sources /\ IsFiniteSet(Nodes) /\ ChCap \in Nat \ {0} /\ MaxIn \in Nat

VARIABLES
    running, closed, terminated,   \* terminated: terminateCh is closed
    closer,        \* of each: "idle", "waiting" or "returned"
    sendSources,
    sourceClosed,  \* sources whose owner has closed them
    merge,         \* merge goroutine of each source: its place and the message in hand
    sender,        \* the send loop: its place, the message and the peers left
    conns,         \* peers with a connection
    recv,          \* the receive loop: "off", "read", "list", "send" or "ended"
    packets,       \* number of packets read
    watch, rawCh,  \* the watcher: "none", "open", "closed" or "cancelled"; its channel
    panicked,      \* "no", or what panicked: "close" or "send"
    wire,          \* history: messages written to each peer
    opened         \* history: connections dialed and not closed

state == <<running, closed, terminated>>
sending == <<sendSources, sourceClosed, merge, sender, conns, wire, opened>>
receiving == <<recv, packets, watch, rawCh>>
muxVars == <<state, closer, sending, receiving, panicked>>

nothing == <<>>

\* fullyConnectedTopology.NextPeers
NextPeers == Nodes \ {nodeId}

MuxInit ==
    /\ running = FALSE /\ closed = FALSE /\ terminated = FALSE
    /\ closer = [k \in Closers |-> "idle"]
    /\ sendSources \in SUBSET Given /\ sourceClosed = {}
    /\ merge = [s \in Sources |-> [pc |-> "off", msg |-> nothing]]
    /\ sender = [pc |-> "off", msg |-> nothing, peers |-> {}]
    /\ conns = {} /\ opened = 0
    /\ wire = [p \in NextPeers |-> <<>>]
    /\ recv = "off" /\ packets = 0 /\ watch = "none" /\ rawCh = <<>>
    /\ panicked = "no"

(***************************************************************************)
(* Send, Run and Close.                                                    *)
(***************************************************************************)

Accepts == ~running

\* Send; ErrAlreadyRunning changes nothing.
Send(s) == Accepts /\ sendSources' = sendSources \cup {s}

Run ==
    /\ ~running /\ ~closed
    /\ running' = TRUE
    /\ recv' = "read" /\ sender' = [sender EXCEPT !.pc = "start"]
    /\ UNCHANGED <<closed, terminated, closer, sendSources, sourceClosed, merge, conns, wire, opened,
                   packets, watch, rawCh, panicked>>

\* Close; the errors of one that is closed, or does not run, change nothing.
CloseBegin(k) ==
    /\ closer[k] = "idle" /\ running /\ ~closed
    /\ closer' = [closer EXCEPT ![k] = "waiting"]
    /\ terminated' = TRUE
    /\ panicked' = IF terminated THEN "close" ELSE panicked
    /\ UNCHANGED <<running, closed, sending, receiving>>

\* doneCh is closed or five seconds have passed.
CloseEnd(k) ==
    /\ closer[k] = "waiting"
    /\ closer' = [closer EXCEPT ![k] = "returned"]
    /\ running' = FALSE /\ closed' = TRUE
    /\ UNCHANGED <<terminated, sending, receiving, panicked>>

(***************************************************************************)
(* The send loop and its merge goroutines.                                 *)
(***************************************************************************)
SenderStart ==
    /\ sender.pc = "start"
    /\ sender' = [sender EXCEPT !.pc = "select"]
    /\ merge' = [s \in Sources |-> IF s \in sendSources THEN [merge[s] EXCEPT !.pc = "select"] ELSE merge[s]]
    /\ UNCHANGED <<state, closer, sendSources, sourceClosed, conns, wire, opened, receiving, panicked>>

CloseSource(s) ==
    /\ s \notin sourceClosed
    /\ sourceClosed' = sourceClosed \cup {s}
    /\ UNCHANGED <<state, closer, sendSources, merge, sender, conns, wire, opened, receiving, panicked>>

\* The owner of the source sends msg.
MergeTake(s, msg) ==
    /\ merge[s].pc = "select" /\ s \notin sourceClosed
    /\ merge' = [merge EXCEPT ![s] = [pc |-> "offering", msg |-> msg]]
    /\ UNCHANGED <<state, closer, sendSources, sourceClosed, sender, conns, wire, opened, receiving, panicked>>

MergeEnd(s) ==
    /\ \/ terminated /\ merge[s].pc \in {"select", "offering"}
       \/ s \in sourceClosed /\ merge[s].pc = "select"
    /\ merge' = [merge EXCEPT ![s] = [pc |-> "ended", msg |-> nothing]]
    /\ UNCHANGED <<state, closer, sendSources, sourceClosed, sender, conns, wire, opened, receiving, panicked>>

\* Mutant: the merge goroutine offers its message again.
Handed(m) == m
HandedOver(m) == [pc |-> "select", msg |-> nothing]

SenderTake(s) ==
    /\ sender.pc = "select" /\ merge[s].pc = "offering"
    /\ sender' = [pc |-> IF NextPeers = {} THEN "select" ELSE "peers", msg |-> merge[s].msg, peers |-> NextPeers]
    /\ merge' = [merge EXCEPT ![s] = HandedOver(@)]
    /\ UNCHANGED <<state, closer, sendSources, sourceClosed, conns, wire, opened, receiving, panicked>>

\* Mutant: a new connection is used and not stored.
DialedUnstored(p) == conns
Dialed(p) == conns \cup {p}

\* getOrDialConn and Write, either of which may fail.
SenderPeer(p) ==
    /\ sender.pc = "peers" /\ p \in sender.peers
    /\ LET left == sender.peers \ {p}
       IN sender' = [sender EXCEPT !.peers = left, !.pc = IF left = {} THEN "select" ELSE "peers"]
    /\ \/ p \notin conns /\ UNCHANGED <<conns, opened, wire>>
       \/ /\ conns' = Dialed(p)
          /\ opened' = IF p \in conns THEN opened ELSE opened + 1
          /\ \/ wire' = [wire EXCEPT ![p] = Append(@, sender.msg)]
             \/ UNCHANGED wire
    /\ UNCHANGED <<state, closer, sendSources, sourceClosed, merge, receiving, panicked>>

\* merged is closed once every merge goroutine has ended, at once if there are none.
MergedClosed == \A s \in Sources : merge[s].pc \in {"off", "ended"}

SenderEnd ==
    /\ sender.pc = "select" /\ (terminated \/ MergedClosed)
    /\ sender' = [sender EXCEPT !.pc = "ended"]
    /\ conns' = {} /\ opened' = opened - Cardinality(conns)
    /\ UNCHANGED <<state, closer, sendSources, sourceClosed, merge, wire, receiving, panicked>>

SendLoop ==
    \/ SenderStart \/ SenderEnd
    \/ \E s \in Sources : SenderTake(s)
    \/ \E p \in NextPeers : SenderPeer(p)

(***************************************************************************)
(* The receive loop.                                                       *)
(***************************************************************************)

\* A packet is read.  A deadline that passes, or an error, changes nothing.
RecvPacket ==
    /\ recv = "read" /\ packets < MaxIn
    /\ packets' = packets + 1
    /\ recv' = "list"
    /\ UNCHANGED <<state, closer, sending, watch, rawCh, panicked>>

\* terminateCh is closed: listener.Close() and recvMux.Close()
RecvEnd ==
    /\ recv = "read" /\ terminated
    /\ recv' = "ended"
    /\ watch' = IF watch = "open" THEN "closed" ELSE watch
    /\ UNCHANGED <<state, closer, sending, packets, rawCh, panicked>>

RecvList ==
    /\ recv = "list"
    /\ recv' = IF watch = "open" THEN "send" ELSE "read"
    /\ UNCHANGED <<state, closer, sending, packets, watch, rawCh, panicked>>

\* dispatchOne: sent, dropped when the channel is full, or, when the watcher was
\* cancelled in the meantime, skipped or a send on a closed channel.
RecvSend ==
    /\ recv = "send"
    /\ recv' = "read"
    /\ \/ watch = "open" /\ Len(rawCh) < ChCap /\ rawCh' = Append(rawCh, packets) /\ UNCHANGED panicked
       \/ watch = "open" /\ Len(rawCh) = ChCap /\ UNCHANGED <<rawCh, panicked>>
       \/ watch = "cancelled" /\ panicked' \in {panicked, "send"} /\ UNCHANGED rawCh
    /\ UNCHANGED <<state, closer, sending, packets, watch>>

RecvLoop == RecvPacket \/ RecvEnd \/ RecvList \/ RecvSend

done == sender.pc = "ended" /\ recv = "ended"
=============================================================================
