---------------------------- MODULE TypedCluster ----------------------------
(***************************************************************************)
(* The typed cluster of internal/adapter/cluster/typed.go on top of the    *)
(* multiplexer: a goroutine per Send encodes values and hands them to the  *)
(* multiplexer over rawSendCh, and decodeLoop decodes what the multiplexer *)
(* receives.  Send has been called once.  Next to rawSendCh there may be a *)
(* source given to the multiplexer directly, whose owner just closes it.   *)
(***************************************************************************)
EXTENDS ClusterMux

CONSTANTS TypedClosers,  \* goroutines that call the typed cluster's Close
          MaxOut         \* bound: values sent

rawSendCh == "rawSendCh"

\* Nobody else has the channel that New makes.
ASSUME TypedClusterAssumption ==
    /\ rawSendCh \in Sources \ Given
    /\ IsFiniteSet(TypedClosers) /\ IsFiniteSet(Closers)

VARIABLES
    tRunning, tClosed, tTerminated,
    tCloser,   \* of each: "idle", "cancelling", "waiting" or "returned"
    encoder,   \* goroutine of Send: "select", "offering" or "ended"
    out,       \* number of values taken from the channel given to Send
    decoder    \* decodeLoop: "off", "select" or "ended"

typed == <<tRunning, tClosed, tTerminated, tCloser, encoder, out, decoder>>
vars == <<muxVars, typed>>

Init ==
    /\ MuxInit
    /\ tRunning = FALSE /\ tClosed = FALSE /\ tTerminated = FALSE
    /\ tCloser = [k \in TypedClosers |-> "idle"]
    /\ encoder = "select" /\ out = 0
    /\ decoder = "off"

\* raw.Send, raw.Recv and the decode loop; refused while the multiplexer runs.
TypedRun ==
    /\ ~tRunning /\ ~tClosed
    /\ Send(rawSendCh)
    /\ watch' = "open"
    /\ tRunning' = TRUE /\ decoder' = "select"
    /\ UNCHANGED <<state, closer, sourceClosed, merge, sender, conns, wire, opened, recv, packets, rawCh,
                   panicked, tClosed, tTerminated, tCloser, encoder, out>>

(***************************************************************************)
(* Send.                                                                   *)
(***************************************************************************)
\* A value is received and encoded; one that cannot be encoded changes nothing.
EncoderTake ==
    /\ encoder = "select" /\ out < MaxOut
    /\ out' = out + 1
    /\ encoder' = "offering"
    /\ UNCHANGED <<muxVars, tRunning, tClosed, tTerminated, tCloser, decoder>>

\* c.rawSendCh <- buf meets the merge goroutine.
EncoderHand ==
    /\ encoder = "offering"
    /\ MergeTake(rawSendCh, <<rawSendCh, out>>)
    /\ encoder' = "select"
    /\ UNCHANGED <<tRunning, tClosed, tTerminated, tCloser, out, decoder>>

\* Mutant: the goroutine waits for rawSendCh alone.
EncoderEndIdle ==
    /\ encoder = "select" /\ tTerminated
    /\ encoder' = "ended"
    /\ UNCHANGED <<muxVars, tRunning, tClosed, tTerminated, tCloser, out, decoder>>

\* terminateCh, or the channel given to Send, is closed.
EncoderEnd ==
    /\ encoder = "select" \/ (encoder = "offering" /\ tTerminated)
    /\ encoder' = "ended"
    /\ UNCHANGED <<muxVars, tRunning, tClosed, tTerminated, tCloser, out, decoder>>

(***************************************************************************)
(* decodeLoop and Close.                                                   *)
(***************************************************************************)

\* A packet is decoded and dispatched, or skipped if it does not decode.
DecoderTake ==
    /\ decoder = "select" /\ rawCh # <<>>
    /\ rawCh' = Tail(rawCh)
    /\ UNCHANGED <<state, closer, sending, recv, packets, watch, panicked,
                   tRunning, tClosed, tTerminated, tCloser, encoder, out, decoder>>

\* terminateCh or the channel is closed: recvMux.Close() and close(c.doneCh).
DecoderEnd ==
    /\ decoder = "select"
    /\ tTerminated \/ (watch \in {"closed", "cancelled"} /\ rawCh = <<>>)
    /\ decoder' = "ended"
    /\ UNCHANGED <<muxVars, tRunning, tClosed, tTerminated, tCloser, encoder, out>>

TypedCloseBegin(k) ==
    /\ tCloser[k] = "idle" /\ tRunning /\ ~tClosed
    /\ tCloser' = [tCloser EXCEPT ![k] = "cancelling"]
    /\ tTerminated' = TRUE
    /\ panicked' = IF tTerminated THEN "close" ELSE panicked
    /\ UNCHANGED <<state, closer, sending, receiving, tRunning, tClosed, encoder, out, decoder>>

\* rawRecvCancel, with the lock released; twice it would close doneCh twice.
TypedCancel(k) ==
    /\ tCloser[k] = "cancelling"
    /\ tCloser' = [tCloser EXCEPT ![k] = "waiting"]
    /\ watch' = "cancelled"
    /\ panicked' = IF watch = "cancelled" THEN "close" ELSE panicked
    /\ UNCHANGED <<state, closer, sending, recv, packets, rawCh, tRunning, tClosed, tTerminated,
                   encoder, out, decoder>>

\* Mutant: closed is not set.
TypedCloseEndOpen(k) ==
    /\ tCloser[k] = "waiting"
    /\ tCloser' = [tCloser EXCEPT ![k] = "returned"]
    /\ UNCHANGED <<muxVars, tRunning, tClosed, tTerminated, encoder, out, decoder>>

TypedCloseEnd(k) ==
    /\ tCloser[k] = "waiting"
    /\ tCloser' = [tCloser EXCEPT ![k] = "returned"]
    /\ tRunning' = FALSE /\ tClosed' = TRUE
    /\ UNCHANGED <<muxVars, tTerminated, encoder, out, decoder>>

MuxStep ==
    /\ \/ Run \/ SendLoop \/ RecvLoop
       \/ \E s \in Given : CloseSource(s)
       \/ \E s \in Sources : MergeEnd(s)
       \/ \E k \in Closers : CloseBegin(k) \/ CloseEnd(k)
    /\ UNCHANGED typed

Next ==
    /\ panicked = "no"
    /\ \/ MuxStep
       \/ TypedRun \/ EncoderTake \/ EncoderHand \/ EncoderEnd
       \/ DecoderTake \/ DecoderEnd
       \/ \E k \in TypedClosers : TypedCloseBegin(k) \/ TypedCancel(k) \/ TypedCloseEnd(k)

\* Goroutines that can run do, and timers fire.  Nobody has to send, run or
\* close anything.
Fairness ==
    /\ WF_vars(SendLoop /\ UNCHANGED typed)
    /\ WF_vars(RecvEnd /\ UNCHANGED typed) /\ WF_vars((RecvList \/ RecvSend) /\ UNCHANGED typed)
    /\ \A s \in Sources : WF_vars(MergeEnd(s) /\ UNCHANGED typed)
    /\ WF_vars(EncoderHand) /\ WF_vars(tTerminated /\ EncoderEnd)
    /\ WF_vars(DecoderTake \/ DecoderEnd)
    /\ \A k \in Closers : WF_vars(CloseEnd(k) /\ UNCHANGED typed)
    /\ \A k \in TypedClosers : WF_vars(TypedCancel(k)) /\ WF_vars(TypedCloseEnd(k))

Spec == Init /\ [][Next]_vars /\ Fairness

(***************************************************************************)
(* Properties.                                                             *)
(***************************************************************************)

(* Close releases the lock before it marks the cluster closed, so a second *)
(* Close in that window closes terminateCh twice; and a packet may be on   *)
(* its way to the watcher that Close cancels.  Nothing else panics: a      *)
(* Close after the first one returned is refused, in either cluster.       *)
PanicsNeedOverlap ==
    /\ panicked = "close" => \/ Cardinality({k \in Closers : closer[k] = "waiting"}) > 1
                             \/ Cardinality({k \in TypedClosers : tCloser[k] \in {"cancelling", "waiting"}}) > 1
    /\ panicked = "send" => \E k \in TypedClosers : tCloser[k] \in {"waiting", "returned"}

(* Every connection that was dialed is closed when the send loop ends,     *)
(* whether Close, or the last source being closed, ended it.               *)
ConnectionsReleased == sender.pc = "ended" => opened = 0

(* A peer is sent the messages of one source in order and none twice,      *)
(* through the merge goroutines and whatever dials and writes fail.        *)
SentInOrder ==
    \A p \in NextPeers : \A i, j \in DOMAIN wire[p] :
        (i < j /\ wire[p][i][1] = wire[p][j][1]) => wire[p][i][2] < wire[p][j][2]

(* A typed cluster that runs is served by the send loop, as its channel    *)
(* was there before the multiplexer took the sources; unless it was run on *)
(* a multiplexer already closed, which Send does not refuse.               *)
TypedIsServed ==
    (tRunning /\ ~closed /\ sender.pc \notin {"off", "start"}) => merge[rawSendCh].pc # "off"

(* Closing the multiplexer ends everything that depends on it: both loops  *)
(* and the merge goroutines, and through the channel it closes also the    *)
(* decode loop of a typed cluster that nobody closes, unless it was run    *)
(* afterwards and watches in vain.  Closing the typed cluster ends its     *)
(* goroutines, whatever they wait for.                                     *)
CloseEndsLoops ==
    /\ terminated ~> \/ panicked # "no"
                     \/ done /\ MergedClosed /\ (decoder = "select" => watch = "open")
    /\ tTerminated ~> (panicked # "no" \/ (decoder = "ended" /\ encoder = "ended"))
=============================================================================
