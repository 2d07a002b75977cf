-------------------------- MODULE TypedClusterProofs --------------------------
(***************************************************************************)
(* For every set of nodes, sources and goroutines that call Close, and for *)
(* any number of messages: what the panics of the two clusters need, that  *)
(* no connection is left open, the order of what is sent, and that a typed *)
(* cluster that runs is served.                                            *)
(*                                                                         *)
(* The argument.  At most one goroutine gets into the Close of the typed   *)
(* cluster before one panics, as terminateCh is closed once.  A message    *)
(* moves from the encoder to the merge goroutine, the send loop and the    *)
(* peers, each of which holds one at a time; so what was sent to a peer is *)
(* older than what the stages before it hold.                              *)
(***************************************************************************)
EXTENDS TypedCluster, FiniteSetTheorems, TLAPS

Msgs == {rawSendCh} \X Nat

TypeInv ==
    /\ closer \in [Closers -> {"idle", "waiting", "returned"}]
    /\ tCloser \in [TypedClosers -> {"idle", "cancelling", "waiting", "returned"}]
    /\ merge \in [Sources -> [pc : {"off", "select", "offering", "ended"}, msg : Msgs \cup {nothing}]]
    /\ sender \in [pc : {"off", "start", "select", "peers", "ended"}, msg : Msgs \cup {nothing},
                   peers : SUBSET NextPeers]
    /\ wire \in [NextPeers -> Seq(Msgs)]
    /\ out \in Nat
    /\ panicked \in {"no", "close", "send"}

\* terminateCh is closed by whoever is in Close, and closed is set by whoever leaves it.
CloseInv ==
    /\ terminated => \E k \in Closers : closer[k] # "idle"
    /\ \A k \in Closers : closer[k] = "returned" => closed
    /\ tTerminated <=> \E k \in TypedClosers : tCloser[k] # "idle"
    /\ \A k \in TypedClosers : tCloser[k] = "returned" => tClosed
    /\ watch = "cancelled" => \E k \in TypedClosers : tCloser[k] \in {"waiting", "returned"}
    /\ panicked = "no" => \A j, k \in TypedClosers : tCloser[j] # "idle" /\ tCloser[k] # "idle" => j = k

\* Send is refused while the multiplexer runs.
ServedInv ==
    /\ sender.pc # "off" => running \/ closed
    /\ (tRunning /\ ~closed) => rawSendCh \in sendSources
    /\ (rawSendCh \in sendSources /\ ~closed /\ sender.pc \notin {"off", "start"}) => merge[rawSendCh].pc # "off"

ConnInv ==
    /\ conns \subseteq NextPeers
    /\ opened = Cardinality(conns)
    /\ sender.pc = "ended" => conns = {}

\* The last message that the stages before the merge goroutine have let go, that the
\* merge goroutine has, and that peer p can have been sent.
Encoded == IF encoder = "offering" THEN out - 1 ELSE out
Merged == IF merge[rawSendCh].pc = "offering" THEN merge[rawSendCh].msg[2] - 1 ELSE Encoded
Sent(p) ==
    IF sender.pc = "peers" THEN IF p \in sender.peers THEN sender.msg[2] - 1 ELSE sender.msg[2] ELSE Merged

OrderInv ==
    /\ encoder = "offering" => out > 0
    /\ \A s \in Sources : merge[s].pc = "offering" => s = rawSendCh /\ merge[s].msg \in Msgs
    /\ sender.pc = "peers" => sender.msg \in Msgs
    /\ merge[rawSendCh].pc = "offering" => merge[rawSendCh].msg[2] <= Encoded
    /\ sender.pc = "peers" => sender.msg[2] <= Merged
    /\ \A p \in NextPeers : \A i \in DOMAIN wire[p] : wire[p][i][2] <= Sent(p)
    /\ SentInOrder

IInv == TypeInv /\ CloseInv /\ ServedInv /\ ConnInv /\ OrderInv /\ PanicsNeedOverlap

LEMMA InitIInv == Init => IInv
  <1> SUFFICES ASSUME Init PROVE IInv
    OBVIOUS
  <1>1. TypeInv
    BY DEF Init, MuxInit, TypeInv, nothing
  <1>2. CloseInv /\ ServedInv /\ PanicsNeedOverlap
    BY TypedClusterAssumption DEF Init, MuxInit, CloseInv, ServedInv, PanicsNeedOverlap
  <1>3. ConnInv
    BY FS_EmptySet DEF Init, MuxInit, ConnInv
  <1>4. OrderInv
    <2>1. \A p \in NextPeers : DOMAIN wire[p] = {}
      BY DEF Init, MuxInit
    <2> QED
      BY <2>1, TypedClusterAssumption DEF Init, MuxInit, OrderInv, SentInOrder
  <1> QED
    BY <1>1, <1>2, <1>3, <1>4 DEF IInv

(***************************************************************************)
(* What each part of the invariant mentions: a step that leaves that alone *)
(* preserves the part.                                                     *)
(***************************************************************************)
closeVars == <<closed, terminated, closer, watch, panicked, tClosed, tTerminated, tCloser>>
servedVars == <<running, closed, tRunning, sendSources, merge, sender>>
connVars == <<conns, opened, sender>>
orderVars == <<encoder, out, merge, sender, wire>>

LEMMA CloseFrame == CloseInv /\ PanicsNeedOverlap /\ UNCHANGED closeVars => CloseInv' /\ PanicsNeedOverlap'
  BY DEF CloseInv, PanicsNeedOverlap, closeVars

LEMMA ServedFrame == ServedInv /\ UNCHANGED servedVars => ServedInv'
  BY DEF ServedInv, servedVars

LEMMA ConnFrame == ConnInv /\ UNCHANGED connVars => ConnInv'
  BY DEF ConnInv, connVars, NextPeers

LEMMA OrderFrame == OrderInv /\ UNCHANGED orderVars => OrderInv'
  <1> SUFFICES ASSUME OrderInv, UNCHANGED orderVars PROVE OrderInv'
    OBVIOUS
  <1>1. UNCHANGED <<encoder, out, merge, sender, wire>>
    BY DEF orderVars
  <1>2. Encoded' = Encoded /\ Merged' = Merged
    BY <1>1 DEF Merged, Encoded
  <1>3. ASSUME NEW p PROVE Sent(p)' = Sent(p)
    BY <1>1, <1>2 DEF Sent
  <1>4. SentInOrder' /\ NextPeers' = NextPeers
    BY <1>1, Zenon DEF OrderInv, SentInOrder, NextPeers
  <1> QED
    BY <1>1, <1>2, <1>3, <1>4 DEF OrderInv

\* The goroutines that touch none of it but the watcher.
LEMMA RecvIInv == IInv /\ panicked = "no" /\ RecvLoop /\ UNCHANGED typed => IInv'
  <1> SUFFICES ASSUME IInv, panicked = "no", RecvLoop, UNCHANGED typed PROVE IInv'
    OBVIOUS
  <1> USE DEF state, sending, typed
  <1>0. UNCHANGED <<closed, terminated, closer, tClosed, tTerminated, tCloser>>
        /\ (watch' = watch \/ watch' = "closed")
        /\ (panicked' = panicked \/ (watch = "cancelled" /\ panicked' = "send"))
    BY DEF RecvLoop, RecvPacket, RecvEnd, RecvList, RecvSend
  <1>1. TypeInv'
    BY Zenon DEF IInv, TypeInv, RecvLoop, RecvPacket, RecvEnd, RecvList, RecvSend, NextPeers
  <1>2. CloseInv' /\ PanicsNeedOverlap'
    BY <1>0 DEF IInv, CloseInv, PanicsNeedOverlap
  <1>3. ServedInv' /\ ConnInv' /\ OrderInv'
    <2>1. UNCHANGED servedVars /\ UNCHANGED connVars /\ UNCHANGED orderVars
      BY DEF RecvLoop, RecvPacket, RecvEnd, RecvList, RecvSend, servedVars, connVars, orderVars
    <2> QED
      BY <2>1, ServedFrame, ConnFrame, OrderFrame DEF IInv
  <1> QED
    BY <1>1, <1>2, <1>3 DEF IInv

LEMMA DecoderIInv == IInv /\ (DecoderTake \/ DecoderEnd) => IInv'
  <1> SUFFICES ASSUME IInv, DecoderTake \/ DecoderEnd PROVE IInv'
    BY Zenon
  <1>1. /\ UNCHANGED closeVars /\ UNCHANGED servedVars /\ UNCHANGED connVars /\ UNCHANGED orderVars
        /\ TypeInv'
    BY Zenon DEF DecoderTake, DecoderEnd, muxVars, state, sending, receiving, closeVars, servedVars, connVars, orderVars,
           IInv, TypeInv, NextPeers
  <1> QED
    BY <1>1, CloseFrame, ServedFrame, ConnFrame, OrderFrame DEF IInv

(***************************************************************************)
(* Run and Close of the multiplexer.                                       *)
(***************************************************************************)
LEMMA RunIInv == IInv /\ Run /\ UNCHANGED typed => IInv'
  <1> SUFFICES ASSUME IInv, Run, UNCHANGED typed PROVE IInv'
    OBVIOUS
  <1>0. /\ UNCHANGED <<closed, terminated, closer, sendSources, merge, conns, wire, opened, watch, panicked,
                       tRunning, tClosed, tTerminated, tCloser, encoder, out>>
        /\ running' = TRUE /\ ~closed /\ ~running
        /\ sender' = [sender EXCEPT !.pc = "start"] /\ sender.pc = "off"
    BY DEF IInv, ServedInv, Run, typed
  <1>1. TypeInv'
    BY <1>0, Zenon DEF IInv, TypeInv, NextPeers
  <1>p. sender'.pc = "start"
    BY <1>0 DEF IInv, TypeInv
  <1>2. CloseInv' /\ PanicsNeedOverlap'
    BY <1>0, CloseFrame DEF IInv, closeVars
  <1>3. ServedInv' /\ ConnInv'
    BY <1>0, <1>p DEF IInv, ServedInv, ConnInv, NextPeers
  <1>4. OrderInv'
    <2>1. Encoded' = Encoded /\ Merged' = Merged /\ \A p : Sent(p) = Merged /\ Sent(p)' = Merged
      BY <1>0, <1>p DEF Encoded, Merged, Sent
    <2> QED
      BY <1>0, <1>p, <2>1, Zenon DEF IInv, OrderInv, SentInOrder, NextPeers
  <1> QED
    BY <1>1, <1>2, <1>3, <1>4 DEF IInv

LEMMA TwoMembers ==
  ASSUME NEW S, IsFiniteSet(S), NEW a \in S, NEW b \in S, a # b
  PROVE  Cardinality(S) > 1
  <1>1. /\ IsFiniteSet(S \ {a}) /\ Cardinality(S \ {a}) = Cardinality(S) - 1
        /\ Cardinality(S) \in Nat
    BY FS_RemoveElement, FS_CardinalityType
  <1>2. Cardinality(S \ {a}) \in Nat /\ Cardinality(S \ {a}) # 0
    <2>1. S \ {a} # {}
      OBVIOUS
    <2> QED
      BY <1>1, <2>1, FS_CardinalityType, FS_EmptySet, Zenon
  <1> QED
    BY <1>1, <1>2

LEMMA CloseBeginIInv ==
  ASSUME NEW k \in Closers
  PROVE  IInv /\ panicked = "no" /\ CloseBegin(k) /\ UNCHANGED typed => IInv'
  <1> SUFFICES ASSUME IInv, panicked = "no", CloseBegin(k), UNCHANGED typed PROVE IInv'
    BY Zenon
  <1>0. /\ closer[k] = "idle" /\ ~closed
        /\ closer' = [closer EXCEPT ![k] = "waiting"] /\ terminated' = TRUE
        /\ panicked' = IF terminated THEN "close" ELSE panicked
        /\ UNCHANGED <<closed, watch, tClosed, tTerminated, tCloser>>
        /\ UNCHANGED servedVars /\ UNCHANGED connVars /\ UNCHANGED orderVars
    BY DEF CloseBegin, typed, sending, receiving, servedVars, connVars, orderVars
  <1>1. TypeInv' /\ closer'[k] = "waiting" /\ \A j \in Closers \ {k} : closer'[j] = closer[j]
    BY <1>0 DEF IInv, TypeInv, orderVars, NextPeers
  <1>2. CloseInv'
    <2>1. \A j \in Closers : closer'[j] = "returned" => closed'
      BY <1>0, <1>1, Zenon DEF IInv, CloseInv
    <2>2. panicked' = "no" => panicked = "no"
      BY <1>0, Zenon
    <2> QED
      BY <1>0, <1>1, <2>1, <2>2, Zenon DEF IInv, CloseInv
  <1>3. PanicsNeedOverlap'
    <2>1. CASE terminated
      <3> DEFINE W == {j \in Closers : closer'[j] = "waiting"}
      <3>1. PICK j \in Closers : closer[j] # "idle"
        BY <2>1, Zenon DEF IInv, CloseInv
      <3>2. closer[j] = "waiting" /\ j # k
        BY <1>0, <3>1, Zenon DEF IInv, TypeInv, CloseInv
      <3>3. IsFiniteSet(W) /\ j \in W /\ k \in W
        BY <1>1, <3>2, TypedClusterAssumption, FS_Subset, Zenon
      <3>4. Cardinality(W) > 1
        BY <3>2, <3>3, TwoMembers, Zenon
      <3> QED
        BY <1>0, <2>1, <3>4 DEF PanicsNeedOverlap
    <2>2. CASE ~terminated
      BY <1>0, <2>2 DEF PanicsNeedOverlap
    <2> QED
      BY <2>1, <2>2
  <1> QED
    BY <1>0, <1>1, <1>2, <1>3, ServedFrame, ConnFrame, OrderFrame DEF IInv

LEMMA CloseEndIInv ==
  ASSUME NEW k \in Closers
  PROVE  IInv /\ panicked = "no" /\ CloseEnd(k) /\ UNCHANGED typed => IInv'
  <1> SUFFICES ASSUME IInv, panicked = "no", CloseEnd(k), UNCHANGED typed PROVE IInv'
    OBVIOUS
  <1>0. /\ closer' = [closer EXCEPT ![k] = "returned"] /\ closed' = TRUE
        /\ UNCHANGED <<terminated, sender, watch, panicked, tClosed, tTerminated, tCloser>>
        /\ UNCHANGED connVars /\ UNCHANGED orderVars
    BY DEF CloseEnd, typed, sending, receiving, connVars, orderVars
  <1>1. TypeInv' /\ closer'[k] = "returned" /\ \A j \in Closers \ {k} : closer'[j] = closer[j]
    BY <1>0, Zenon DEF IInv, TypeInv, orderVars, NextPeers
  <1>2. CloseInv' /\ PanicsNeedOverlap'
    BY <1>0, <1>1, Zenon DEF IInv, CloseInv, PanicsNeedOverlap
  <1>3. ServedInv'
    BY <1>0, Zenon DEF IInv, ServedInv
  <1> QED
    BY <1>0, <1>1, <1>2, <1>3, ConnFrame, OrderFrame, Zenon DEF IInv

(***************************************************************************)
(* Run and Close of the typed cluster.                                     *)
(***************************************************************************)
LEMMA TypedRunIInv == IInv /\ panicked = "no" /\ TypedRun => IInv'
  <1> SUFFICES ASSUME IInv, panicked = "no", TypedRun PROVE IInv'
    BY Zenon
  <1>0. /\ ~running /\ sendSources' = sendSources \cup {rawSendCh} /\ watch' = "open"
        /\ UNCHANGED <<running, closed, terminated, closer, merge, sender, panicked, tClosed, tTerminated, tCloser>>
        /\ UNCHANGED connVars /\ UNCHANGED orderVars
    BY DEF TypedRun, Send, Accepts, state, connVars, orderVars
  <1>1. TypeInv'
    BY <1>0, Zenon DEF IInv, TypeInv, orderVars, NextPeers
  <1>2. CloseInv' /\ PanicsNeedOverlap'
    BY <1>0, Zenon DEF IInv, CloseInv, PanicsNeedOverlap
  <1>3. ServedInv'
    BY <1>0, Zenon DEF IInv, ServedInv
  <1> QED
    BY <1>0, <1>1, <1>2, <1>3, ConnFrame, OrderFrame DEF IInv

LEMMA TypedCloseBeginIInv ==
  ASSUME NEW k \in TypedClosers
  PROVE  IInv /\ panicked = "no" /\ TypedCloseBegin(k) => IInv'
  <1> SUFFICES ASSUME IInv, panicked = "no", TypedCloseBegin(k) PROVE IInv'
    BY Zenon
  <1>0. /\ tCloser[k] = "idle" /\ ~tClosed
        /\ tCloser' = [tCloser EXCEPT ![k] = "cancelling"] /\ tTerminated' = TRUE
        /\ panicked' = IF tTerminated THEN "close" ELSE panicked
        /\ UNCHANGED <<closed, terminated, closer, watch, tClosed>>
        /\ UNCHANGED servedVars /\ UNCHANGED connVars /\ UNCHANGED orderVars
    BY DEF TypedCloseBegin, state, sending, receiving, servedVars, connVars, orderVars
  <1>1. TypeInv' /\ tCloser'[k] = "cancelling" /\ \A j \in TypedClosers \ {k} : tCloser'[j] = tCloser[j]
    BY <1>0 DEF IInv, TypeInv, orderVars, NextPeers
  <1>2. CloseInv'
    <2>1. \A j \in TypedClosers : tCloser'[j] = "returned" => tClosed'
      BY <1>0, <1>1, Zenon DEF IInv, CloseInv
    <2>2. watch' = "cancelled" => \E j \in TypedClosers : tCloser'[j] \in {"waiting", "returned"}
      BY <1>0, <1>1, Zenon DEF IInv, CloseInv
    <2>3. panicked' = "no" => \A j \in TypedClosers : tCloser'[j] # "idle" => j = k
      BY <1>0, <1>1 DEF IInv, CloseInv
    <2>4. panicked' = "no" => \A i, j \in TypedClosers : tCloser'[i] # "idle" /\ tCloser'[j] # "idle" => i = j
      BY <2>3
    <2>5. \E j \in TypedClosers : tCloser'[j] # "idle"
      BY <1>1
    <2> QED
      BY <1>0, <2>1, <2>2, <2>4, <2>5, Zenon DEF IInv, CloseInv
  <1>3. PanicsNeedOverlap'
    <2>1. CASE tTerminated
      <3> DEFINE W == {j \in TypedClosers : tCloser'[j] \in {"cancelling", "waiting"}}
      <3>1. PICK j \in TypedClosers : tCloser[j] # "idle"
        BY <2>1, Zenon DEF IInv, CloseInv
      <3>2. tCloser[j] \in {"cancelling", "waiting"} /\ j # k
        BY <1>0, <3>1, Zenon DEF IInv, TypeInv, CloseInv
      <3>3. IsFiniteSet(W) /\ j \in W /\ k \in W
        BY <1>1, <3>2, TypedClusterAssumption, FS_Subset, Zenon
      <3>4. Cardinality(W) > 1
        BY <3>2, <3>3, TwoMembers, Zenon
      <3> QED
        BY <1>0, <2>1, <3>4, Zenon DEF PanicsNeedOverlap
    <2>2. CASE ~tTerminated
      BY <1>0, <2>2 DEF PanicsNeedOverlap
    <2> QED
      BY <2>1, <2>2
  <1> QED
    BY <1>0, <1>1, <1>2, <1>3, ServedFrame, ConnFrame, OrderFrame, Zenon DEF IInv

\* Nobody else has cancelled the watch: that would be a second goroutine in Close.
LEMMA TypedCancelIInv ==
  ASSUME NEW k \in TypedClosers
  PROVE  IInv /\ panicked = "no" /\ TypedCancel(k) => IInv'
  <1> SUFFICES ASSUME IInv, panicked = "no", TypedCancel(k) PROVE IInv'
    BY Zenon
  <1>0. /\ tCloser[k] = "cancelling" /\ tCloser' = [tCloser EXCEPT ![k] = "waiting"]
        /\ watch' = "cancelled" /\ panicked' = IF watch = "cancelled" THEN "close" ELSE panicked
        /\ UNCHANGED <<closed, terminated, closer, tClosed, tTerminated>>
        /\ UNCHANGED servedVars /\ UNCHANGED connVars /\ UNCHANGED orderVars
    BY DEF TypedCancel, state, sending, servedVars, connVars, orderVars
  <1>1. panicked' = "no"
    BY <1>0 DEF IInv, CloseInv
  <1>2. TypeInv' /\ tCloser'[k] = "waiting" /\ \A j \in TypedClosers \ {k} : tCloser'[j] = tCloser[j]
    BY <1>0, <1>1, Zenon DEF IInv, TypeInv, orderVars, NextPeers
  <1>3. CloseInv' /\ PanicsNeedOverlap'
    BY <1>0, <1>1, <1>2, Zenon DEF IInv, CloseInv, PanicsNeedOverlap
  <1> QED
    BY <1>0, <1>2, <1>3, ServedFrame, ConnFrame, OrderFrame, Zenon DEF IInv

LEMMA TypedCloseEndIInv ==
  ASSUME NEW k \in TypedClosers
  PROVE  IInv /\ panicked = "no" /\ TypedCloseEnd(k) => IInv'
  <1> SUFFICES ASSUME IInv, panicked = "no", TypedCloseEnd(k) PROVE IInv'
    OBVIOUS
  <1>0. /\ tCloser[k] = "waiting" /\ tCloser' = [tCloser EXCEPT ![k] = "returned"]
        /\ tRunning' = FALSE /\ tClosed' = TRUE
        /\ UNCHANGED <<running, closed, terminated, closer, watch, panicked, tTerminated, sendSources>>
        /\ UNCHANGED connVars /\ UNCHANGED orderVars
    BY DEF TypedCloseEnd, muxVars, state, sending, receiving, connVars, orderVars
  <1>1. TypeInv' /\ tCloser'[k] = "returned" /\ \A j \in TypedClosers \ {k} : tCloser'[j] = tCloser[j]
    BY <1>0, Zenon DEF IInv, TypeInv, orderVars, NextPeers
  <1>2. CloseInv' /\ PanicsNeedOverlap'
    BY <1>0, <1>1, Zenon DEF IInv, CloseInv, PanicsNeedOverlap
  <1>3. ServedInv'
    BY <1>0, Zenon DEF IInv, ServedInv, orderVars
  <1> QED
    BY <1>0, <1>1, <1>2, <1>3, ConnFrame, OrderFrame, Zenon DEF IInv

(***************************************************************************)
(* The encoder and the merge goroutines.                                   *)
(***************************************************************************)
LEMMA CloseSourceIInv ==
  ASSUME NEW s \in Given
  PROVE  IInv /\ CloseSource(s) /\ UNCHANGED typed => IInv'
  <1> SUFFICES ASSUME IInv, CloseSource(s), UNCHANGED typed PROVE IInv'
    BY Zenon
  <1>1. /\ UNCHANGED closeVars /\ UNCHANGED servedVars /\ UNCHANGED connVars /\ UNCHANGED orderVars
        /\ TypeInv'
    BY Zenon DEF CloseSource, typed, state, receiving, closeVars, servedVars, connVars, orderVars, IInv, TypeInv, NextPeers
  <1> QED
    BY <1>1, CloseFrame, ServedFrame, ConnFrame, OrderFrame DEF IInv

\* The message that is dropped, or handed over, only raises what may have been sent.
LEMMA OrderRaised ==
  ASSUME TypeInv, OrderInv, TypeInv', UNCHANGED wire,
         UNCHANGED sender \/ (sender.pc # "peers" /\ sender'.pc # "peers"),
         encoder' = "offering" => out' > 0,
         \A s \in Sources : merge'[s].pc = "offering" => s = rawSendCh /\ merge'[s].msg \in Msgs,
         merge'[rawSendCh].pc = "offering" => merge'[rawSendCh].msg[2] <= Encoded',
         Merged <= Merged'
  PROVE  OrderInv'
  <1>1. Merged \in Int /\ Merged' \in Int
    <2>1. out \in Nat /\ out' \in Nat
      BY Zenon DEF TypeInv
    <2>2. Encoded \in Int /\ Encoded' \in Int
      BY <2>1 DEF Encoded
    <2>3. \A m \in Msgs : m[2] - 1 \in Int
      BY DEF Msgs
    <2>4. /\ merge[rawSendCh].pc = "offering" => merge[rawSendCh].msg \in Msgs
          /\ merge'[rawSendCh].pc = "offering" => merge'[rawSendCh].msg \in Msgs
      BY TypedClusterAssumption, Zenon DEF OrderInv
    <2> QED
      BY <2>2, <2>3, <2>4, Zenon DEF Merged
  <1>2. sender.pc = "peers" => sender.msg[2] \in Nat
    BY Zenon DEF OrderInv, Msgs
  <1>3. ASSUME NEW p \in NextPeers
        PROVE  Sent(p) \in Int /\ Sent(p)' \in Int /\ Sent(p) <= Sent(p)'
    BY <1>1, <1>2 DEF Sent
  <1>4. ASSUME NEW p \in NextPeers, NEW i \in DOMAIN wire[p]
        PROVE  wire[p][i][2] <= Sent(p)'
    <2>1. wire[p] \in Seq(Msgs)
      BY Zenon DEF TypeInv
    <2>2. wire[p][i][2] \in Nat
      BY <2>1 DEF Msgs
    <2>3. wire[p][i][2] <= Sent(p)
      BY Zenon DEF OrderInv
    <2>4. Sent(p) \in Int /\ Sent(p)' \in Int /\ Sent(p) <= Sent(p)'
      BY <1>3
    <2> QED
      BY <2>2, <2>3, <2>4, SMTT(30)
  <1>5. SentInOrder' /\ NextPeers' = NextPeers
    BY Zenon DEF OrderInv, SentInOrder, NextPeers
  <1>6. sender'.pc = "peers" => sender'.msg \in Msgs /\ sender'.msg[2] <= Merged'
    BY <1>1, <1>2 DEF OrderInv
  <1>7. \A p \in NextPeers : \A i \in DOMAIN wire'[p] : wire'[p][i][2] <= Sent(p)'
    BY <1>4, Zenon
  <1> QED
    BY <1>5, <1>6, <1>7, Zenon DEF OrderInv

LEMMA MergeEndIInv ==
  ASSUME NEW s \in Sources
  PROVE  IInv /\ MergeEnd(s) /\ UNCHANGED typed => IInv'
  <1> SUFFICES ASSUME IInv, MergeEnd(s), UNCHANGED typed PROVE IInv'
    BY Zenon
  <1>0. /\ merge' = [merge EXCEPT ![s] = [pc |-> "ended", msg |-> nothing]]
        /\ UNCHANGED <<running, closed, tRunning, sendSources, sender, wire, encoder, out>>
        /\ UNCHANGED closeVars /\ UNCHANGED connVars
    BY Zenon DEF MergeEnd, typed, state, receiving, closeVars, connVars
  <1>1. TypeInv' /\ merge'[s].pc = "ended" /\ \A r \in Sources \ {s} : merge'[r] = merge[r]
    BY <1>0, Zenon DEF IInv, TypeInv, closeVars, NextPeers
  <1>2. ServedInv'
    BY <1>0, <1>1, TypedClusterAssumption, Zenon DEF IInv, ServedInv
  <1>3. OrderInv'
    <2>1. \A r \in Sources : merge'[r].pc = "offering" => r # s /\ merge'[r] = merge[r]
      BY <1>1, Zenon
    <2>2. Encoded' = Encoded /\ Encoded \in Int
      BY <1>0 DEF Encoded, IInv, TypeInv
    <2>3. Merged <= Merged'
      <3>1. merge[rawSendCh].pc = "offering" =>
               merge[rawSendCh].msg[2] \in Nat /\ merge[rawSendCh].msg[2] <= Encoded
        BY TypedClusterAssumption, Zenon DEF IInv, OrderInv, Msgs
      <3>2. CASE s = rawSendCh
        <4>1. merge'[rawSendCh].pc = "ended"
          BY <1>1, <3>2
        <4>2. Merged' = Encoded
          BY <2>2, <4>1, Zenon DEF Merged
        <4>3. Merged <= Encoded
          BY <2>2, <3>1 DEF Merged
        <4> QED
          BY <4>2, <4>3
      <3>3. CASE s # rawSendCh
        BY <1>1, <2>2, <3>1, <3>3, TypedClusterAssumption, SMTT(30) DEF Merged
      <3> QED
        BY <3>2, <3>3
    <2> QED
      BY <1>0, <1>1, <2>1, <2>2, <2>3, OrderRaised, TypedClusterAssumption, Zenon DEF IInv, OrderInv
  <1> QED
    BY <1>0, <1>1, <1>2, <1>3, CloseFrame, ConnFrame, Zenon DEF IInv

LEMMA EncoderIInv == IInv /\ (EncoderTake \/ EncoderEnd) => IInv'
  <1> SUFFICES ASSUME IInv, EncoderTake \/ EncoderEnd PROVE IInv'
    OBVIOUS
  <1>0. /\ UNCHANGED closeVars /\ UNCHANGED servedVars /\ UNCHANGED connVars /\ UNCHANGED <<merge, sender, wire>>
        /\ \/ encoder = "select" /\ encoder' = "offering" /\ out' = out + 1
           \/ encoder' = "ended" /\ out' = out
    BY Zenon DEF EncoderTake, EncoderEnd, muxVars, state, sending, receiving, closeVars, servedVars, connVars
  <1>1. TypeInv'
    BY <1>0 DEF IInv, TypeInv, closeVars, NextPeers
  <1>2. Encoded \in Int /\ Encoded' \in Int /\ Encoded <= Encoded' /\ (encoder' = "offering" => out' > 0)
    BY <1>0 DEF Encoded, IInv, TypeInv
  <1>3. merge[rawSendCh].pc = "offering" => merge[rawSendCh].msg[2] \in Nat
    BY TypedClusterAssumption, Zenon DEF IInv, OrderInv, Msgs
  <1>4. Merged <= Merged'
    BY <1>0, <1>2, <1>3, SMTT(30) DEF Merged
  <1>5. merge'[rawSendCh].pc = "offering" => merge'[rawSendCh].msg[2] <= Encoded'
    BY <1>0, <1>2, <1>3, SMTT(30) DEF IInv, OrderInv
  <1>6. OrderInv'
    BY <1>0, <1>1, <1>2, <1>4, <1>5, OrderRaised, Zenon DEF IInv, OrderInv
  <1> QED
    BY <1>0, <1>1, <1>6, CloseFrame, ServedFrame, ConnFrame, Zenon DEF IInv

LEMMA EncoderHandIInv == IInv /\ EncoderHand => IInv'
  <1> SUFFICES ASSUME IInv, EncoderHand PROVE IInv'
    BY Zenon
  <1>0. /\ encoder = "offering" /\ encoder' = "select" /\ merge[rawSendCh].pc = "select"
        /\ merge' = [merge EXCEPT ![rawSendCh] = [pc |-> "offering", msg |-> <<rawSendCh, out>>]]
        /\ UNCHANGED <<running, closed, tRunning, sendSources, sender, wire, out>>
        /\ UNCHANGED closeVars /\ UNCHANGED connVars
    BY Zenon DEF EncoderHand, MergeTake, state, receiving, closeVars, connVars
  <1>1. out \in Nat /\ <<rawSendCh, out>> \in Msgs /\ <<rawSendCh, out>>[2] = out
    BY DEF IInv, TypeInv, Msgs
  <1>2. /\ merge'[rawSendCh].pc = "offering" /\ merge'[rawSendCh].msg = <<rawSendCh, out>>
        /\ \A r \in Sources \ {rawSendCh} : merge'[r] = merge[r]
    BY <1>0, TypedClusterAssumption, Zenon DEF IInv, TypeInv
  <1>3. TypeInv'
    BY <1>0, <1>1, Zenon DEF IInv, TypeInv, closeVars, NextPeers
  <1>4. ServedInv'
    BY <1>0, <1>2, Zenon DEF IInv, ServedInv
  <1>5. OrderInv'
    <2>1. Encoded' = out /\ Merged = out - 1 /\ Merged' = out - 1
      BY <1>0, <1>1, <1>2, Zenon DEF Encoded, Merged
    <2>2. \A r \in Sources : merge'[r].pc = "offering" => r = rawSendCh /\ merge'[r].msg \in Msgs
      BY <1>1, <1>2, Zenon DEF IInv, OrderInv
    <2>3. merge'[rawSendCh].msg[2] <= Encoded' /\ Merged <= Merged'
      BY <1>1, <1>2, <2>1
    <2> QED
      BY <1>0, <1>3, <2>2, <2>3, OrderRaised, Zenon DEF IInv
  <1> QED
    BY <1>0, <1>3, <1>4, <1>5, CloseFrame, ConnFrame, Zenon DEF IInv

(***************************************************************************)
(* The send loop.                                                          *)
(***************************************************************************)
LEMMA SenderStartIInv == IInv /\ SenderStart /\ UNCHANGED typed => IInv'
  <1> SUFFICES ASSUME IInv, SenderStart, UNCHANGED typed PROVE IInv'
    OBVIOUS
  <1>0. /\ sender.pc = "start" /\ sender' = [sender EXCEPT !.pc = "select"]
        /\ merge' = [s \in Sources |-> IF s \in sendSources THEN [merge[s] EXCEPT !.pc = "select"] ELSE merge[s]]
        /\ UNCHANGED <<running, closed, tRunning, sendSources, conns, opened, wire, encoder, out>>
        /\ UNCHANGED closeVars
    BY DEF SenderStart, typed, state, receiving, closeVars
  <1>1. /\ sender'.pc = "select"
        /\ \A s \in Sources : IF s \in sendSources THEN merge'[s].pc = "select" ELSE merge'[s] = merge[s]
    BY <1>0 DEF IInv, TypeInv
  <1>2. TypeInv'
    <2>1. sender' \in [pc : {"off", "start", "select", "peers", "ended"}, msg : Msgs \cup {nothing},
                       peers : SUBSET NextPeers]
      BY <1>0, Zenon DEF IInv, TypeInv
    <2>2. merge' \in [Sources -> [pc : {"off", "select", "offering", "ended"}, msg : Msgs \cup {nothing}]]
      BY <1>0, ZenonT(30) DEF IInv, TypeInv
    <2> QED
      BY <1>0, <2>1, <2>2, Zenon DEF IInv, TypeInv, closeVars, NextPeers
  <1>3. ServedInv' /\ ConnInv'
    BY <1>0, <1>1, TypedClusterAssumption DEF IInv, ServedInv, ConnInv, NextPeers
  <1>4. OrderInv'
    <2>1. \A s \in Sources : merge'[s].pc = "offering" => merge'[s] = merge[s]
      BY <1>1, Zenon
    <2>2. Encoded' = Encoded /\ Encoded \in Int
      BY <1>0 DEF Encoded, IInv, TypeInv
    <2>3. Merged <= Merged'
      BY <1>1, <2>1, <2>2, TypedClusterAssumption, SMTT(30) DEF Merged, IInv, OrderInv, Msgs
    <2> QED
      BY <1>0, <1>1, <1>2, <2>1, <2>2, <2>3, OrderRaised, TypedClusterAssumption, Zenon DEF IInv, OrderInv
  <1> QED
    BY <1>0, <1>2, <1>3, <1>4, CloseFrame DEF IInv

LEMMA SenderTakeIInv ==
  ASSUME NEW s \in Sources
  PROVE  IInv /\ SenderTake(s) /\ UNCHANGED typed => IInv'
  <1> SUFFICES ASSUME IInv, SenderTake(s), UNCHANGED typed PROVE IInv'
    OBVIOUS
  <1>0. /\ sender.pc = "select" /\ merge[s].pc = "offering" /\ s = rawSendCh /\ merge[s].msg \in Msgs
        /\ sender' = [pc |-> IF NextPeers = {} THEN "select" ELSE "peers", msg |-> merge[s].msg,
                      peers |-> NextPeers]
        /\ merge' = [merge EXCEPT ![s] = [pc |-> "select", msg |-> nothing]]
        /\ UNCHANGED <<running, closed, tRunning, sendSources, conns, opened, wire, encoder, out>>
        /\ UNCHANGED closeVars
    BY Zenon DEF SenderTake, HandedOver, typed, state, receiving, closeVars, IInv, OrderInv
  <1>1. merge'[s].pc = "select" /\ \A r \in Sources \ {s} : merge'[r] = merge[r]
    BY <1>0, Zenon DEF IInv, TypeInv
  <1>2. TypeInv'
    BY <1>0, Zenon DEF IInv, TypeInv, closeVars, NextPeers
  <1>3. ServedInv' /\ ConnInv'
    BY <1>0, <1>1, Zenon DEF IInv, ServedInv, ConnInv, NextPeers
  <1>4. OrderInv'
    <2> DEFINE n == merge[s].msg[2]
    <2>1. n \in Nat /\ Encoded' = Encoded /\ Encoded \in Int
      <3>1. out \in Nat /\ out' = out /\ encoder' = encoder /\ merge[s].msg \in Msgs
        BY <1>0, Zenon DEF IInv, TypeInv
      <3> QED
        BY <3>1 DEF Encoded, Msgs
    <2>2. Merged = n - 1 /\ Merged' = Encoded /\ n <= Encoded
      BY <1>0, <1>1, <2>1, Zenon DEF Merged, IInv, OrderInv
    <2>3. sender'.pc = "peers" => sender'.msg \in Msgs /\ sender'.msg[2] <= Merged'
      BY <1>0, <2>2, Zenon
    <2>4. ASSUME NEW p \in NextPeers PROVE Sent(p)' = Sent(p)
      BY <1>0, <2>2, Zenon DEF Sent
    <2>5. SentInOrder' /\ NextPeers' = NextPeers
      BY <1>0, Zenon DEF IInv, OrderInv, SentInOrder, NextPeers
    <2>6. \A r \in Sources : merge'[r].pc = "offering" => r = rawSendCh /\ merge'[r].msg \in Msgs
      BY <1>0, <1>1, Zenon DEF IInv, OrderInv
    <2>7. merge'[rawSendCh].pc # "offering" /\ (encoder' = "offering" => out' > 0)
      BY <1>0, <1>1, Zenon DEF IInv, OrderInv
    <2>8. \A p \in NextPeers : \A i \in DOMAIN wire'[p] : wire'[p][i][2] <= Sent(p)'
      BY <1>0, <2>4, Zenon DEF IInv, OrderInv
    <2> QED
      BY <2>3, <2>5, <2>6, <2>7, <2>8, Zenon DEF OrderInv
  <1> QED
    BY <1>0, <1>2, <1>3, <1>4, CloseFrame, Zenon DEF IInv

LEMMA SenderEndIInv == IInv /\ SenderEnd /\ UNCHANGED typed => IInv'
  <1> SUFFICES ASSUME IInv, SenderEnd, UNCHANGED typed PROVE IInv'
    OBVIOUS
  <1>0. /\ sender.pc = "select" /\ sender' = [sender EXCEPT !.pc = "ended"]
        /\ conns' = {} /\ opened' = opened - Cardinality(conns)
        /\ UNCHANGED <<running, closed, tRunning, sendSources, merge, wire, encoder, out>>
        /\ UNCHANGED closeVars
    BY DEF SenderEnd, typed, state, receiving, closeVars
  <1>1. TypeInv' /\ sender'.pc = "ended"
    BY <1>0, Zenon DEF IInv, TypeInv, closeVars, NextPeers
  <1>2. ServedInv'
    BY <1>0, <1>1 DEF IInv, ServedInv
  <1>3. ConnInv'
    <2>1. Cardinality(conns) \in Nat /\ Cardinality({}) = 0
      BY ClusterMuxAssumption, FS_Subset, FS_CardinalityType, FS_EmptySet, Zenon DEF IInv, ConnInv, NextPeers
    <2>2. conns' = {} /\ opened' = 0
      BY <1>0, <2>1 DEF IInv, ConnInv
    <2> QED
      BY <2>1, <2>2 DEF ConnInv
  <1>4. OrderInv'
    <2>1. Encoded' = Encoded /\ Merged' = Merged /\ Merged \in Int
      BY <1>0, TypedClusterAssumption DEF Encoded, Merged, IInv, TypeInv, OrderInv, Msgs
    <2> QED
      BY <1>0, <1>1, <2>1, OrderRaised DEF IInv, OrderInv
  <1> QED
    BY <1>0, <1>1, <1>2, <1>3, <1>4, CloseFrame DEF IInv

\* Appending a message younger than all the ones before keeps a peer's messages in order.
LEMMA AppendInOrder ==
  ASSUME NEW w \in Seq(Msgs), NEW m \in Msgs,
         \A i \in DOMAIN w : w[i][2] < m[2],
         \A i, j \in DOMAIN w : (i < j /\ w[i][1] = w[j][1]) => w[i][2] < w[j][2]
  PROVE  \A i, j \in DOMAIN Append(w, m) :
            (i < j /\ Append(w, m)[i][1] = Append(w, m)[j][1]) => Append(w, m)[i][2] < Append(w, m)[j][2]
  <1>1. /\ DOMAIN w = 1 .. Len(w) /\ DOMAIN Append(w, m) = 1 .. Len(w) + 1 /\ Len(w) \in Nat
        /\ \A i \in 1 .. Len(w) : Append(w, m)[i] = w[i]
        /\ Append(w, m)[Len(w) + 1] = m
    OBVIOUS
  <1> SUFFICES ASSUME NEW i \in 1 .. Len(w) + 1, NEW j \in 1 .. Len(w) + 1, i < j,
                      Append(w, m)[i][1] = Append(w, m)[j][1]
               PROVE  Append(w, m)[i][2] < Append(w, m)[j][2]
    BY <1>1, Zenon
  <1>2. i \in DOMAIN w /\ Append(w, m)[i] = w[i]
    BY <1>1
  <1>3. CASE j = Len(w) + 1
    BY <1>1, <1>2, <1>3, Zenon
  <1>4. CASE j \in 1 .. Len(w)
    <2>1. j \in DOMAIN w /\ Append(w, m)[j] = w[j]
      BY <1>1, <1>4, Zenon
    <2>2. w[i][1] = w[j][1]
      BY <1>2, <2>1, Zenon
    <2>3. w[i][2] < w[j][2]
      BY <1>2, <2>1, <2>2, Zenon
    <2> QED
      BY <1>2, <2>1, <2>3, Zenon
  <1>5. Len(w) \in Nat
    BY SMTT(30)
  <1>6. j = Len(w) + 1 \/ j \in 1 .. Len(w)
    BY <1>5
  <1> QED
    BY <1>3, <1>4, <1>6, Zenon

LEMMA SenderPeerIInv ==
  ASSUME NEW p \in NextPeers
  PROVE  IInv /\ SenderPeer(p) /\ UNCHANGED typed => IInv'
  <1> SUFFICES ASSUME IInv, SenderPeer(p), UNCHANGED typed PROVE IInv'
    BY Zenon
  <1> DEFINE left == sender.peers \ {p}
  <1>0. /\ sender.pc = "peers" /\ p \in sender.peers
        /\ sender' = [sender EXCEPT !.peers = left, !.pc = IF left = {} THEN "select" ELSE "peers"]
        /\ UNCHANGED <<running, closed, tRunning, sendSources, merge, encoder, out>>
        /\ UNCHANGED closeVars
    BY DEF SenderPeer, typed, state, receiving, closeVars
  <1>1. /\ \/ UNCHANGED <<conns, opened>>
           \/ conns' = conns \cup {p} /\ opened' = IF p \in conns THEN opened ELSE opened + 1
        /\ \/ wire' = wire
           \/ wire' = [wire EXCEPT ![p] = Append(@, sender.msg)]
    BY DEF SenderPeer, Dialed
  <1>2. /\ sender'.pc = IF left = {} THEN "select" ELSE "peers"
        /\ sender'.msg = sender.msg /\ sender'.peers = left /\ sender.msg \in Msgs
    BY <1>0 DEF IInv, TypeInv, OrderInv
  <1>3. TypeInv'
    <2>1. sender' \in [pc : {"off", "start", "select", "peers", "ended"}, msg : Msgs \cup {nothing},
                       peers : SUBSET NextPeers]
      BY <1>0, Zenon DEF IInv, TypeInv
    <2>2. wire' \in [NextPeers -> Seq(Msgs)]
      <3>1. wire \in [NextPeers -> Seq(Msgs)]
        BY Zenon DEF IInv, TypeInv
      <3>2. Append(wire[p], sender.msg) \in Seq(Msgs)
        BY <1>2, <3>1
      <3> QED
        BY <1>1, <3>1, <3>2, Zenon
    <2> QED
      BY <1>0, <2>1, <2>2, Zenon DEF IInv, TypeInv, closeVars, NextPeers
  <1>4. ServedInv'
    BY <1>0, <1>2 DEF IInv, ServedInv
  <1>5. ConnInv'
    <2>1. IsFiniteSet(conns)
      BY ClusterMuxAssumption, FS_Subset, Zenon DEF IInv, ConnInv, NextPeers
    <2>2. CASE UNCHANGED <<conns, opened>>
      BY <1>2, <2>2, Zenon DEF IInv, ConnInv, NextPeers
    <2>3. CASE conns' = conns \cup {p} /\ opened' = IF p \in conns THEN opened ELSE opened + 1
      <3>1. Cardinality(conns \cup {p}) = IF p \in conns THEN Cardinality(conns) ELSE Cardinality(conns) + 1
        BY <2>1, FS_AddElement, Zenon
      <3> QED
        BY <1>2, <2>3, <3>1, Zenon DEF IInv, ConnInv, NextPeers
    <2> QED
      BY <1>1, <2>2, <2>3, Zenon
  <1>6. OrderInv'
    <2> DEFINE n == sender.msg[2]
    <2>1. /\ Encoded' = Encoded /\ Merged' = Merged /\ Merged \in Int
          /\ n \in Nat /\ n <= Merged
      BY <1>0, <1>2, TypedClusterAssumption, SMTT(30) DEF Encoded, Merged, IInv, TypeInv, OrderInv, Msgs
    <2>2. Sent(p) = n - 1 /\ Sent(p)' \in Int /\ n <= Sent(p)'
      BY <1>0, <1>2, <2>1 DEF Sent
    <2>3. ASSUME NEW q \in NextPeers, q # p
          PROVE  Sent(q) \in Int /\ Sent(q)' \in Int /\ Sent(q) <= Sent(q)'
      BY <1>0, <1>2, <2>1, <2>3 DEF Sent
    <2>4. ASSUME NEW q \in NextPeers, NEW i \in DOMAIN wire[q]
          PROVE  wire[q][i][2] \in Nat /\ wire[q][i][2] <= Sent(q) /\ wire[q][i][2] <= Sent(q)'
      <3>1. wire[q] \in Seq(Msgs)
        BY Zenon DEF IInv, TypeInv
      <3>2. wire[q][i][2] \in Nat
        BY <3>1, SMTT(30) DEF Msgs
      <3>3. wire[q][i][2] <= Sent(q)
        BY Zenon DEF IInv, OrderInv
      <3>4. Sent(q) \in Int /\ Sent(q)' \in Int /\ Sent(q) <= Sent(q)'
        BY <2>1, <2>2, <2>3
      <3> QED
        BY <3>2, <3>3, <3>4, SMTT(30)
    <2>5. wire[p] \in Seq(Msgs) /\ \A q \in NextPeers \ {p} : wire'[q] = wire[q]
      BY <1>1, Zenon DEF IInv, TypeInv
    <2>6. wire'[p] = wire[p] \/ wire'[p] = Append(wire[p], sender.msg)
      BY <1>1, Zenon DEF IInv, TypeInv
    <2>7. ASSUME NEW q \in NextPeers, NEW i \in DOMAIN wire'[q]
          PROVE  wire'[q][i][2] <= Sent(q)'
      <3>1. CASE wire'[q] = wire[q]
        BY <2>4, <2>7, <3>1, Zenon
      <3>2. CASE q = p /\ wire'[p] = Append(wire[p], sender.msg)
        <4>1. i \in DOMAIN wire[p] \/ wire'[p][i] = sender.msg
          BY <1>2, <2>5, <2>7, <3>2, SMTT(30)
        <4>2. i \in DOMAIN wire[p] => wire'[p][i] = wire[p][i]
          BY <1>2, <2>5, <3>2, SMTT(30)
        <4> QED
          BY <2>2, <2>4, <3>2, <4>1, <4>2, Zenon
      <3> QED
        BY <2>5, <2>6, <3>1, <3>2, Zenon
    <2>8. SentInOrder'
      <3>1. SentInOrder /\ NextPeers' = NextPeers
        BY Zenon DEF IInv, OrderInv, NextPeers
      <3> SUFFICES ASSUME NEW q \in NextPeers
                   PROVE  \A i, j \in DOMAIN wire'[q] :
                             (i < j /\ wire'[q][i][1] = wire'[q][j][1]) => wire'[q][i][2] < wire'[q][j][2]
        BY <3>1, Zenon DEF SentInOrder
      <3>2. CASE wire'[q] = wire[q]
        BY <3>1, <3>2, Zenon DEF SentInOrder
      <3>3. CASE q = p /\ wire'[p] = Append(wire[p], sender.msg)
        <4>1. \A i \in DOMAIN wire[p] : wire[p][i][2] < sender.msg[2]
          BY <2>1, <2>2, <2>4, SMTT(30)
        <4>2. \A i, j \in DOMAIN wire[p] :
                 (i < j /\ wire[p][i][1] = wire[p][j][1]) => wire[p][i][2] < wire[p][j][2]
          BY <3>1, Zenon DEF SentInOrder
        <4> DEFINE w == Append(wire[p], sender.msg)
        <4>3. \A i, j \in DOMAIN w : (i < j /\ w[i][1] = w[j][1]) => w[i][2] < w[j][2]
          BY <1>2, <2>5, <4>1, <4>2, AppendInOrder, Zenon
        <4>4. wire'[q] = w
          BY <3>3, Zenon
        <4> HIDE DEF w
        <4> QED
          BY <4>3, <4>4, Zenon
      <3> QED
        BY <2>5, <2>6, <3>2, <3>3, Zenon
    <2>9. sender'.pc = "peers" => sender'.msg \in Msgs /\ sender'.msg[2] <= Merged'
      BY <1>2, <2>1, Zenon
    <2>10. NextPeers' = NextPeers
      BY DEF NextPeers
    <2> QED
      BY <1>0, <2>1, <2>7, <2>8, <2>9, <2>10, Zenon DEF IInv, OrderInv
  <1> QED
    BY <1>0, <1>3, <1>4, <1>5, <1>6, CloseFrame DEF IInv

LEMMA NextIInv == IInv /\ [Next]_vars => IInv'
  <1> SUFFICES ASSUME IInv, [Next]_vars PROVE IInv'
    OBVIOUS
  <1>1. CASE UNCHANGED vars
    <2>1. /\ UNCHANGED closeVars /\ UNCHANGED servedVars /\ UNCHANGED connVars /\ UNCHANGED orderVars
          /\ TypeInv'
      BY <1>1, Zenon DEF vars, muxVars, state, sending, receiving, typed, closeVars, servedVars, connVars, orderVars,
                  IInv, TypeInv, NextPeers
    <2> QED
      BY <2>1, CloseFrame, ServedFrame, ConnFrame, OrderFrame DEF IInv
  <1>2. CASE panicked = "no" /\ MuxStep
    BY <1>2, RunIInv, RecvIInv, SenderStartIInv, SenderEndIInv, SenderTakeIInv, SenderPeerIInv, CloseSourceIInv,
       MergeEndIInv, CloseBeginIInv, CloseEndIInv, Zenon DEF MuxStep, SendLoop
  <1>3. CASE panicked = "no" /\ (TypedRun \/ EncoderTake \/ EncoderHand \/ EncoderEnd \/ DecoderTake \/ DecoderEnd)
    BY <1>3, TypedRunIInv, EncoderIInv, EncoderHandIInv, DecoderIInv, Zenon
  <1>4. ASSUME panicked = "no", NEW k \in TypedClosers,
               TypedCloseBegin(k) \/ TypedCancel(k) \/ TypedCloseEnd(k)
        PROVE  IInv'
    BY <1>4, TypedCloseBeginIInv, TypedCancelIInv, TypedCloseEndIInv, Zenon
  <1> QED
    BY <1>1, <1>2, <1>3, <1>4 DEF Next

(* Every part of the invariant holds in every reachable state, however the *)
(* goroutines of the two clusters, and those that close them, interleave.  *)
THEOREM IInvInvariant == Spec => []IInv
  BY InitIInv, NextIInv, PTL DEF Spec

(* The two Close methods close terminateCh twice only if two calls of the  *)
(* same one overlap, and the dispatch of a packet meets a closed channel   *)
(* only after the typed cluster's Close has cancelled its watch.           *)
THEOREM Panics == Spec => []PanicsNeedOverlap
  <1>1. IInv => PanicsNeedOverlap
    BY DEF IInv
  <1> QED
    BY <1>1, IInvInvariant, PTL

(* When the send loop has ended, every connection that getOrDialConn       *)
(* dialed is closed.                                                       *)
THEOREM Released == Spec => []ConnectionsReleased
  <1>1. IInv => ConnectionsReleased
    BY FS_EmptySet, Zenon DEF IInv, ConnInv, ConnectionsReleased
  <1> QED
    BY <1>1, IInvInvariant, PTL

(* The send loop writes the messages of a source to a peer in order and    *)
(* none twice.                                                             *)
THEOREM Ordered == Spec => []SentInOrder
  <1>1. IInv => SentInOrder
    BY Zenon DEF IInv, OrderInv
  <1> QED
    BY <1>1, IInvInvariant, PTL

(* A typed cluster that runs on a multiplexer not closed has its channel   *)
(* merged once the send loop has taken its sources.                        *)
THEOREM Served == Spec => []TypedIsServed
  <1>1. IInv => TypedIsServed
    BY Zenon DEF IInv, ServedInv, TypedIsServed
  <1> QED
    BY <1>1, IInvInvariant, PTL
=============================================================================
