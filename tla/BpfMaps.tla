------------------------------- MODULE BpfMaps -------------------------------
(***************************************************************************)
(* The data path of one load balancer: the kernel maps, the XDP program    *)
(* that reads them on every CPU (internal/adapter/bpf/udplb_kern.c) and    *)
(* the userland writer (setObjects and the session batches of              *)
(* internal/adapter/bpf/manager.go).                                       *)
(*                                                                         *)
(* Each of the three structures has a buffer 0 (_a) and a buffer 1 (_b);   *)
(* one variable, active_pointer, is shared by the three of them            *)
(* (newObjects) and says which buffer the XDP program reads.  The program  *)
(* reads that volatile variable three times per packet, so its three reads *)
(* are three steps and a switchover may fall between them.  setObjects     *)
(* fills the passive buffers one structure after the other and then calls  *)
(* the three switchovers; any of the three sets may fail.                  *)
(*                                                                         *)
(* ebpfstruct, the library behind the userland structures, is external:    *)
(* setting an array overwrites its first entries and its length (array     *)
(* maps have no deletion), setting a map replaces its contents, and a      *)
(* switchover points active_pointer at the buffer that was just filled.    *)
(***************************************************************************)
EXTENDS Naturals, Sequences, FiniteSets

CONSTANTS Backends,     \* backend ids
          NoBackend,    \* the zeroed backend spec of an entry never written
          Capacity,     \* max_entries of the backend list
          Sessions,     \* session ids
          SessionsMax,  \* max_entries of the session map
          Slots,        \* keys of the lookup table
          Hash,         \* hash_modulo(session_id, lookup_table_size)
          RingbufSize,  \* assignments the ring buffer holds
          Cpus,         \* CPUs that run the XDP program
          Requests,     \* objects SetObjects may be called with
          Batches       \* session batches userland may update or delete

Bufs == {0, 1}
Indices == 0 .. Capacity - 1
SessionMaps(I) == UNION {[S -> I] : S \in SUBSET Sessions}

\* Objects as the interface of SetObjects wants them: lookup table and
\* session map hold indices of the backend list.
ValidObjects(r) ==
    /\ r.list \in Seq(Backends)
    /\ Len(r.list) \in 1 .. Capacity
    /\ r.table \in [Slots -> 0 .. Len(r.list) - 1]
    /\ r.sessions \in SessionMaps(0 .. Len(r.list) - 1)

ASSUME BpfAssumption ==
    /\ NoBackend \notin Backends
    /\ Capacity \in Nat \ {0}
    /\ SessionsMax \in Nat
    /\ Hash \in [Sessions -> Slots]
    /\ RingbufSize \in Nat
    /\ \A r \in Requests : ValidObjects(r)
    /\ Batches \subseteq SessionMaps(Indices)

VARIABLES
    active,        \* active_pointer
    backendList,   \* backend_list_{a,b}
    listLen,       \* backend_list_{a,b}_len
    lookupTable,   \* lookup_table_{a,b}
    sessionMap,    \* session_map_{a,b}
    ringbuf,       \* assignment_ringbuf
    setter,        \* the event worker inside setObjects
    xdp,           \* the XDP program on each CPU
    home,          \* history: backend a session was sent to since the last switchover
    dirty          \* history: buffers whose session map a mixed packet wrote

maps == <<active, backendList, listLen, lookupTable, sessionMap>>
vars == <<maps, ringbuf, setter, xdp, home, dirty>>

NoMap == [s \in {} |-> 0]
IdleSetter == [pc |-> "idle"]
IdleXdp == [pc |-> "idle"]

Init ==
    /\ active = 0
    /\ backendList = [b \in Bufs |-> [i \in Indices |-> NoBackend]]
    /\ listLen = [b \in Bufs |-> 0]
    /\ lookupTable = [b \in Bufs |-> [k \in Slots |-> 0]]
    /\ sessionMap = [b \in Bufs |-> NoMap]
    /\ ringbuf = <<>>
    /\ setter = IdleSetter
    /\ xdp = [c \in Cpus |-> IdleXdp]
    /\ home = NoMap
    /\ dirty = {}

SetterStates ==
    {IdleSetter} \cup
    [pc : {"backendList", "lookupTable", "sessionMap", "bSwitchover", "lupSwitchover", "sSwitchover"},
     target : Bufs, objs : Requests]

\* A packet in the XDP program: the buffers it has read, the backend index
\* of a known session, and whether the buffers are of two generations.
Packets ==
    [pc : {"lookupTable", "sessions", "lookup", "forward"}, session : Sessions,
     bl : Bufs, lup : Bufs, sess : Bufs, new : BOOLEAN, idx : Indices, mixed : BOOLEAN]

XdpStates == {IdleXdp} \cup Packets

TypeOK ==
    /\ active \in Bufs
    /\ backendList \in [Bufs -> [Indices -> Backends \cup {NoBackend}]]
    /\ listLen \in [Bufs -> 0 .. Capacity]
    /\ lookupTable \in [Bufs -> [Slots -> Indices]]
    /\ sessionMap \in [Bufs -> SessionMaps(Indices)]
    /\ ringbuf \in Seq([session : Sessions, backend : Backends \cup {NoBackend}])
    /\ setter \in SetterStates
    /\ xdp \in [Cpus -> XdpStates]
    /\ DOMAIN home \subseteq Sessions
    /\ dirty \subseteq Bufs

\* f with every key of g added or overwritten.
Merge(f, g) == [k \in DOMAIN f \cup DOMAIN g |-> IF k \in DOMAIN g THEN g[k] ELSE f[k]]

Without(f, S) == [k \in DOMAIN f \ S |-> f[k]]

Single(k, v) == [x \in {k} |-> v]

(***************************************************************************)
(* setObjects: fill the three passive buffers, then switch over.           *)
(***************************************************************************)

\* A packet still works on a buffer that is about to be filled again.
Holds(x, b) == x # IdleXdp /\ b \in {x.bl, x.lup, x.sess}

\* Mutant: no double buffering, the set writes the active buffers.
StartSetInPlace(r) ==
    /\ setter.pc = "idle"
    /\ setter' = [pc |-> "backendList", target |-> active, objs |-> r]
    /\ UNCHANGED <<maps, ringbuf, xdp, home, dirty>>

StartSet(r) ==
    /\ setter.pc = "idle"
    /\ setter' = [pc |-> "backendList", target |-> 1 - active, objs |-> r]
    /\ xdp' = [c \in Cpus |-> IF Holds(xdp[c], 1 - active) THEN [xdp[c] EXCEPT !.mixed = TRUE]
                              ELSE xdp[c]]
    /\ UNCHANGED <<maps, ringbuf, home, dirty>>

SetBackendList ==
    /\ setter.pc = "backendList"
    /\ LET n == Len(setter.objs.list)
           t == setter.target
       IN /\ backendList' = [backendList EXCEPT ![t] =
                  [i \in Indices |-> IF i < n THEN setter.objs.list[i + 1] ELSE @[i]]]
          /\ listLen' = [listLen EXCEPT ![t] = n]
    /\ setter' = [setter EXCEPT !.pc = "lookupTable"]
    /\ UNCHANGED <<active, lookupTable, sessionMap, ringbuf, xdp, home, dirty>>

SetLookupTable ==
    /\ setter.pc = "lookupTable"
    /\ lookupTable' = [lookupTable EXCEPT ![setter.target] = setter.objs.table]
    /\ setter' = [setter EXCEPT !.pc = "sessionMap"]
    /\ UNCHANGED <<active, backendList, listLen, sessionMap, ringbuf, xdp, home, dirty>>

\* Mutant: the stale sessions of the passive buffer are not removed.
SetSessionMapMerging ==
    /\ setter.pc = "sessionMap"
    /\ Cardinality(DOMAIN setter.objs.sessions) <= SessionsMax
    /\ sessionMap' = [sessionMap EXCEPT ![setter.target] = Merge(@, setter.objs.sessions)]
    /\ setter' = [setter EXCEPT !.pc = "bSwitchover"]
    /\ dirty' = dirty \ {setter.target}
    /\ UNCHANGED <<active, backendList, listLen, lookupTable, ringbuf, xdp, home>>

SetSessionMap ==
    /\ setter.pc = "sessionMap"
    /\ Cardinality(DOMAIN setter.objs.sessions) <= SessionsMax
    /\ sessionMap' = [sessionMap EXCEPT ![setter.target] = setter.objs.sessions]
    /\ setter' = [setter EXCEPT !.pc = "bSwitchover"]
    /\ dirty' = dirty \ {setter.target}
    /\ UNCHANGED <<active, backendList, listLen, lookupTable, ringbuf, xdp, home>>

\* Mutant: the error is dropped and the switchover happens anyway.
SetFailsUnnoticed ==
    /\ setter.pc \in {"backendList", "lookupTable", "sessionMap"}
    /\ setter' = [setter EXCEPT !.pc = "bSwitchover"]
    /\ UNCHANGED <<maps, ringbuf, xdp, home, dirty>>

\* One of the three SetAndDeferSwitchover returns an error: setObjects
\* returns it and calls no switchover.
SetFails ==
    /\ setter.pc \in {"backendList", "lookupTable", "sessionMap"}
    /\ setter' = IdleSetter
    /\ UNCHANGED <<maps, ringbuf, xdp, home, dirty>>

AfterSwitchover == [bSwitchover |-> "lupSwitchover", lupSwitchover |-> "sSwitchover"]

\* bSwitchover(), lupSwitchover(), sSwitchover(): the first one changes
\* active_pointer, the other two write the same value again.
Switchover ==
    /\ setter.pc \in {"bSwitchover", "lupSwitchover", "sSwitchover"}
    /\ active' = setter.target
    /\ setter' = IF setter.pc = "sSwitchover" THEN IdleSetter
                 ELSE [setter EXCEPT !.pc = AfterSwitchover[setter.pc]]
    /\ home' = IF setter.pc = "bSwitchover" THEN NoMap ELSE home
    /\ UNCHANGED <<backendList, listLen, lookupTable, sessionMap, ringbuf, xdp, dirty>>

(***************************************************************************)
(* BatchUpdateSession and BatchDeleteSession, run by the same worker on    *)
(* the active session map.  An update that does not fit is an error.       *)
(***************************************************************************)
BatchUpdate(b) ==
    /\ setter.pc = "idle"
    /\ \A s \in DOMAIN b : b[s] < listLen[active]   \* the callers' obligation
    /\ Cardinality(DOMAIN sessionMap[active] \cup DOMAIN b) <= SessionsMax
    /\ sessionMap' = [sessionMap EXCEPT ![active] = Merge(@, b)]
    /\ home' = Without(home, DOMAIN b)
    /\ UNCHANGED <<active, backendList, listLen, lookupTable, ringbuf, setter, xdp, dirty>>

BatchDelete(b) ==
    /\ setter.pc = "idle"
    /\ sessionMap' = [sessionMap EXCEPT ![active] = Without(@, DOMAIN b)]
    /\ home' = Without(home, DOMAIN b)
    /\ UNCHANGED <<active, backendList, listLen, lookupTable, ringbuf, setter, xdp, dirty>>

(***************************************************************************)
(* The XDP program, for a packet that must_loadbalance accepts.            *)
(***************************************************************************)
XdpReadBackendList(c, s) ==
    /\ xdp[c].pc = "idle"
    /\ xdp' = [xdp EXCEPT ![c] =
                  [pc |-> "lookupTable", session |-> s, bl |-> active, lup |-> active,
                   sess |-> active, new |-> FALSE, idx |-> 0, mixed |-> FALSE]]
    /\ UNCHANGED <<maps, ringbuf, setter, home, dirty>>

XdpReadLookupTable(c) ==
    /\ xdp[c].pc = "lookupTable"
    /\ xdp' = [xdp EXCEPT ![c] = [xdp[c] EXCEPT !.pc = "sessions", !.lup = active, !.sess = active,
                                                !.mixed = xdp[c].mixed \/ xdp[c].bl # active]]
    /\ UNCHANGED <<maps, ringbuf, setter, home, dirty>>

XdpReadSessions(c) ==
    /\ xdp[c].pc = "sessions"
    /\ xdp' = [xdp EXCEPT ![c] = [xdp[c] EXCEPT !.pc = "lookup", !.sess = active,
                                                !.mixed = xdp[c].mixed \/ xdp[c].lup # active]]
    /\ UNCHANGED <<maps, ringbuf, setter, home, dirty>>

Known(x) == x.session \in DOMAIN sessionMap[x.sess]

\* backend_idx of a new session points into the lookup table.
TableIdx(x) == lookupTable[x.lup][Hash[x.session]]

\* bpf_map_lookup_elem on the session map.
XdpLookup(c) ==
    LET x == xdp[c]
        idx == IF Known(x) THEN sessionMap[x.sess][x.session] ELSE TableIdx(x)
    IN
    /\ x.pc = "lookup"
    /\ xdp' = [xdp EXCEPT ![c] = [x EXCEPT !.pc = "forward", !.new = ~Known(x),
                                           !.idx = IF Known(x) THEN idx ELSE @]]
    /\ home' = IF ~x.mixed /\ x.bl = active
               THEN Merge(home, Single(x.session, backendList[x.bl][idx])) ELSE home
    /\ UNCHANGED <<maps, ringbuf, setter, dirty>>

\* Mutant: the lookup table's key is taken for the index it holds.
BackendIdxKey(x) == IF x.new THEN Hash[x.session] ELSE x.idx

BackendIdx(x) == IF x.new THEN TableIdx(x) ELSE x.idx

\* The pair the program submits to the ring buffer.
Assignment(x) == [session |-> x.session, backend |-> backendList[x.bl][BackendIdx(x)]]

\* bpf_map_update_elem succeeds.
Fits(x) == Known(x) \/ Cardinality(DOMAIN sessionMap[x.sess]) < SessionsMax

\* Look the backend up, persist a new session, and transmit.
XdpForward(c) ==
    LET x == xdp[c]
        learn == x.new /\ BackendIdx(x) \in Indices
    IN
    /\ x.pc = "forward"
    /\ xdp' = [xdp EXCEPT ![c] = IdleXdp]
    /\ ringbuf' = IF learn /\ Len(ringbuf) < RingbufSize THEN Append(ringbuf, Assignment(x))
                  ELSE ringbuf
    /\ sessionMap' = IF learn /\ Fits(x)
                     THEN [sessionMap EXCEPT ![x.sess] = Merge(@, Single(x.session, BackendIdx(x)))]
                     ELSE sessionMap
    /\ dirty' = IF x.mixed /\ learn THEN dirty \cup {x.sess} ELSE dirty
    /\ UNCHANGED <<active, backendList, listLen, lookupTable, setter, home>>

\* The userland subscription to the ring buffer.
ConsumeAssignment ==
    /\ ringbuf # <<>>
    /\ ringbuf' = Tail(ringbuf)
    /\ UNCHANGED <<maps, setter, xdp, home, dirty>>

Set == SetBackendList \/ SetLookupTable \/ SetSessionMap \/ SetFails \/ Switchover

Xdp(c) ==
    \/ \E s \in Sessions : XdpReadBackendList(c, s)
    \/ XdpReadLookupTable(c)
    \/ XdpReadSessions(c)
    \/ XdpLookup(c)
    \/ XdpForward(c)

Next ==
    \/ \E r \in Requests : StartSet(r)
    \/ Set
    \/ \E b \in Batches : BatchUpdate(b) \/ BatchDelete(b)
    \/ \E c \in Cpus : Xdp(c)
    \/ ConsumeAssignment

Spec == Init /\ [][Next]_vars

(***************************************************************************)
(* Properties.                                                             *)
(***************************************************************************)

\* The XDP program serves from buffers that userland has filled.
Serving == listLen[active] > 0

LiveBackends == {backendList[active][i] : i \in 0 .. listLen[active] - 1}

(* The lookup table the XDP program may read holds indices of the backend  *)
(* list it may read, whatever sets failed half-way before: setObjects      *)
(* never exposes a table next to a list it was not computed for.           *)
TableIndicesLive ==
    Serving => \A k \in Slots : lookupTable[active][k] < listLen[active]

(* So does the session map, unless a packet whose reads of active_pointer  *)
(* straddled a switchover has written it: no failed set leaves a stale     *)
(* index behind, and the next set removes the ones a mixed packet left.    *)
SessionIndicesLive ==
    Serving /\ active \notin dirty =>
        \A s \in DOMAIN sessionMap[active] : sessionMap[active][s] < listLen[active]

(* A packet that used the current buffers went to a backend of the current *)
(* list, never to a stale or zeroed entry behind its end.                  *)
ForwardsToLive ==
    Serving /\ active \notin dirty => \A s \in DOMAIN home : home[s] \in LiveBackends

Batched == UNION {DOMAIN b : b \in Batches}

(* Between two switchovers a session that no batch touches keeps its       *)
(* backend, on every CPU, also when two CPUs learn it at once and when the *)
(* session map is full and it cannot be persisted ("Failing is fine").     *)
SessionAffinity ==
    [][active' \notin dirty' =>
          \A s \in (DOMAIN home \cap DOMAIN home') \ Batched : home'[s] = home[s]]_vars

(* A switchover exposes exactly the session map setObjects was called      *)
(* with, unless a mixed packet wrote into it before it became active.      *)
ExactSwitchover ==
    [][active' # active /\ active' \notin dirty =>
          sessionMap[active'] = setter.objs.sessions]_vars

(***************************************************************************)
(* Refinement: what the XDP program can read through active_pointer.       *)
(***************************************************************************)
LiveList == [i \in 1 .. listLen[active] |-> backendList[active][i - 1]]

Atomic == INSTANCE AtomicMaps WITH
    list <- LiveList, table <- lookupTable[active], sessions <- sessionMap[active]

(* The double buffering implements maps that are replaced atomically: no   *)
(* partial set and no failed one is visible, and nothing but a packet      *)
(* learning a session or a batch changes the live maps in between.         *)
ImplementsAtomicMaps == Atomic!Spec
=============================================================================
