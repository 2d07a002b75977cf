----------------------------- MODULE Controller -----------------------------
(***************************************************************************)
(* The control plane of one load balancer                                  *)
(* (internal/controller/controller.go) between the health monitor and the  *)
(* kernel maps: Run's initial recomputation, the health loop, the          *)
(* assignment loop, recomputeAndApply, and the health check loop of        *)
(* internal/adapter/monitor/backend_state.go.                              *)
(*                                                                         *)
(* c.backends is fixed at start; a backend is its index there.  The kernel *)
(* is AtomicMaps, which BpfMaps implements; packets that straddle a        *)
(* switchover are BpfMaps' subject and left out here.                      *)
(*                                                                         *)
(* c.mu is held exactly while job is busy: the loops lock it for           *)
(* recomputeAndApply, SetObjects included.  Assignments travel through the *)
(* ring buffer, three watch workers and a watcher channel; on the way any  *)
(* one may overtake any other (a worker blocked in dispatchOne) or be      *)
(* dropped (ring buffer full, no watcher yet, dispatch timeout).           *)
(***************************************************************************)
EXTENDS Naturals, Sequences, FiniteSets, SequencesExt

CONSTANTS N,            \* len(c.backends)
          NoBackend,    \* the zero id the XDP program reports before the first set
          Sessions,     \* session ids
          SessionsMax,  \* capacity of the kernel's session map
          Slots,        \* keys of the lookup table
          Hash,         \* hash_modulo(session_id, lookup_table_size)
          HealthCap,    \* capacity of the health channel
          PendingMax,   \* bound: assignments under way
          MaxFlaps,     \* bound: changes of the backends' real state
          MaxDrops,     \* bound: health entries dropped by the dispatch timeout
          MaxFailures   \* bound: calls of SetObjects that fail

Ids == 0 .. N - 1
States == {"available", "unavailable"}

ASSUME ControllerAssumption ==
    /\ N \in Nat \ {0}
    /\ NoBackend \notin Ids
    /\ SessionsMax \in Nat
    /\ Hash \in [Sessions -> Slots]
    /\ {HealthCap, PendingMax, MaxFlaps, MaxDrops, MaxFailures} \subseteq Nat

VARIABLES
    up,          \* the backends that answer probes
    toProbe,     \* backends the running tick of healthCheckLoop has not probed
    healthCh,    \* c.healthCh
    status,      \* b.Status.State of every backend
    sessionMap,  \* c.sessionMap
    job,         \* the call of SetObjects in progress, under c.mu
    phase,       \* "starting", then "running"; "exited" if Run fails
    kList, kTable, kSessions,   \* the kernel maps
    pending,     \* assignments on their way to assignmentLoop
    bounds,      \* flaps, drops and failures so far
    assigned,    \* history: backend of the last assignment consumed, per session
    shifted,     \* history: some recomputation gave a backend another index
    stale        \* history: the last SetObjects failed

kernel == <<kList, kTable, kSessions>>
monitor == <<up, toProbe, healthCh>>
vars == <<monitor, status, sessionMap, job, phase, kernel, pending, bounds, assigned, shifted, stale>>

NoMap == [s \in {} |-> 0]
Idle == [origin |-> "none"]

Kernel == INSTANCE AtomicMaps WITH
    Requests <- {}, Batches <- {}, Indices <- Ids,
    list <- kList, table <- kTable, sessions <- kSessions

Restricted(f, S) == [x \in DOMAIN f \cap S |-> f[x]]

Init ==
    /\ up = Ids
    /\ toProbe = Ids
    /\ healthCh = <<>>
    /\ status = [b \in Ids |-> "available"]
    /\ sessionMap = NoMap
    /\ job = Idle
    /\ phase = "starting"
    /\ Kernel!Init
    /\ pending = <<>>
    /\ bounds = [flaps |-> 0, drops |-> 0, failures |-> 0]
    /\ assigned = NoMap
    /\ shifted = FALSE
    /\ stale = FALSE

(***************************************************************************)
(* Backends and the health monitor.                                        *)
(***************************************************************************)
Flap(b) ==
    /\ bounds.flaps < MaxFlaps
    /\ bounds' = [bounds EXCEPT !.flaps = @ + 1]
    /\ up' = IF b \in up THEN up \ {b} ELSE up \cup {b}
    /\ UNCHANGED <<toProbe, healthCh, status, sessionMap, job, phase, kernel, pending,
                   assigned, shifted, stale>>

ProbeResult(b) == [id |-> b, state |-> IF b \in up THEN "available" ELSE "unavailable"]

\* The next tick starts when every backend has been probed.
AfterProbe(b) == IF toProbe = {b} THEN Ids ELSE toProbe \ {b}

\* One probe and its dispatch, which waits while the channel is full ...
Probe(b) ==
    /\ b \in toProbe
    /\ Len(healthCh) < HealthCap
    /\ healthCh' = Append(healthCh, ProbeResult(b))
    /\ toProbe' = AfterProbe(b)
    /\ UNCHANGED <<up, status, sessionMap, job, phase, kernel, pending, bounds,
                   assigned, shifted, stale>>

\* ... for at most the dispatch timeout.
ProbeDropped(b) ==
    /\ b \in toProbe
    /\ Len(healthCh) = HealthCap
    /\ bounds.drops < MaxDrops
    /\ bounds' = [bounds EXCEPT !.drops = @ + 1]
    /\ toProbe' = AfterProbe(b)
    /\ UNCHANGED <<up, healthCh, status, sessionMap, job, phase, kernel, pending,
                   assigned, shifted, stale>>

(***************************************************************************)
(* recomputeAndApply.                                                      *)
(***************************************************************************)
backends == [i \in 1 .. N |-> i - 1]

\* Mutant: the desired state is checked, the actual one is not.
filterEnabled(st) == backends

filterAvailable(st) ==
    LET upTo[i \in 0 .. N] ==
            IF i = 0 THEN <<>>
            ELSE IF st[i - 1] = "available" THEN Append(upTo[i - 1], i - 1) ELSE upTo[i - 1]
    IN upTo[N]

\* Index of every available backend in the list that is pushed.
newIndexByID(l) ==
    [b \in {l[i] : i \in DOMAIN l} |-> (CHOOSE i \in DOMAIN l : l[i] = b) - 1]

\* Mutant: sessions of a failed backend keep their index.
remapKeepingAll(sm, l) ==
    [s \in DOMAIN sm |-> IF sm[s] \in DOMAIN newIndexByID(l) THEN newIndexByID(l)[sm[s]] ELSE sm[s]]

\* The new session map: oldIdx is taken as an index of c.backends.
remapped(sm, l) ==
    [s \in {t \in DOMAIN sm : sm[t] \in DOMAIN newIndexByID(l)} |-> newIndexByID(l)[sm[s]]]

\* The tables ReverseCoordinatesLookupTable may return for n backends.
LookupTables(n) == [Slots -> 0 .. n - 1]

recompute(st, origin) ==
    LET available == filterAvailable(st) IN
    IF available = <<>>
    THEN /\ UNCHANGED <<sessionMap, job, assigned, shifted>>
         /\ phase' = IF origin = "run" THEN "running" ELSE phase
    ELSE /\ \E t \in LookupTables(Len(available)) :
               job' = [origin |-> origin, list |-> available, table |-> t,
                       sessions |-> remapped(sessionMap, available)]
         /\ sessionMap' = remapped(sessionMap, available)
         /\ assigned' = Restricted(assigned, {s \in DOMAIN assigned : st[assigned[s]] = "available"})
         /\ shifted' = (shifted \/ ~IsPrefix(available, backends))
         /\ UNCHANGED phase

\* Run, after it has started the loops.
Run ==
    /\ phase = "starting"
    /\ job = Idle
    /\ recompute(status, "run")
    /\ UNCHANGED <<monitor, status, kernel, pending, bounds, stale>>

\* Mutant: the new state is not stored.
healthLoopForgets ==
    /\ phase # "exited"
    /\ job = Idle
    /\ healthCh # <<>>
    /\ healthCh' = Tail(healthCh)
    /\ LET entry == Head(healthCh)
           st == [status EXCEPT ![entry.id] = entry.state]
       IN IF status[entry.id] # entry.state THEN recompute(st, "health")
          ELSE UNCHANGED <<sessionMap, job, phase, assigned, shifted>>
    /\ UNCHANGED <<up, toProbe, status, kernel, pending, bounds, stale>>

\* healthLoop: only a change of state triggers a recomputation.
healthLoop ==
    /\ phase # "exited"
    /\ job = Idle
    /\ healthCh # <<>>
    /\ healthCh' = Tail(healthCh)
    /\ LET entry == Head(healthCh)
           st == [status EXCEPT ![entry.id] = entry.state]
       IN /\ status' = st
          /\ IF status[entry.id] # entry.state THEN recompute(st, "health")
             ELSE UNCHANGED <<sessionMap, job, phase, assigned, shifted>>
    /\ UNCHANGED <<up, toProbe, kernel, pending, bounds, stale>>

\* SetObjects succeeds and c.mu is released.
SetObjects ==
    /\ job # Idle
    /\ Kernel!Replace(job, NoMap)
    /\ job' = Idle
    /\ phase' = IF job.origin = "run" THEN "running" ELSE phase
    /\ stale' = FALSE
    /\ UNCHANGED <<monitor, status, sessionMap, pending, bounds, assigned, shifted>>

\* SetObjects fails: Run returns the error and the process exits, the health
\* loop logs it.
SetObjectsFails ==
    /\ job # Idle
    /\ bounds.failures < MaxFailures
    /\ bounds' = [bounds EXCEPT !.failures = @ + 1]
    /\ job' = Idle
    /\ phase' = IF job.origin = "run" THEN "exited" ELSE phase
    /\ stale' = TRUE
    /\ UNCHANGED <<monitor, status, sessionMap, kernel, pending, assigned, shifted>>

(***************************************************************************)
(* Packets and assignments.                                                *)
(***************************************************************************)

\* The first packet of a session since the last set.
NewSession(s) ==
    LET i == kTable[Hash[s]]
        b == IF i < Len(kList) THEN kList[i + 1] ELSE NoBackend
    IN
    /\ phase # "exited"
    /\ s \notin DOMAIN kSessions
    /\ IF Cardinality(DOMAIN kSessions) < SessionsMax THEN Kernel!Learn(s, i) ELSE UNCHANGED kernel
    /\ pending' = IF Len(pending) < PendingMax
                  THEN Append(pending, [session |-> s, backend |-> b]) ELSE pending
    /\ UNCHANGED <<monitor, status, sessionMap, job, phase, bounds, assigned, shifted, stale>>

LoseAssignment(i) ==
    /\ pending' = RemoveAt(pending, i)
    /\ UNCHANGED <<monitor, status, sessionMap, job, phase, kernel, bounds, assigned, shifted, stale>>

\* assignmentLoop ignores a backend it does not know.
assignmentLoop(i) ==
    LET a == pending[i]
        entry == [s \in {a.session} |-> a.backend]
    IN
    /\ phase # "exited"
    /\ job = Idle
    /\ pending' = RemoveAt(pending, i)
    /\ IF a.backend \in Ids
       THEN /\ sessionMap' = Kernel!Merge(sessionMap, entry)
            /\ assigned' = Kernel!Merge(assigned, entry)
       ELSE UNCHANGED <<sessionMap, assigned>>
    /\ UNCHANGED <<monitor, status, job, phase, kernel, bounds, shifted, stale>>

Next ==
    \/ \E b \in Ids : Flap(b) \/ Probe(b) \/ ProbeDropped(b)
    \/ Run
    \/ healthLoop
    \/ SetObjects
    \/ SetObjectsFails
    \/ \E s \in Sessions : NewSession(s)
    \/ \E i \in DOMAIN pending : LoseAssignment(i) \/ assignmentLoop(i)

\* The ticker keeps ticking, the loops are goroutines that the runtime
\* schedules, and SetObjects returns.
Fairness ==
    /\ WF_vars(\E b \in Ids : Probe(b))
    /\ WF_vars(Run)
    /\ WF_vars(healthLoop)
    /\ WF_vars(SetObjects)

Spec == Init /\ [][Next]_vars /\ Fairness

(***************************************************************************)
(* Properties.                                                             *)
(***************************************************************************)

Quiet == phase = "running" /\ job = Idle

(* Whenever recomputeAndApply is not running and its last SetObjects did   *)
(* not fail, the kernel balances over exactly the backends the controller  *)
(* believes available, if there is one, in the order of c.backends.        *)
KernelMatchesStatus ==
    (Quiet /\ ~stale /\ filterAvailable(status) # <<>>) => kList = filterAvailable(status)

(* No step of the control plane leaves an index in the kernel that is not  *)
(* one of its backend list, whatever was remapped before.                  *)
KernelIndicesLive ==
    kList # <<>> =>
        /\ \A k \in Slots : kTable[k] < Len(kList)
        /\ \A s \in DOMAIN kSessions : kSessions[s] < Len(kList)

\* The session map of the call in progress sends s where assignments did.
PushedRight(s) == job.list[job.sessions[s] + 1] = assigned[s]

(* While only backends at the end of c.backends have failed, SetObjects is *)
(* called with the backend every session was last assigned to, and with    *)
(* every such session whose backend is available.                          *)
SessionsKeptUnshifted ==
    job # Idle /\ ~shifted =>
        /\ DOMAIN job.sessions = DOMAIN assigned
        /\ \A s \in DOMAIN job.sessions : PushedRight(s)

(* DESIGN.md, Requirements: "Backend additions, removals, and failures     *)
(* must not disrupt existing sessions beyond a minimal transition window." *)
(* A set pushes every session with the backend it was last assigned to.    *)
SessionsKept ==
    job # Idle => \A s \in DOMAIN job.sessions \cap DOMAIN assigned : PushedRight(s)

(* Once the backends' real state no longer changes, the kernel's list      *)
(* becomes the list of the backends that answer probes and stays that way, *)
(* also when health entries are dropped, provided that no SetObjects fails *)
(* (the health loop does not try again).                                   *)
Converges ==
    <>[](up # {} /\ bounds.failures = 0 => kList = SelectSeq(backends, LAMBDA b : b \in up))
=============================================================================
