------------------------------ MODULE AtomicMaps ------------------------------
(***************************************************************************)
(* What the double-buffered kernel maps promise to whoever reads them      *)
(* (DESIGN.md, "Double-buffering"): the backend list, the lookup table and *)
(* the session map are replaced together, in one step, or not at all;      *)
(* between two replacements only the session map changes, one session      *)
(* learned by the XDP program or one batch of userland at a time.          *)
(***************************************************************************)
EXTENDS Naturals, Sequences, FiniteSets

CONSTANTS Requests,     \* the objects userland may ask to set
          Batches,      \* the session batches userland may update
          Sessions,     \* session ids
          Slots,        \* keys of the lookup table
          Indices,      \* keys of the backend array
          SessionsMax   \* capacity of the session map

VARIABLES list,         \* the live backend list
          table,        \* the live lookup table
          sessions      \* the live session map

vars == <<list, table, sessions>>

SessionMaps == UNION {[S -> Indices] : S \in SUBSET Sessions}

\* f with every key of g added or overwritten.
Merge(f, g) == [k \in DOMAIN f \cup DOMAIN g |-> IF k \in DOMAIN g THEN g[k] ELSE f[k]]

\* A packet that read the pointer before the last replacement may still pin
\* its session in the maps that this one makes live.
Replace(r, late) ==
    /\ list' = r.list
    /\ table' = r.table
    /\ sessions' = Merge(r.sessions, late)

Learn(s, i) ==
    /\ s \in DOMAIN sessions \/ Cardinality(DOMAIN sessions) < SessionsMax
    /\ sessions' = Merge(sessions, [t \in {s} |-> i])
    /\ UNCHANGED <<list, table>>

Update(b) ==
    /\ sessions' = Merge(sessions, b)
    /\ UNCHANGED <<list, table>>

Delete(S) ==
    /\ sessions' = [t \in DOMAIN sessions \ S |-> sessions[t]]
    /\ UNCHANGED <<list, table>>

Next ==
    \/ \E r \in Requests, late \in SessionMaps : Replace(r, late)
    \/ \E s \in Sessions, i \in Indices : Learn(s, i)
    \/ \E b \in Batches : Update(b) \/ Delete(DOMAIN b)

\* The maps are created zeroed and empty.
Init ==
    /\ list = <<>>
    /\ table = [k \in Slots |-> 0]
    /\ sessions = [s \in {} |-> 0]

Spec == Init /\ [][Next]_vars
=============================================================================
