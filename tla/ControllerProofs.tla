-------------------------- MODULE ControllerProofs --------------------------
(***************************************************************************)
(* For every number of backends, every set of sessions and slots and all   *)
(* bounds: the safety properties of Controller.                            *)
(*                                                                         *)
(* The argument.  c.mu is held from the recomputation to the return of     *)
(* SetObjects, so what a call pushes still belongs to the status and to    *)
(* the session map when it reaches the kernel.  filterAvailable lists      *)
(* exactly the available backends, each once and in order (by induction    *)
(* over the loop), so that every remapped index is one of the list; and if *)
(* the list is a prefix of c.backends, every index that stays is its own   *)
(* image.                                                                  *)
(***************************************************************************)
EXTENDS Controller, SequenceTheorems, WellFoundedInduction, TLAPS

(***************************************************************************)
(* Induction over the naturals, as a statement about sets of them.         *)
(***************************************************************************)
LEMMA NatLeast == \A T \in SUBSET Nat : T # {} => \E x \in T : \A y \in T : x <= y
  <1> SUFFICES ASSUME NEW T \in SUBSET Nat, T # {}
               PROVE \E x \in T : \A y \in T : x <= y
    OBVIOUS
  <1>1. \E x \in T : \A y \in T : ~(<<y, x>> \in OpToRel(<, Nat))
    BY NatLessThanWellFounded, WFMin, Zenon
  <1>2. PICK x \in T : \A y \in T : ~(<<y, x>> \in OpToRel(<, Nat))
    BY <1>1, Zenon
  <1>3. OpToRel(<, Nat) = {ss \in Nat \X Nat : ss[1] < ss[2]}
    BY Zenon DEF OpToRel
  <1>4. ASSUME NEW y \in T PROVE x <= y
    <2>1. ~(<<y, x>> \in {ss \in Nat \X Nat : ss[1] < ss[2]})
      BY <1>2, <1>3, Zenon
    <2>2. QED
      BY <2>1
  <1>5. QED
    BY <1>4

LEMMA SetInduction ==
  \A S \in SUBSET Nat : (0 \in S /\ \A i \in S : i + 1 \in S) => S = Nat
  <1> SUFFICES ASSUME NEW S \in SUBSET Nat, 0 \in S, \A i \in S : i + 1 \in S, Nat \ S # {}
               PROVE FALSE
    BY Zenon
  <1>1. PICK x \in Nat \ S : \A y \in Nat \ S : x <= y
    BY NatLeast, Zenon
  <1>2. x # 0 /\ x - 1 \in Nat /\ x - 1 \notin Nat \ S
    BY <1>1
  <1>3. x - 1 \in S /\ (x - 1) + 1 = x
    BY <1>2
  <1>4. QED
    BY <1>3, Zenon

(***************************************************************************)
(* filterAvailable.  The recursive function of its definition exists, and  *)
(* so satisfies its equation.                                              *)
(***************************************************************************)
Step(st, f, i) ==
    IF i = 0 THEN <<>>
    ELSE IF st[i - 1] = "available" THEN Append(f[i - 1], i - 1) ELSE f[i - 1]

Upto(st) == CHOOSE f : f = [i \in 0 .. N |-> IF i = 0 THEN <<>>
                  ELSE IF st[i - 1] = "available" THEN Append(f[i - 1], i - 1) ELSE f[i - 1]]

LEMMA FilterIsLast == \A st : filterAvailable(st) = Upto(st)[N]
  BY Zenon DEF filterAvailable, Upto

LEMMA UptoEquation ==
  ASSUME NEW st
  PROVE \A i \in 0 .. N : Upto(st)[i] = Step(st, Upto(st), i)
  <1> DEFINE S == {n \in Nat : \E f : f = [i \in 0 .. n |-> Step(st, f, i)]}
  <1>1. 0 \in S
    <2> DEFINE f == [i \in 0 .. 0 |-> <<>>]
    <2>1. f = [i \in 0 .. 0 |-> Step(st, f, i)]
      BY DEF Step
    <2>2. QED
      BY <2>1, Zenon
  <1>2. ASSUME NEW n \in S PROVE n + 1 \in S
    <2>1. PICK f : f = [i \in 0 .. n |-> Step(st, f, i)]
      OBVIOUS
    <2> DEFINE g == [i \in 0 .. n + 1 |-> IF i = n + 1 THEN Step(st, f, n + 1) ELSE f[i]]
    <2>2. \A i \in 0 .. n : g[i] = f[i]
      OBVIOUS
    <2>3. ASSUME NEW i \in 0 .. n + 1 PROVE Step(st, g, i) = Step(st, f, i)
      <3>1. CASE i = 0
        BY <3>1, Zenon DEF Step
      <3>2. CASE i # 0
        <4>1. i - 1 \in 0 .. n
          BY <3>2
        <4>2. g[i - 1] = f[i - 1]
          BY <2>2, <4>1, Zenon
        <4> HIDE DEF g
        <4>3. QED
          BY <3>2, <4>2, Zenon DEF Step
      <3>3. QED
        BY <3>1, <3>2
    <2>4. ASSUME NEW i \in 0 .. n + 1 PROVE g[i] = Step(st, g, i)
      <3>1. CASE i = n + 1
        BY <3>1, <2>3, Zenon
      <3>2. CASE i # n + 1
        <4>1. i \in 0 .. n
          BY <3>2, SMTT(30)
        <4>2. f[i] = Step(st, f, i)
          BY <2>1, <4>1, Zenon
        <4>3. QED
          BY <4>1, <4>2, <2>2, <2>3, Zenon
      <3>3. QED
        BY <3>1, <3>2, Zenon
    <2>5. g = [i \in 0 .. n + 1 |-> g[i]]
      BY Zenon
    <2> HIDE DEF g
    <2>6. g = [i \in 0 .. n + 1 |-> Step(st, g, i)]
      BY <2>4, <2>5
    <2>7. QED
      BY <2>6
  <1>3. S = Nat
    <2> HIDE DEF S
    <2>1. S \in SUBSET Nat
      BY Zenon DEF S
    <2>2. QED
      BY <1>1, <1>2, <2>1, SetInduction, Zenon
  <1>4. \E f : f = [i \in 0 .. N |-> Step(st, f, i)]
    BY <1>3, ControllerAssumption, Zenon
  <1>5. Upto(st) = [i \in 0 .. N |-> Step(st, Upto(st), i)]
    <2>1. Upto(st) = CHOOSE f : f = [i \in 0 .. N |-> Step(st, f, i)]
      BY Zenon DEF Upto, Step
    <2>2. QED
      BY <1>4, <2>1, Zenon
  <1>6. QED
    BY <1>5, Zenon

\* What the list of the available ones among the first i backends is.
Filters(st, l, i) ==
    /\ l \in Seq(Ids)
    /\ \A x \in DOMAIN l : l[x] < i /\ st[l[x]] = "available"
    /\ \A b \in 0 .. i - 1 : st[b] = "available" => \E x \in DOMAIN l : l[x] = b
    /\ \A x, y \in DOMAIN l : x < y => l[x] < l[y]

LEMMA FiltersStep ==
  ASSUME NEW st, NEW l, NEW i \in 0 .. N - 1, Filters(st, l, i)
  PROVE Filters(st, IF st[i] = "available" THEN Append(l, i) ELSE l, i + 1)
  <1> USE ControllerAssumption
  <1>1. l \in Seq(Ids) /\ i \in Ids /\ Len(l) \in Nat /\ DOMAIN l = 1 .. Len(l)
    BY DEF Filters, Ids
  <1>2. \A x \in DOMAIN l : l[x] \in Nat /\ l[x] < i
    BY <1>1 DEF Filters, Ids
  <1>3. CASE st[i] = "available"
    <2> DEFINE t == Append(l, i)
    <2>1. /\ t \in Seq(Ids) /\ Len(t) = Len(l) + 1 /\ DOMAIN t = 1 .. Len(l) + 1
          /\ t[Len(l) + 1] = i /\ \A x \in 1 .. Len(l) : t[x] = l[x]
      BY <1>1
    <2> HIDE DEF t
    <2>2. \A x \in DOMAIN t : t[x] < i + 1 /\ st[t[x]] = "available"
      BY <1>1, <1>2, <1>3, <2>1, SMTT(30) DEF Filters
    <2>3. \A b \in 0 .. i : st[b] = "available" => \E x \in DOMAIN t : t[x] = b
      <3> SUFFICES ASSUME NEW b \in 0 .. i, st[b] = "available" PROVE \E x \in DOMAIN t : t[x] = b
        BY Zenon
      <3>1. CASE b = i
        <4>1. Len(l) + 1 \in DOMAIN t
          BY <1>1, <2>1, SMTT(30)
        <4> QED
          BY <3>1, <2>1, <4>1, Zenon
      <3>2. CASE b # i
        <4>1. PICK x \in DOMAIN l : l[x] = b
          BY <3>2, SMTT(30) DEF Filters
        <4>2. QED
          BY <4>1, <1>1, <2>1, SMTT(30)
      <3>3. QED
        BY <3>1, <3>2, Zenon
    <2>4. \A x, y \in DOMAIN t : x < y => t[x] < t[y]
      BY <1>1, <1>2, <2>1, SMTT(30) DEF Filters
    <2>5. Filters(st, t, i + 1)
      BY <2>1, <2>2, <2>3, <2>4, SMTT(30) DEF Filters
    <2>6. QED
      BY <1>3, <2>5, Zenon DEF t
  <1>4. CASE st[i] # "available"
    <2>1. \A x \in DOMAIN l : l[x] < i + 1
      BY <1>2, SMTT(30)
    <2>2. \A b \in 0 .. i : st[b] = "available" => b \in 0 .. i - 1
      BY <1>4
    <2>3. QED
      BY <1>4, <2>1, <2>2, SMTT(30) DEF Filters
  <1>5. QED
    BY <1>3, <1>4, Zenon

LEMMA Filtered == \A st : Filters(st, filterAvailable(st), N)
  <1> SUFFICES ASSUME NEW st PROVE Filters(st, filterAvailable(st), N)
    BY Zenon
  <1> USE ControllerAssumption
  <1> DEFINE S == {i \in Nat : i <= N => Filters(st, Upto(st)[i], i)}
  <1>1. 0 \in S
    <2>1. Upto(st)[0] = <<>>
      BY UptoEquation DEF Step
    <2>2. Filters(st, <<>>, 0)
      BY DEF Filters
    <2>3. QED
      BY <2>1, <2>2, Zenon
  <1>2. ASSUME NEW i \in S PROVE i + 1 \in S
    <2> SUFFICES ASSUME i + 1 <= N PROVE Filters(st, Upto(st)[i + 1], i + 1)
      BY SMTT(30)
    <2>1. i + 1 \in 0 .. N /\ i \in 0 .. N - 1 /\ (i + 1) - 1 = i /\ i + 1 # 0
      OBVIOUS
    <2>2. Upto(st)[i + 1] = Step(st, Upto(st), i + 1)
      BY <2>1, UptoEquation
    <2>3. Upto(st)[i + 1] = IF st[i] = "available" THEN Append(Upto(st)[i], i) ELSE Upto(st)[i]
      BY <2>1, <2>2, Zenon DEF Step
    <2>4. QED
      BY <2>1, <2>3, FiltersStep
  <1>3. S = Nat
    <2> HIDE DEF S
    <2>1. S \in SUBSET Nat
      BY Zenon DEF S
    <2>2. QED
      BY <1>1, <1>2, <2>1, SetInduction, Zenon
  <1>4. QED
    BY <1>3, FilterIsLast

(***************************************************************************)
(* The session map that is pushed: an entry stays if its value, taken as   *)
(* an index of c.backends, is an available backend, and becomes the        *)
(* position of that backend in the new list.                               *)
(***************************************************************************)
LEMMA RemappedFacts ==
  ASSUME NEW l \in Seq(Ids), NEW sm
  PROVE  /\ DOMAIN remapped(sm, l) = {s \in DOMAIN sm : \E i \in DOMAIN l : l[i] = sm[s]}
         /\ \A s \in DOMAIN remapped(sm, l) :
              remapped(sm, l)[s] \in 0 .. Len(l) - 1 /\ l[remapped(sm, l)[s] + 1] = sm[s]
         /\ remapped(sm, l) = [s \in DOMAIN remapped(sm, l) |-> remapped(sm, l)[s]]
  <1> DEFINE ix == newIndexByID(l)
  <1>1. DOMAIN ix = {l[i] : i \in DOMAIN l}
    BY Zenon DEF newIndexByID
  <1>2. ASSUME NEW b \in DOMAIN ix PROVE ix[b] \in 0 .. Len(l) - 1 /\ l[ix[b] + 1] = b
    <2> DEFINE c == CHOOSE i \in DOMAIN l : l[i] = b
    <2>1. c \in DOMAIN l /\ l[c] = b
      BY <1>1, Zenon
    <2>2. ix[b] = c - 1
      BY <1>1, Zenon DEF newIndexByID
    <2> HIDE DEF c, ix
    <2>3. c \in 1 .. Len(l) /\ Len(l) \in Nat
      BY <2>1
    <2>4. QED
      BY <2>1, <2>2, <2>3
  <1> HIDE DEF ix
  <1>3. remapped(sm, l) = [s \in {t \in DOMAIN sm : sm[t] \in DOMAIN ix} |-> ix[sm[s]]]
    BY Zenon DEF remapped, ix
  <1>4. QED
    BY <1>1, <1>2, <1>3

(***************************************************************************)
(* Types.                                                                  *)
(***************************************************************************)
IsSessionMap(f, V) == DOMAIN f \subseteq Sessions /\ f \in [DOMAIN f -> V]

JobTypeOK ==
    /\ job.origin \in {"run", "health"}
    /\ job.list \in Seq(Ids)
    /\ job.table \in [Slots -> Nat]
    /\ IsSessionMap(job.sessions, Nat)

TypeOK ==
    /\ up \subseteq Ids /\ toProbe \subseteq Ids
    /\ healthCh \in Seq([id : Ids, state : States]) /\ Len(healthCh) <= HealthCap
    /\ status \in [Ids -> States]
    /\ IsSessionMap(sessionMap, Nat)
    /\ job # Idle => JobTypeOK
    /\ phase \in {"starting", "running", "exited"}
    /\ kList \in Seq(Ids) /\ kTable \in [Slots -> Nat] /\ IsSessionMap(kSessions, Nat)
    /\ pending \in Seq([session : Sessions, backend : Ids \cup {NoBackend}])
    /\ Len(pending) <= PendingMax
    /\ bounds \in [flaps : 0 .. MaxFlaps, drops : 0 .. MaxDrops, failures : 0 .. MaxFailures]
    /\ IsSessionMap(assigned, Ids)
    /\ shifted \in BOOLEAN /\ stale \in BOOLEAN

(***************************************************************************)
(* The inductive invariant.  What SetObjects was called with belongs to    *)
(* the status of that moment, which cannot change before it returns; and   *)
(* as long as no recomputation has shifted an index, c.sessionMap is the   *)
(* map of assignments itself.                                              *)
(***************************************************************************)
JobCurrent ==
    job # Idle =>
        /\ job.list = filterAvailable(status) /\ job.list # <<>>
        /\ \A k \in Slots : job.table[k] < Len(job.list)
        /\ job.sessions = sessionMap
        /\ \A s \in DOMAIN job.sessions : job.sessions[s] < Len(job.list)

Unshifted ==
    ~shifted =>
        /\ sessionMap = assigned
        /\ job # Idle => \A i \in DOMAIN job.list : job.list[i] = i - 1

IInv == TypeOK /\ JobCurrent /\ KernelMatchesStatus /\ KernelIndicesLive /\ Unshifted

LEMMA IdleFacts == \A j : j.origin \in {"run", "health"} => j # Idle
  BY DEF Idle

LEMMA RemoveAtSeq ==
  ASSUME NEW S, NEW q \in Seq(S), NEW i \in DOMAIN q
  PROVE RemoveAt(q, i) \in Seq(S) /\ Len(RemoveAt(q, i)) = Len(q) - 1
  <1>1. i \in 1 .. Len(q) /\ Len(q) \in Nat
    BY SMTT(30)
  <1>2. SubSeq(q, 1, i - 1) \in Seq(S) /\ Len(SubSeq(q, 1, i - 1)) = i - 1
    BY <1>1, SubSeqProperties
  <1>3. SubSeq(q, i + 1, Len(q)) \in Seq(S) /\ Len(SubSeq(q, i + 1, Len(q))) = Len(q) - i
    BY <1>1, SubSeqProperties, SMTT(30)
  <1> DEFINE a == SubSeq(q, 1, i - 1)
             b == SubSeq(q, i + 1, Len(q))
  <1>4. RemoveAt(q, i) = a \o b
    BY Zenon DEF RemoveAt
  <1> HIDE DEF a, b
  <1>5. a \in Seq(S) /\ b \in Seq(S) /\ Len(a) = i - 1 /\ Len(b) = Len(q) - i
    BY <1>2, <1>3, Zenon DEF a, b
  <1>6. a \o b \in Seq(S) /\ Len(a \o b) = Len(a) + Len(b)
    BY <1>5, ConcatProperties, Zenon
  <1>7. QED
    BY <1>1, <1>4, <1>5, <1>6

LEMMA MergeIsMap ==
  ASSUME NEW V, NEW f, NEW g, IsSessionMap(f, V), IsSessionMap(g, V)
  PROVE  IsSessionMap(Kernel!Merge(f, g), V)
  BY Zenon DEF IsSessionMap, Kernel!Merge

LEMMA NoMapIsMap == \A V : IsSessionMap(NoMap, V)
  BY DEF NoMap, IsSessionMap

\* A recomputation skips, or calls SetObjects.
Skips(st, o) ==
    /\ filterAvailable(st) = <<>>
    /\ UNCHANGED <<sessionMap, job, assigned, shifted>>
    /\ phase' = IF o = "run" THEN "running" ELSE phase

Calls(st, o) ==
    /\ filterAvailable(st) # <<>>
    /\ job'.origin = o
    /\ job'.list = filterAvailable(st)
    /\ job'.table \in [Slots -> 0 .. Len(filterAvailable(st)) - 1]
    /\ job'.sessions = sessionMap'
    /\ sessionMap' = remapped(sessionMap, filterAvailable(st))
    /\ assigned' = Restricted(assigned, {s \in DOMAIN assigned : st[assigned[s]] = "available"})
    /\ shifted' = (shifted \/ ~IsPrefix(filterAvailable(st), backends))
    /\ phase' = phase

LEMMA RecomputeCases ==
  ASSUME NEW st, NEW o, recompute(st, o)
  PROVE Skips(st, o) \/ Calls(st, o)
  <1>1. CASE filterAvailable(st) = <<>>
    BY <1>1, Zenon DEF recompute, Skips
  <1>2. CASE filterAvailable(st) # <<>>
    <2> DEFINE l == filterAvailable(st)
    <2> HIDE DEF l
    <2>1. PICK t \in LookupTables(Len(l)) :
             job' = [origin |-> o, list |-> l, table |-> t, sessions |-> remapped(sessionMap, l)]
      BY <1>2, Zenon DEF recompute, l
    <2>2. /\ sessionMap' = remapped(sessionMap, l)
          /\ assigned' = Restricted(assigned, {s \in DOMAIN assigned : st[assigned[s]] = "available"})
          /\ shifted' = (shifted \/ ~IsPrefix(l, backends))
          /\ phase' = phase
      BY <1>2, Zenon DEF recompute, l
    <2>3. /\ job'.origin = o /\ job'.list = l /\ job'.table = t
          /\ job'.sessions = remapped(sessionMap, l)
      BY <2>1, Zenon
    <2>4. QED
      BY <1>2, <2>2, <2>3, Zenon DEF Calls, LookupTables, l
  <1>3. QED
    BY <1>1, <1>2

LEMMA RecomputeTypes ==
  ASSUME TypeOK, NEW st, NEW o \in {"run", "health"}, recompute(st, o), job = Idle
  PROVE /\ IsSessionMap(sessionMap', Nat)
        /\ job' # Idle => JobTypeOK'
        /\ phase' \in {"starting", "running", "exited"}
        /\ IsSessionMap(assigned', Ids)
        /\ shifted' \in BOOLEAN
  <1>1. CASE Skips(st, o)
    BY <1>1, Zenon DEF Skips, TypeOK
  <1>2. CASE Calls(st, o)
    <2> DEFINE l == filterAvailable(st)
    <2>1. l \in Seq(Ids)
      BY Filtered, Zenon DEF Filters
    <2> HIDE DEF l
    <2>2. IsSessionMap(remapped(sessionMap, l), Nat)
      <3>1. Len(l) \in Nat /\ DOMAIN sessionMap \subseteq Sessions
        BY <2>1 DEF TypeOK, IsSessionMap
      <3> DEFINE r == remapped(sessionMap, l)
      <3>2. /\ DOMAIN r = {s \in DOMAIN sessionMap : \E i \in DOMAIN l : l[i] = sessionMap[s]}
            /\ \A s \in DOMAIN r : r[s] \in 0 .. Len(l) - 1 /\ l[r[s] + 1] = sessionMap[s]
            /\ r = [s \in DOMAIN r |-> r[s]]
        BY <2>1, RemappedFacts, Zenon
      <3> HIDE DEF r
      <3>3. IsSessionMap(r, Nat)
        BY <3>1, <3>2, SMTT(30) DEF IsSessionMap
      <3>4. QED
        BY <3>3, Zenon DEF r
    <2>3. IsSessionMap(assigned', Ids)
      BY <1>2, Zenon DEF Calls, TypeOK, IsSessionMap, Restricted
    <2>4. JobTypeOK'
      <3>1. job'.table \in [Slots -> Nat]
        BY <1>2, <2>1, SMTT(30) DEF Calls, l
      <3>2. QED
        BY <1>2, <2>1, <2>2, <3>1, Zenon DEF Calls, JobTypeOK, l
    <2>5. QED
      BY <1>2, <2>2, <2>3, <2>4, Zenon DEF Calls, TypeOK, l
  <1>3. QED
    BY <1>1, <1>2, RecomputeCases, Zenon

LEMMA BoundsAreNat ==
  /\ N \in Nat \ {0} /\ Hash \in [Sessions -> Slots]
  /\ HealthCap \in Nat /\ PendingMax \in Nat
  /\ MaxFlaps \in Nat /\ MaxDrops \in Nat /\ MaxFailures \in Nat
  BY ControllerAssumption, Zenon

LEMMA InitTypeOK == Init => TypeOK
  <1> SUFFICES ASSUME Init PROVE TypeOK
    OBVIOUS
  <1> USE BoundsAreNat
  <1>1. IsSessionMap(sessionMap, Nat) /\ IsSessionMap(assigned, Ids)
    BY NoMapIsMap, Zenon DEF Init
  <1>2. kList = <<>> /\ kTable = [k \in Slots |-> 0] /\ kSessions = NoMap
    BY Zenon DEF Init, Kernel!Init, NoMap
  <1>3. IsSessionMap(kSessions, Nat)
    BY <1>2, NoMapIsMap
  <1>4. QED
    <2>1. bounds \in [flaps : 0 .. MaxFlaps, drops : 0 .. MaxDrops, failures : 0 .. MaxFailures]
      BY SMTT(30) DEF Init
    <2>2. /\ healthCh \in Seq([id : Ids, state : States]) /\ Len(healthCh) <= HealthCap
          /\ pending \in Seq([session : Sessions, backend : Ids \cup {NoBackend}])
          /\ Len(pending) <= PendingMax
      BY DEF Init
    <2>3. kList \in Seq(Ids) /\ kTable \in [Slots -> Nat]
      BY <1>2
    <2>4. status \in [Ids -> States]
      BY Zenon DEF Init, States
    <2>5. QED
      BY <1>1, <1>3, <2>1, <2>2, <2>3, <2>4, Zenon DEF Init, TypeOK

LEMMA NextTypeOK == TypeOK /\ [Next]_vars => TypeOK'
  <1> SUFFICES ASSUME TypeOK, [Next]_vars PROVE TypeOK'
    BY ZenonT(30)
  <1> USE BoundsAreNat
  <1>1. ASSUME NEW b \in Ids, Flap(b) PROVE TypeOK'
    <2>1. bounds' \in [flaps : 0 .. MaxFlaps, drops : 0 .. MaxDrops, failures : 0 .. MaxFailures]
      <3>1. bounds \in [flaps : 0 .. MaxFlaps, drops : 0 .. MaxDrops, failures : 0 .. MaxFailures]
        BY Zenon DEF TypeOK
      <3>2. bounds.flaps < MaxFlaps /\ bounds' = [bounds EXCEPT !.flaps = bounds.flaps + 1]
        BY <1>1 DEF Flap
      <3>3. QED
        BY <3>1, <3>2, SMTT(30)
    <2>2. up' \subseteq Ids
      BY <1>1, Zenon DEF Flap, TypeOK
    <2>3. QED
      BY <1>1, <2>1, <2>2, Zenon DEF Flap, TypeOK, JobTypeOK, kernel
  <1>2. ASSUME NEW b \in Ids, Probe(b) PROVE TypeOK'
    <2>1. ProbeResult(b) \in [id : Ids, state : States]
      BY Zenon DEF ProbeResult, States
    <2>2. /\ healthCh' \in Seq([id : Ids, state : States]) /\ Len(healthCh') <= HealthCap
      BY <1>2, <2>1 DEF Probe, TypeOK
    <2>3. toProbe' \subseteq Ids
      BY <1>2, Zenon DEF Probe, TypeOK, AfterProbe
    <2>4. QED
      BY <1>2, <2>2, <2>3, Zenon DEF Probe, TypeOK, JobTypeOK, kernel
  <1>3. ASSUME NEW b \in Ids, ProbeDropped(b) PROVE TypeOK'
    <2>1. bounds' \in [flaps : 0 .. MaxFlaps, drops : 0 .. MaxDrops, failures : 0 .. MaxFailures]
      <3>1. bounds \in [flaps : 0 .. MaxFlaps, drops : 0 .. MaxDrops, failures : 0 .. MaxFailures]
        BY Zenon DEF TypeOK
      <3>2. bounds.drops < MaxDrops /\ bounds' = [bounds EXCEPT !.drops = bounds.drops + 1]
        BY <1>3 DEF ProbeDropped
      <3>3. QED
        BY <3>1, <3>2, SMTT(30)
    <2>2. toProbe' \subseteq Ids
      BY <1>3, Zenon DEF ProbeDropped, TypeOK, AfterProbe
    <2>3. QED
      BY <1>3, <2>1, <2>2, Zenon DEF ProbeDropped, TypeOK, JobTypeOK, kernel
  <1>4. CASE Run
    <2>1. /\ IsSessionMap(sessionMap', Nat) /\ IsSessionMap(assigned', Ids)
          /\ job' # Idle => JobTypeOK'
          /\ phase' \in {"starting", "running", "exited"} /\ shifted' \in BOOLEAN
      BY <1>4, RecomputeTypes, Zenon DEF Run
    <2>2. QED
      BY <1>4, <2>1, Zenon DEF Run, TypeOK, monitor, kernel
  <1>5. CASE healthLoop
    <2> DEFINE entry == Head(healthCh)
               st == [status EXCEPT ![entry.id] = entry.state]
    <2>1. entry \in [id : Ids, state : States] /\ Tail(healthCh) \in Seq([id : Ids, state : States])
          /\ Len(Tail(healthCh)) <= HealthCap
      <3>1. healthCh # <<>> /\ healthCh \in Seq([id : Ids, state : States])
        BY <1>5, Zenon DEF healthLoop, TypeOK
      <3>2. /\ entry \in [id : Ids, state : States]
            /\ Tail(healthCh) \in Seq([id : Ids, state : States])
            /\ Len(Tail(healthCh)) = Len(healthCh) - 1 /\ Len(healthCh) \in Nat
        BY <3>1, HeadTailProperties, LenProperties, Zenon
      <3>3. QED
        BY <3>2, SMTT(30) DEF TypeOK
    <2>2. status' = st /\ healthCh' = Tail(healthCh) /\ job = Idle
      BY <1>5, Zenon DEF healthLoop
    <2>3. status' \in [Ids -> States]
      BY <2>1, <2>2, Zenon DEF TypeOK
    <2>4. /\ IsSessionMap(sessionMap', Nat) /\ IsSessionMap(assigned', Ids)
          /\ job' # Idle => JobTypeOK'
          /\ phase' \in {"starting", "running", "exited"} /\ shifted' \in BOOLEAN
      <3>1. CASE status[entry.id] # entry.state
        <4>1. recompute(st, "health")
          BY <1>5, <3>1, Zenon DEF healthLoop
        <4> HIDE DEF st
        <4>2. QED
          BY <2>2, <4>1, RecomputeTypes, Zenon
      <3>2. CASE status[entry.id] = entry.state
        BY <1>5, <3>2, Zenon DEF healthLoop, TypeOK
      <3>3. QED
        BY <3>1, <3>2, Zenon
    <2>5. QED
      BY <1>5, <2>1, <2>2, <2>3, <2>4, Zenon DEF healthLoop, TypeOK, kernel
  <1>6. CASE SetObjects
    <2>1. JobTypeOK
      BY <1>6, Zenon DEF SetObjects, TypeOK
    <2>2. /\ kList' = job.list /\ kTable' = job.table
          /\ kSessions' = Kernel!Merge(job.sessions, NoMap)
      BY <1>6, Zenon DEF SetObjects, Kernel!Replace
    <2>3. IsSessionMap(kSessions', Nat)
      BY <2>1, <2>2, MergeIsMap, NoMapIsMap, Zenon DEF JobTypeOK
    <2>4. QED
      BY <1>6, <2>1, <2>2, <2>3, Zenon DEF SetObjects, TypeOK, JobTypeOK, monitor
  <1>7. CASE SetObjectsFails
    <2>1. bounds' \in [flaps : 0 .. MaxFlaps, drops : 0 .. MaxDrops, failures : 0 .. MaxFailures]
      <3>1. bounds \in [flaps : 0 .. MaxFlaps, drops : 0 .. MaxDrops, failures : 0 .. MaxFailures]
        BY Zenon DEF TypeOK
      <3>2. bounds.failures < MaxFailures /\ bounds' = [bounds EXCEPT !.failures = bounds.failures + 1]
        BY <1>7 DEF SetObjectsFails
      <3>3. QED
        BY <3>1, <3>2, SMTT(30)
    <2>2. QED
      BY <1>7, <2>1, Zenon DEF SetObjectsFails, TypeOK, monitor, kernel
  <1>8. ASSUME NEW s \in Sessions, NewSession(s) PROVE TypeOK'
    <2> DEFINE i == kTable[Hash[s]]
               b == IF i < Len(kList) THEN kList[i + 1] ELSE NoBackend
    <2>1. i \in Nat /\ b \in Ids \cup {NoBackend}
      BY SMTT(30) DEF TypeOK
    <2>2. pending' = (IF Len(pending) < PendingMax
                      THEN Append(pending, [session |-> s, backend |-> b]) ELSE pending)
      BY <1>8, Zenon DEF NewSession
    <2>3. \/ UNCHANGED kernel
          \/ UNCHANGED <<kList, kTable>> /\ kSessions' = Kernel!Merge(kSessions, [t \in {s} |-> i])
      BY <1>8, Zenon DEF NewSession, Kernel!Learn
    <2> HIDE DEF i, b
    <2>4. /\ pending' \in Seq([session : Sessions, backend : Ids \cup {NoBackend}])
          /\ Len(pending') <= PendingMax
      <3> DEFINE P == [session : Sessions, backend : Ids \cup {NoBackend}]
      <3>1. [session |-> s, backend |-> b] \in P
        BY <2>1, Zenon
      <3>2. pending \in Seq(P) /\ Len(pending) \in Nat /\ Len(pending) <= PendingMax
        BY DEF TypeOK
      <3> HIDE DEF P
      <3>3. /\ Append(pending, [session |-> s, backend |-> b]) \in Seq(P)
            /\ Len(Append(pending, [session |-> s, backend |-> b])) = Len(pending) + 1
        BY <3>1, <3>2, AppendProperties, Zenon
      <3>4. pending' \in Seq(P) /\ Len(pending') <= PendingMax
        BY <2>2, <3>2, <3>3, SMTT(30)
      <3>5. QED
        BY <3>4, Zenon DEF P
    <2>5. kList' \in Seq(Ids) /\ kTable' \in [Slots -> Nat] /\ IsSessionMap(kSessions', Nat)
      <3>1. IsSessionMap([t \in {s} |-> i], Nat)
        BY <2>1, Zenon DEF IsSessionMap
      <3>2. QED
        BY <2>3, <3>1, MergeIsMap, SMTT(30) DEF TypeOK, kernel
    <2>6. QED
      BY <1>8, <2>4, <2>5, Zenon DEF NewSession, TypeOK, JobTypeOK, monitor
  <1>9. ASSUME NEW i \in DOMAIN pending, LoseAssignment(i) PROVE TypeOK'
    <2>1. /\ pending' \in Seq([session : Sessions, backend : Ids \cup {NoBackend}])
          /\ Len(pending') <= PendingMax
      BY <1>9, RemoveAtSeq, SMTT(30) DEF LoseAssignment, TypeOK
    <2>2. QED
      BY <1>9, <2>1, Zenon DEF LoseAssignment, TypeOK, JobTypeOK, monitor, kernel
  <1>10. ASSUME NEW i \in DOMAIN pending, assignmentLoop(i) PROVE TypeOK'
    <2>1. /\ pending' \in Seq([session : Sessions, backend : Ids \cup {NoBackend}])
          /\ Len(pending') <= PendingMax
      BY <1>10, RemoveAtSeq, SMTT(30) DEF assignmentLoop, TypeOK
    <2> DEFINE a == pending[i]
               entry == [s \in {a.session} |-> a.backend]
    <2>2. a.session \in Sessions
      <3> DEFINE P == [session : Sessions, backend : Ids \cup {NoBackend}]
      <3>1. pending \in Seq(P)
        BY Zenon DEF TypeOK
      <3> HIDE DEF P
      <3>2. a \in P
        BY <3>1
      <3>3. QED
        BY <3>2, Zenon DEF P
    <2>3. IsSessionMap(sessionMap', Nat) /\ IsSessionMap(assigned', Ids)
      <3>1. CASE a.backend \in Ids
        <4>1. sessionMap' = Kernel!Merge(sessionMap, entry) /\ assigned' = Kernel!Merge(assigned, entry)
          BY <1>10, <3>1, Zenon DEF assignmentLoop
        <4>2. IsSessionMap(entry, Ids) /\ IsSessionMap(entry, Nat)
          BY <2>2, <3>1, SMTT(30) DEF IsSessionMap, Ids
        <4> HIDE DEF entry
        <4>3. QED
          BY <4>1, <4>2, MergeIsMap, Zenon DEF TypeOK
      <3>2. CASE a.backend \notin Ids
        BY <1>10, <3>2, Zenon DEF assignmentLoop, TypeOK
      <3>3. QED
        BY <3>1, <3>2, Zenon
    <2>4. QED
      BY <1>10, <2>1, <2>3, Zenon DEF assignmentLoop, TypeOK, monitor, kernel
  <1>11. CASE UNCHANGED vars
    BY <1>11, Zenon DEF vars, TypeOK, JobTypeOK, monitor, kernel
  <1>12. QED
    BY <1>1, <1>2, <1>3, <1>4, <1>5, <1>6, <1>7, <1>8, <1>9, <1>10, <1>11, Zenon DEF Next

(***************************************************************************)
(* The invariant is preserved.                                             *)
(***************************************************************************)

\* Backends of a prefix of c.backends keep their index ...
LEMMA PrefixFacts ==
  ASSUME NEW l \in Seq(Ids), IsPrefix(l, backends)
  PROVE  \A i \in DOMAIN l : l[i] = i - 1
  <1> USE BoundsAreNat
  <1>1. backends \in Seq(Ids) /\ Len(backends) = N /\ \A i \in 1 .. N : backends[i] = i - 1
    BY SMTT(30) DEF backends, Ids
  <1>2. Len(l) \in Nat /\ Len(l) <= N /\ SubSeq(l, 1, Len(l)) = SubSeq(backends, 1, Len(l))
    BY <1>1 DEF IsPrefix
  <1>3. ASSUME NEW i \in 1 .. Len(l) PROVE l[i] = i - 1
    <2>1. SubSeq(l, 1, Len(l))[i] = l[i]
      BY SMTT(30)
    <2>2. SubSeq(backends, 1, Len(l))[i] = backends[i]
      BY <1>1, <1>2
    <2>3. QED
      BY <1>1, <1>2, <2>1, <2>2, SMTT(30)
  <1>4. QED
    BY <1>3, SMTT(30)

\* ... so that remapping drops the sessions of unavailable backends and nothing else.
LEMMA RemappedUnshifted ==
  ASSUME NEW st, NEW sm, IsSessionMap(sm, Ids), IsPrefix(filterAvailable(st), backends)
  PROVE  remapped(sm, filterAvailable(st)) =
           Restricted(sm, {s \in DOMAIN sm : st[sm[s]] = "available"})
  <1> DEFINE l == filterAvailable(st)
             r == remapped(sm, l)
             a == Restricted(sm, {s \in DOMAIN sm : st[sm[s]] = "available"})
  <1> USE BoundsAreNat
  <1>1. Filters(st, l, N) /\ l \in Seq(Ids)
    BY Filtered, Zenon DEF Filters
  <1> HIDE DEF l
  <1>2. \A i \in DOMAIN l : l[i] = i - 1
    BY <1>1, PrefixFacts, Zenon DEF l
  <1>3. /\ DOMAIN r = {s \in DOMAIN sm : \E i \in DOMAIN l : l[i] = sm[s]}
        /\ \A s \in DOMAIN r : r[s] \in 0 .. Len(l) - 1 /\ l[r[s] + 1] = sm[s]
        /\ r = [s \in DOMAIN r |-> r[s]]
    BY <1>1, RemappedFacts, Zenon
  <1> HIDE DEF r
  <1>4. \A s \in DOMAIN sm : (\E i \in DOMAIN l : l[i] = sm[s]) <=> st[sm[s]] = "available"
    <2> SUFFICES ASSUME NEW s \in DOMAIN sm
                 PROVE (\E i \in DOMAIN l : l[i] = sm[s]) <=> st[sm[s]] = "available"
      BY Zenon
    <2>1. sm[s] \in 0 .. N - 1
      BY Zenon DEF IsSessionMap, Ids
    <2>2. QED
      BY <1>1, <2>1, Zenon DEF Filters
  <1>5. \A s \in DOMAIN r : r[s] = sm[s]
    <2> SUFFICES ASSUME NEW s \in DOMAIN r PROVE r[s] = sm[s]
      BY Zenon
    <2>1. r[s] \in 0 .. Len(l) - 1 /\ l[r[s] + 1] = sm[s] /\ Len(l) \in Nat
      BY <1>1, <1>3, SMTT(30)
    <2>2. r[s] + 1 \in DOMAIN l
      BY <1>1, <2>1, SMTT(30)
    <2>3. QED
      BY <1>2, <2>1, <2>2, SMTT(30)
  <1>6. a = [s \in DOMAIN r |-> sm[s]]
    <2>1. DOMAIN sm \cap {s \in DOMAIN sm : st[sm[s]] = "available"} = DOMAIN r
      BY <1>3, <1>4, Zenon
    <2>2. QED
      BY <2>1, Zenon DEF Restricted
  <1> HIDE DEF a
  <1>7. r = a
    BY <1>3, <1>5, <1>6, Zenon
  <1>8. QED
    BY <1>7, Zenon DEF r, a, l

LEMMA RecomputeInv ==
  ASSUME IInv, NEW o \in {"run", "health"}, recompute(status', o), job = Idle,
         UNCHANGED kernel
  PROVE  JobCurrent' /\ KernelMatchesStatus' /\ KernelIndicesLive' /\ Unshifted'
  <1>1. KernelIndicesLive'
    BY Zenon DEF IInv, KernelIndicesLive, kernel
  <1>2. CASE Skips(status', o)
    <2>1. filterAvailable(status)' = <<>>
      BY <1>2, Zenon DEF Skips, filterAvailable
    <2>2. QED
      BY <1>1, <1>2, <2>1, Zenon DEF Skips, IInv, JobCurrent, KernelMatchesStatus, Unshifted
  <1>3. CASE Calls(status', o)
    <2> DEFINE l == filterAvailable(status')
    <2>1. l = filterAvailable(status)'
      BY Zenon DEF filterAvailable
    <2>2. l \in Seq(Ids)
      BY Filtered, Zenon DEF Filters
    <2>3. job' # Idle
      BY <1>3, IdleFacts, SMTT(30) DEF Calls
    <2>4. KernelMatchesStatus'
      BY <2>3, Zenon DEF KernelMatchesStatus, Quiet
    <2>5. /\ job'.list = l /\ l # <<>> /\ job'.table \in [Slots -> 0 .. Len(l) - 1]
          /\ job'.sessions = sessionMap' /\ sessionMap' = remapped(sessionMap, l)
          /\ assigned' = Restricted(assigned, {s \in DOMAIN assigned : status'[assigned[s]] = "available"})
          /\ shifted' = (shifted \/ ~IsPrefix(l, backends))
      BY <1>3, Zenon DEF Calls
    <2>6. JobCurrent'
      <3> HIDE DEF l
      <3>1. \A s \in DOMAIN sessionMap' : sessionMap'[s] \in 0 .. Len(l) - 1
        BY <2>2, <2>5, RemappedFacts, Zenon
      <3>2. Len(l) \in Nat
        BY <2>2, SMTT(30)
      <3>3. \A k \in Slots : job'.table[k] < Len(job'.list)
        BY <2>5, <3>2, SMTT(30)
      <3>4. \A s \in DOMAIN job'.sessions : job'.sessions[s] < Len(job'.list)
        BY <2>5, <3>1, <3>2, SMTT(30)
      <3>5. QED
        BY <2>1, <2>5, <3>3, <3>4, Zenon DEF JobCurrent
    <2>7. Unshifted'
      <3> SUFFICES ASSUME ~shifted' PROVE
                     /\ sessionMap' = assigned'
                     /\ \A i \in DOMAIN job'.list : job'.list[i] = i - 1
        BY Zenon DEF Unshifted
      <3>1. ~shifted /\ IsPrefix(l, backends) /\ sessionMap = assigned /\ IsSessionMap(sessionMap, Ids)
        BY <2>5, Zenon DEF IInv, Unshifted, TypeOK
      <3>2. sessionMap' = assigned'
        BY <2>5, <3>1, RemappedUnshifted, Zenon
      <3> HIDE DEF l
      <3>3. QED
        BY <2>2, <2>5, <3>1, <3>2, PrefixFacts, Zenon
    <2>8. QED
      BY <1>1, <2>4, <2>6, <2>7, Zenon
  <1>4. QED
    BY <1>2, <1>3, RecomputeCases, Zenon

LEMMA InitIInv == Init => IInv
  <1> SUFFICES ASSUME Init PROVE IInv
    BY Zenon
  <1>1. job = Idle /\ phase = "starting" /\ kList = <<>> /\ sessionMap = assigned
    BY Zenon DEF Init, Kernel!Init
  <1>2. QED
    BY <1>1, InitTypeOK
   , Zenon DEF IInv, JobCurrent, KernelMatchesStatus, Quiet, KernelIndicesLive, Unshifted

\* A step that leaves the controller and the kernel alone.
LEMMA OthersInv ==
  ASSUME IInv, UNCHANGED <<status, sessionMap, job, phase, kernel, assigned, shifted, stale>>
  PROVE  JobCurrent' /\ KernelMatchesStatus' /\ KernelIndicesLive' /\ Unshifted'
  <1>1. filterAvailable(status)' = filterAvailable(status)
    BY Zenon DEF filterAvailable
  <1>2. KernelMatchesStatus'
    BY <1>1, Zenon DEF IInv, KernelMatchesStatus, Quiet, kernel
  <1>3. JobCurrent' /\ KernelIndicesLive' /\ Unshifted'
    BY <1>1, Zenon DEF IInv, JobCurrent, KernelIndicesLive, Unshifted, kernel
  <1>4. QED
    BY <1>2, <1>3, Zenon

LEMMA SetObjectsInv ==
  ASSUME IInv, SetObjects
  PROVE  JobCurrent' /\ KernelMatchesStatus' /\ KernelIndicesLive' /\ Unshifted'
  <1>1. job # Idle /\ job' = Idle /\ UNCHANGED <<status, sessionMap, assigned, shifted>>
    BY Zenon DEF SetObjects
  <1>2. filterAvailable(status)' = filterAvailable(status)
    BY <1>1, Zenon DEF filterAvailable
  <1>3. /\ kList' = job.list /\ kTable' = job.table
        /\ kSessions' = Kernel!Merge(job.sessions, NoMap)
    BY Zenon DEF SetObjects, Kernel!Replace
  <1>4. \A s \in DOMAIN kSessions' : s \in DOMAIN job.sessions /\ kSessions'[s] = job.sessions[s]
    BY <1>3, Zenon DEF Kernel!Merge, NoMap
  <1>5. KernelIndicesLive'
    BY <1>1, <1>3, <1>4, Zenon DEF IInv, JobCurrent, KernelIndicesLive
  <1>6. KernelMatchesStatus'
    BY <1>1, <1>2, <1>3, Zenon DEF IInv, JobCurrent, KernelMatchesStatus
  <1>7. JobCurrent' /\ Unshifted'
    BY <1>1, Zenon DEF IInv, JobCurrent, Unshifted
  <1>8. QED
    BY <1>5, <1>6, <1>7, Zenon

LEMMA SetObjectsFailsInv ==
  ASSUME IInv, SetObjectsFails
  PROVE  JobCurrent' /\ KernelMatchesStatus' /\ KernelIndicesLive' /\ Unshifted'
  <1>1. job' = Idle /\ stale' = TRUE /\ UNCHANGED <<sessionMap, kernel, assigned, shifted>>
    BY Zenon DEF SetObjectsFails
  <1>2. QED
    BY <1>1, Zenon DEF IInv, JobCurrent, KernelMatchesStatus, KernelIndicesLive, Unshifted, kernel

LEMMA NewSessionInv ==
  ASSUME IInv, NEW s \in Sessions, NewSession(s)
  PROVE  JobCurrent' /\ KernelMatchesStatus' /\ KernelIndicesLive' /\ Unshifted'
  <1> DEFINE i == kTable[Hash[s]]
  <1>1. UNCHANGED <<status, sessionMap, job, phase, assigned, shifted, stale>>
    BY Zenon DEF NewSession
  <1>2. \/ UNCHANGED kernel
        \/ UNCHANGED <<kList, kTable>> /\ kSessions' = Kernel!Merge(kSessions, [t \in {s} |-> i])
    BY Zenon DEF NewSession, Kernel!Learn
  <1>3. kList # <<>> => i < Len(kList)
    BY BoundsAreNat, Zenon DEF IInv, KernelIndicesLive
  <1>4. UNCHANGED <<kList, kTable>>
    BY <1>2, Zenon DEF kernel
  <1>5. filterAvailable(status)' = filterAvailable(status)
    BY <1>1, Zenon DEF filterAvailable
  <1> HIDE DEF i
  <1>6. \A t \in DOMAIN kSessions' :
            \/ t \in DOMAIN kSessions /\ kSessions'[t] = kSessions[t]
            \/ kSessions'[t] = i
    BY <1>2, Zenon DEF Kernel!Merge, kernel
  <1>7. KernelIndicesLive'
    BY <1>3, <1>4, <1>6, Zenon DEF IInv, KernelIndicesLive
  <1>8. KernelMatchesStatus'
    BY <1>1, <1>4, <1>5, Zenon DEF IInv, KernelMatchesStatus, Quiet
  <1>9. JobCurrent' /\ Unshifted'
    BY <1>1, <1>5, Zenon DEF IInv, JobCurrent, Unshifted
  <1>10. QED
    BY <1>7, <1>8, <1>9, Zenon

LEMMA AssignmentInv ==
  ASSUME IInv, NEW i \in DOMAIN pending, assignmentLoop(i)
  PROVE  JobCurrent' /\ KernelMatchesStatus' /\ KernelIndicesLive' /\ Unshifted'
  <1>1. job = Idle /\ UNCHANGED <<status, job, phase, kernel, shifted, stale>>
    BY Zenon DEF assignmentLoop
  <1>2. sessionMap = assigned => sessionMap' = assigned'
    BY DEF assignmentLoop
  <1>3. filterAvailable(status)' = filterAvailable(status)
    BY <1>1, Zenon DEF filterAvailable
  <1>4. KernelMatchesStatus' /\ KernelIndicesLive'
    BY <1>1, <1>3, Zenon DEF IInv, KernelMatchesStatus, Quiet, KernelIndicesLive, kernel
  <1>5. JobCurrent' /\ Unshifted'
    BY <1>1, <1>2, Zenon DEF IInv, JobCurrent, Unshifted
  <1>6. QED
    BY <1>4, <1>5, Zenon

LEMMA NextIInv == IInv /\ [Next]_vars => IInv'
  <1> SUFFICES ASSUME IInv, [Next]_vars PROVE IInv'
    BY ZenonT(30)
  <1> DEFINE Rest == JobCurrent /\ KernelMatchesStatus /\ KernelIndicesLive /\ Unshifted
  <1>1. TypeOK'
    BY NextTypeOK, Zenon DEF IInv
  <1> SUFFICES Rest'
    BY <1>1, Zenon DEF IInv
  <1>2. ASSUME NEW b \in Ids, Flap(b) \/ Probe(b) \/ ProbeDropped(b) PROVE Rest'
    BY <1>2, OthersInv, Zenon DEF Flap, Probe, ProbeDropped
  <1>3. CASE Run
    <2>1. recompute(status', "run") /\ job = Idle /\ UNCHANGED kernel
      BY <1>3, Zenon DEF Run
    <2>2. QED
      BY <2>1, RecomputeInv, Zenon
  <1>4. CASE healthLoop
    <2> DEFINE entry == Head(healthCh)
               st == [status EXCEPT ![entry.id] = entry.state]
    <2>1. status' = st /\ job = Idle /\ UNCHANGED kernel
      BY <1>4, Zenon DEF healthLoop
    <2>2. CASE status[entry.id] # entry.state
      <3>1. recompute(st, "health")
        BY <1>4, <2>2, Zenon DEF healthLoop
      <3>2. recompute(status', "health")
        BY <2>1, <3>1, Zenon
      <3>3. QED
        BY <2>1, <3>2, RecomputeInv, Zenon
    <2>3. CASE status[entry.id] = entry.state
      <3>1. status' = status
        BY <2>1, <2>3, Zenon DEF IInv, TypeOK
      <3>2. UNCHANGED <<sessionMap, job, phase, assigned, shifted, stale>>
        BY <1>4, <2>3, Zenon DEF healthLoop
      <3>3. QED
        BY <2>1, <3>1, <3>2, OthersInv, Zenon
    <2>4. QED
      BY <2>2, <2>3, Zenon
  <1>5. ASSUME NEW i \in DOMAIN pending, LoseAssignment(i) PROVE Rest'
    BY <1>5, OthersInv, Zenon DEF LoseAssignment
  <1>6. CASE UNCHANGED vars
    BY <1>6, OthersInv, Zenon DEF vars
  <1>7. QED
    BY <1>2, <1>3, <1>4, <1>5, <1>6, SetObjectsInv, SetObjectsFailsInv, NewSessionInv, AssignmentInv
   , Zenon DEF Next

(* Every interleaving of the controller's steps keeps the inductive        *)
(* invariant: what the job in progress, the session map and the kernel     *)
(* hold agrees with the status last seen.                                  *)
THEOREM IInvInvariant == Spec => []IInv
  <1>1. QED
    BY InitIInv, NextIInv, PTL DEF Spec

(* The values of the controller's and the kernel's state have their types, *)
(* for every number of backends and every set of sessions and slots.       *)
THEOREM TypeCorrect == Spec => []TypeOK
  <1>1. IInv => TypeOK
    BY Zenon DEF IInv
  <1>2. QED
    BY <1>1, IInvInvariant, PTL

(* recomputeAndApply: whatever the interleaving of probes, health loop,    *)
(* assignments and failing calls, the kernel balances over the backends    *)
(* the controller believes available unless a SetObjects failed last.      *)
THEOREM KernelFollowsStatus == Spec => []KernelMatchesStatus
  <1>1. IInv => KernelMatchesStatus
    BY Zenon DEF IInv
  <1>2. QED
    BY <1>1, IInvInvariant, PTL

(* The kernel never holds an index past the end of its backend list, in    *)
(* the lookup table or in the session map.                                 *)
THEOREM KernelIndicesStayLive == Spec => []KernelIndicesLive
  <1>1. IInv => KernelIndicesLive
    BY Zenon DEF IInv
  <1>2. QED
    BY <1>1, IInvInvariant, PTL

(* recomputeAndApply pushes every session with the backend it was last     *)
(* assigned to, as long as no recomputation has shifted an index.          *)
THEOREM UnshiftedSessionsKept == Spec => []SessionsKeptUnshifted
  <1>1. IInv => SessionsKeptUnshifted
    <2> SUFFICES ASSUME IInv, job # Idle, ~shifted
                 PROVE /\ DOMAIN job.sessions = DOMAIN assigned
                       /\ \A s \in DOMAIN job.sessions : PushedRight(s)
      BY Zenon DEF SessionsKeptUnshifted
    <2>1. /\ job.sessions = assigned /\ IsSessionMap(assigned, Ids) /\ job.list \in Seq(Ids)
          /\ \A i \in DOMAIN job.list : job.list[i] = i - 1
          /\ \A s \in DOMAIN job.sessions : job.sessions[s] < Len(job.list)
      BY Zenon DEF IInv, JobCurrent, Unshifted, TypeOK, JobTypeOK
    <2>2. ASSUME NEW s \in DOMAIN job.sessions PROVE PushedRight(s)
      <3>1. assigned[s] \in Nat /\ assigned[s] + 1 \in DOMAIN job.list
        BY <2>1, BoundsAreNat, SMTT(30) DEF IsSessionMap, Ids
      <3>2. QED
        BY <2>1, <3>1, SMTT(30) DEF PushedRight
    <2>3. QED
      BY <2>1, <2>2, Zenon
  <1>2. QED
    BY <1>1, IInvInvariant, PTL
=============================================================================
