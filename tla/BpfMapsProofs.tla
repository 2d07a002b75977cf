---------------------------- MODULE BpfMapsProofs ----------------------------
(***************************************************************************)
(* Proofs about BpfMaps, for every set of backends, sessions, CPUs,        *)
(* requests and batches.                                                   *)
(***************************************************************************)
EXTENDS BpfMaps, TLAPS

\* The setter is busy and has not moved active_pointer yet.
Filling == {"backendList", "lookupTable", "sessionMap", "bSwitchover"}

ListIs(b, l) ==
    /\ listLen[b] = Len(l)
    /\ \A i \in 0 .. Len(l) - 1 : backendList[b][i] = l[i + 1]

\* What the setter has filled so far, and that it fills the passive buffers.
SetterInv ==
    /\ setter.pc \in Filling => setter.target # active
    /\ setter.pc \in {"lupSwitchover", "sSwitchover"} => setter.target = active
    /\ setter.pc \in {"lookupTable", "sessionMap", "bSwitchover"} =>
          ListIs(setter.target, setter.objs.list)
    /\ setter.pc \in {"sessionMap", "bSwitchover"} =>
          lookupTable[setter.target] = setter.objs.table
    /\ setter.pc = "bSwitchover" =>
          /\ DOMAIN setter.objs.sessions \subseteq DOMAIN sessionMap[setter.target]
          /\ setter.target \notin dirty => sessionMap[setter.target] = setter.objs.sessions

\* A packet that is not mixed read one buffer three times, and it is the
\* active one while the passive ones are being filled.
PacketInv ==
    \A c \in Cpus : xdp[c] # IdleXdp /\ ~xdp[c].mixed =>
        /\ xdp[c].lup = xdp[c].bl
        /\ xdp[c].sess = xdp[c].bl
        /\ setter.pc \in Filling => xdp[c].bl = active

TableIdxOf(s) == lookupTable[active][Hash[s]]

\* The index the XDP program finds for s in the active buffers.
IdxOf(s) == IF s \in DOMAIN sessionMap[active] THEN sessionMap[active][s] ELSE TableIdxOf(s)

\* Where a session went is where its next packet goes ...
HomeInv ==
    active \notin dirty =>
        \A s \in DOMAIN home \ Batched : home[s] = backendList[active][IdxOf(s)]

\* ... and a packet about to persist its session does not change that.
LearnInv ==
    active \notin dirty =>
        \A c \in Cpus :
            LET x == xdp[c] IN
            (/\ x # IdleXdp /\ x.pc = "forward" /\ x.new /\ ~x.mixed /\ x.bl = active
             /\ x.session \notin Batched /\ x.session \in DOMAIN sessionMap[active])
            => sessionMap[active][x.session] = TableIdxOf(x.session)

\* The inductive invariant.
IInv ==
    /\ TypeOK
    /\ SetterInv
    /\ PacketInv
    /\ TableIndicesLive
    /\ SessionIndicesLive
    /\ ForwardsToLive
    /\ HomeInv
    /\ LearnInv

(***************************************************************************)
(* Facts the steps below share.                                            *)
(***************************************************************************)

\* The objects of a busy setter are one of the requests, hence valid.
LEMMA BusySetter ==
  ASSUME setter \in SetterStates, setter.pc # "idle"
  PROVE  /\ setter \in [pc : {"backendList", "lookupTable", "sessionMap", "bSwitchover",
                              "lupSwitchover", "sSwitchover"}, target : Bufs, objs : Requests]
         /\ setter.target \in Bufs
         /\ setter.objs \in Requests
         /\ ValidObjects(setter.objs)
BY BpfAssumption DEF SetterStates, IdleSetter, BpfAssumption

\* A packet in the program.
LEMMA BusyXdp ==
  ASSUME NEW x \in XdpStates, x.pc # "idle"
  PROVE  x \in Packets /\ x # IdleXdp
BY DEF XdpStates, IdleXdp

\* A packet that entered the program has read one buffer.
LEMMA FirstPacket ==
  \A s \in Sessions, b \in Bufs, i \in Indices :
      LET x == [pc |-> "lookupTable", session |-> s, bl |-> b, lup |-> b,
                sess |-> b, new |-> FALSE, idx |-> i, mixed |-> FALSE]
      IN  x \in Packets /\ x.pc = "lookupTable" /\ x.bl = b /\ x.lup = b /\ x.sess = b
BY DEF Packets

LEMMA IdleIsNoPacket ==
  ASSUME NEW x \in Packets
  PROVE  x.pc # "idle" /\ x # IdleXdp
BY DEF Packets, IdleXdp

\* A session map is a function from sessions.
LEMMA IsSessionMap ==
  ASSUME NEW I, NEW f
  PROVE  f \in SessionMaps(I) <=> DOMAIN f \in SUBSET Sessions /\ f \in [DOMAIN f -> I]
<1>1. ASSUME f \in SessionMaps(I)
      PROVE  DOMAIN f \in SUBSET Sessions /\ f \in [DOMAIN f -> I]
  <2>1. PICK S \in SUBSET Sessions : f \in [S -> I]
    BY <1>1 DEF SessionMaps
  <2> QED
    BY <2>1
<1>2. ASSUME DOMAIN f \in SUBSET Sessions, f \in [DOMAIN f -> I]
      PROVE  f \in SessionMaps(I)
  BY <1>2 DEF SessionMaps
<1> QED
  BY <1>1, <1>2

\* Typing of the operations on session maps.
LEMMA MergeType ==
  ASSUME NEW f \in SessionMaps(Indices), NEW g \in SessionMaps(Indices)
  PROVE  /\ Merge(f, g) \in SessionMaps(Indices)
         /\ DOMAIN Merge(f, g) = DOMAIN f \cup DOMAIN g
         /\ \A k \in DOMAIN g : Merge(f, g)[k] = g[k]
         /\ \A k \in DOMAIN f \ DOMAIN g : Merge(f, g)[k] = f[k]
<1>1. /\ DOMAIN f \in SUBSET Sessions /\ f \in [DOMAIN f -> Indices]
      /\ DOMAIN g \in SUBSET Sessions /\ g \in [DOMAIN g -> Indices]
  BY IsSessionMap
<1>2. Merge(f, g) \in [DOMAIN f \cup DOMAIN g -> Indices]
  BY <1>1 DEF Merge
<1>3. DOMAIN Merge(f, g) = DOMAIN f \cup DOMAIN g
  BY DEF Merge
<1>4. Merge(f, g) \in SessionMaps(Indices)
  BY <1>1, <1>2, <1>3, IsSessionMap
<1> QED
  BY <1>3, <1>4 DEF Merge

LEMMA WithoutType ==
  ASSUME NEW f \in SessionMaps(Indices), NEW S
  PROVE  /\ Without(f, S) \in SessionMaps(Indices)
         /\ DOMAIN Without(f, S) = DOMAIN f \ S
         /\ \A k \in DOMAIN f \ S : Without(f, S)[k] = f[k]
<1>1. DOMAIN f \in SUBSET Sessions /\ f \in [DOMAIN f -> Indices]
  BY IsSessionMap
<1>2. Without(f, S) \in [DOMAIN f \ S -> Indices]
  BY <1>1 DEF Without
<1>3. DOMAIN Without(f, S) = DOMAIN f \ S
  BY DEF Without
<1>4. Without(f, S) \in SessionMaps(Indices)
  BY <1>1, <1>2, <1>3, IsSessionMap
<1> QED
  BY <1>3, <1>4 DEF Without

LEMMA SingleType ==
  ASSUME NEW s \in Sessions, NEW i \in Indices
  PROVE  /\ Single(s, i) \in SessionMaps(Indices)
         /\ DOMAIN Single(s, i) = {s}
         /\ Single(s, i)[s] = i
<1>1. DOMAIN Single(s, i) = {s} /\ Single(s, i) \in [{s} -> Indices] /\ Single(s, i)[s] = i
  BY DEF Single
<1> QED
  BY <1>1, IsSessionMap

LEMMA AppendType ==
  ASSUME NEW S, NEW q \in Seq(S), NEW e \in S
  PROVE  Append(q, e) \in Seq(S)
OBVIOUS

\* Valid objects fit the maps.
LEMMA ValidFacts ==
  ASSUME NEW r, ValidObjects(r)
  PROVE  /\ Len(r.list) \in 1 .. Capacity
         /\ r.table \in [Slots -> Indices]
         /\ r.sessions \in SessionMaps(Indices)
         /\ \A k \in Slots : r.table[k] < Len(r.list)
         /\ \A t \in DOMAIN r.sessions : r.sessions[t] < Len(r.list)
         /\ \A i \in 0 .. Len(r.list) - 1 : i \in Indices /\ r.list[i + 1] \in Backends
<1>1. Capacity \in Nat /\ Len(r.list) \in 1 .. Capacity /\ r.list \in Seq(Backends)
  BY BpfAssumption DEF BpfAssumption, ValidObjects
<1>2. 0 .. Len(r.list) - 1 \subseteq Indices
  BY <1>1 DEF Indices
<1>3. r.table \in [Slots -> 0 .. Len(r.list) - 1]
  BY DEF ValidObjects
<1>4. PICK S \in SUBSET Sessions : r.sessions \in [S -> 0 .. Len(r.list) - 1]
  BY Zenon DEF ValidObjects, SessionMaps
<1>5. r.sessions \in SessionMaps(Indices)
  BY <1>2, <1>4 DEF SessionMaps
<1>6. \A i \in 0 .. Len(r.list) - 1 : r.list[i + 1] \in Backends
  BY <1>1
<1> QED
  BY <1>1, <1>2, <1>3, <1>4, <1>5, <1>6

(***************************************************************************)
(* The invariant holds initially and every action preserves it.            *)
(***************************************************************************)
LEMMA InitIInv == Init => IInv
<1> SUFFICES ASSUME Init PROVE IInv
  OBVIOUS
<1>1. 0 \in Indices /\ Capacity \in Nat
  BY BpfAssumption DEF BpfAssumption, Indices
<1>2. NoMap \in SessionMaps(Indices)
  BY IsSessionMap, Zenon DEF NoMap
<1>3. TypeOK
  BY <1>1, <1>2 DEF Init, TypeOK, Bufs, SetterStates, XdpStates, NoMap
<1>4. SetterInv /\ PacketInv /\ LearnInv
  BY DEF Init, SetterInv, PacketInv, LearnInv, IdleSetter, Filling
<1>5. TableIndicesLive /\ SessionIndicesLive /\ ForwardsToLive /\ HomeInv
  BY DEF Init, TableIndicesLive, SessionIndicesLive, ForwardsToLive, HomeInv, Serving, Bufs, NoMap
<1> QED
  BY <1>3, <1>4, <1>5 DEF IInv

\* What holds of the active buffers still holds after a step that leaves
\* them alone.
LEMMA ActiveUntouched ==
  ASSUME TableIndicesLive, SessionIndicesLive, ForwardsToLive, HomeInv,
         active' = active, home' = home, active \notin dirty' => active \notin dirty,
         listLen'[active] = listLen[active], backendList'[active] = backendList[active],
         lookupTable'[active] = lookupTable[active], sessionMap'[active] = sessionMap[active]
  PROVE  (TableIndicesLive /\ SessionIndicesLive /\ ForwardsToLive /\ HomeInv)'
<1>1. Serving' = Serving /\ LiveBackends' = LiveBackends
  BY DEF Serving, LiveBackends
<1>2. TableIndicesLive' /\ SessionIndicesLive'
  BY <1>1 DEF TableIndicesLive, SessionIndicesLive
<1>3. ForwardsToLive'
  BY <1>1 DEF ForwardsToLive
<1>4. ASSUME NEW k PROVE IdxOf(k)' = IdxOf(k)
  BY DEF IdxOf, TableIdxOf
<1>5. HomeInv'
  BY <1>4 DEF HomeInv
<1> QED
  BY <1>2, <1>3, <1>5

LEMMA StartSetIInv == ASSUME IInv, NEW r \in Requests, StartSet(r) PROVE IInv'
<1> USE DEF IInv
<1>1. UNCHANGED <<maps, ringbuf, home, dirty>>
  BY DEF StartSet
<1>2. /\ setter' = [pc |-> "backendList", target |-> 1 - active, objs |-> r]
      /\ active \in Bufs /\ 1 - active \in Bufs /\ 1 - active # active
  BY DEF StartSet, TypeOK, Bufs
<1>3. ASSUME NEW c \in Cpus
      PROVE  /\ xdp[c] = IdleXdp => xdp'[c] = IdleXdp
             /\ xdp[c] # IdleXdp =>
                  /\ xdp'[c] \in Packets
                  /\ xdp'[c] = [xdp[c] EXCEPT !.mixed = xdp'[c].mixed]
                  /\ ~xdp'[c].mixed => xdp'[c] = xdp[c] /\ ~Holds(xdp[c], 1 - active)
  <2>1. xdp'[c] = IF Holds(xdp[c], 1 - active) THEN [xdp[c] EXCEPT !.mixed = TRUE] ELSE xdp[c]
    BY DEF StartSet
  <2>2. xdp[c] \in XdpStates
    BY DEF TypeOK
  <2>3. CASE Holds(xdp[c], 1 - active)
    <3>1. xdp[c] \in Packets
      BY <2>2, <2>3 DEF Holds, XdpStates
    <3> QED
      BY <2>1, <2>3, <3>1, Zenon DEF Holds, Packets
  <2>4. CASE ~Holds(xdp[c], 1 - active)
    <3>1. xdp[c] # IdleXdp => xdp[c] \in Packets
      BY <2>2 DEF XdpStates
    <3> QED
      BY <2>1, <2>4, <3>1 DEF Packets
  <2> QED
    BY <2>3, <2>4
<1>4. TypeOK'
  <2>1. xdp' \in [Cpus -> XdpStates]
    <3>1. \A c \in Cpus : xdp'[c] \in XdpStates
      BY <1>3, Zenon DEF XdpStates
    <3> QED
      BY <3>1 DEF StartSet
  <2>2. setter' \in SetterStates
    BY <1>2 DEF SetterStates
  <2> QED
    BY <1>1, <2>1, <2>2 DEF TypeOK, maps
<1>5. SetterInv'
  BY <1>1, <1>2 DEF SetterInv, maps
<1>6. PacketInv'
  <2> SUFFICES ASSUME NEW c \in Cpus, (xdp[c])' # IdleXdp, ~(xdp[c].mixed)'
               PROVE  (xdp[c].lup = xdp[c].bl /\ xdp[c].sess = xdp[c].bl /\ xdp[c].bl = active)'
    BY DEF PacketInv
  <2>1. xdp[c] # IdleXdp /\ xdp'[c] = xdp[c] /\ ~Holds(xdp[c], 1 - active) /\ ~xdp[c].mixed
    BY <1>3, Zenon
  <2>2. xdp[c].bl \in Bufs /\ xdp[c].bl # 1 - active
    BY <2>1 DEF TypeOK, XdpStates, Packets, Holds
  <2> QED
    BY <1>1, <1>2, <2>1, <2>2 DEF PacketInv, Bufs, maps
<1>7. LearnInv'
  BY <1>1, <1>3, ZenonT(30) DEF LearnInv, TableIdxOf, maps
<1>8. (TableIndicesLive /\ SessionIndicesLive /\ ForwardsToLive /\ HomeInv)'
  BY <1>1, ActiveUntouched DEF maps
<1> QED
  BY <1>4, <1>5, <1>6, <1>7, <1>8

LEMMA SetBackendListIInv == ASSUME IInv, SetBackendList PROVE IInv'
<1> USE DEF IInv
<1> DEFINE t == setter.target
           l == setter.objs.list
<1>1. /\ UNCHANGED <<active, lookupTable, sessionMap, ringbuf, xdp, home, dirty>>
      /\ setter.pc = "backendList"
      /\ setter' = [setter EXCEPT !.pc = "lookupTable"]
      /\ listLen' = [listLen EXCEPT ![t] = Len(l)]
      /\ backendList' = [backendList EXCEPT ![t] =
             [i \in Indices |-> IF i < Len(l) THEN l[i + 1] ELSE backendList[t][i]]]
  BY DEF SetBackendList
<1>2. /\ setter \in [pc : {"backendList", "lookupTable", "sessionMap", "bSwitchover",
                           "lupSwitchover", "sSwitchover"}, target : Bufs, objs : Requests]
      /\ ValidObjects(setter.objs) /\ t \in Bufs
  BY <1>1, BusySetter DEF TypeOK
<1>3. t # active /\ active \in Bufs
  BY <1>1 DEF SetterInv, Filling, TypeOK
<1>4. /\ Len(l) \in 1 .. Capacity /\ Capacity \in Nat
      /\ \A i \in 0 .. Len(l) - 1 : i \in Indices /\ l[i + 1] \in Backends
  BY <1>2, ValidFacts, BpfAssumption, Zenon DEF BpfAssumption
<1>5. /\ setter' \in SetterStates /\ setter'.pc = "lookupTable"
      /\ setter'.target = t /\ setter'.objs = setter.objs
  BY <1>1, <1>2 DEF SetterStates
<1>6. listLen' \in [Bufs -> 0 .. Capacity] /\ listLen'[t] = Len(l) /\ listLen'[active] = listLen[active]
  BY <1>1, <1>2, <1>3, <1>4 DEF TypeOK
<1>7. /\ backendList' \in [Bufs -> [Indices -> Backends \cup {NoBackend}]]
      /\ backendList'[active] = backendList[active]
      /\ \A i \in 0 .. Len(l) - 1 : backendList'[t][i] = l[i + 1]
  <2>1. \A i \in Indices : i < Len(l) => i \in 0 .. Len(l) - 1
    BY <1>4 DEF Indices
  <2>2. [i \in Indices |-> IF i < Len(l) THEN l[i + 1] ELSE backendList[t][i]]
           \in [Indices -> Backends \cup {NoBackend}]
    BY <1>2, <1>4, <2>1 DEF TypeOK
  <2>3. backendList' \in [Bufs -> [Indices -> Backends \cup {NoBackend}]]
    BY <1>1, <1>2, <2>2 DEF TypeOK
  <2>4. backendList'[t] = [i \in Indices |-> IF i < Len(l) THEN l[i + 1] ELSE backendList[t][i]]
    BY <1>1, <1>2 DEF TypeOK
  <2> QED
    BY <1>1, <1>3, <1>4, <2>3, <2>4 DEF TypeOK
<1>8. TypeOK'
  BY <1>1, <1>5, <1>6, <1>7, Zenon DEF TypeOK
<1>9. SetterInv'
  BY <1>1, <1>3, <1>5, <1>6, <1>7 DEF SetterInv, ListIs, Filling
<1>10. PacketInv' /\ LearnInv'
  BY <1>1, <1>5 DEF PacketInv, LearnInv, Filling, TableIdxOf
<1>11. (TableIndicesLive /\ SessionIndicesLive /\ ForwardsToLive /\ HomeInv)'
  BY <1>1, <1>6, <1>7, ActiveUntouched
<1> QED
  BY <1>8, <1>9, <1>10, <1>11

LEMMA SetLookupTableIInv == ASSUME IInv, SetLookupTable PROVE IInv'
<1> USE DEF IInv
<1> DEFINE t == setter.target
<1>1. /\ UNCHANGED <<active, backendList, listLen, sessionMap, ringbuf, xdp, home, dirty>>
      /\ setter.pc = "lookupTable"
      /\ setter' = [setter EXCEPT !.pc = "sessionMap"]
      /\ lookupTable' = [lookupTable EXCEPT ![t] = setter.objs.table]
  BY DEF SetLookupTable
<1>2. /\ setter \in [pc : {"backendList", "lookupTable", "sessionMap", "bSwitchover",
                           "lupSwitchover", "sSwitchover"}, target : Bufs, objs : Requests]
      /\ ValidObjects(setter.objs) /\ t \in Bufs
  BY <1>1, BusySetter DEF TypeOK
<1>3. t # active /\ active \in Bufs
  BY <1>1 DEF SetterInv, Filling, TypeOK
<1>4. setter.objs.table \in [Slots -> Indices]
  BY <1>2, ValidFacts
<1>5. /\ setter' \in SetterStates /\ setter'.pc = "sessionMap"
      /\ setter'.target = t /\ setter'.objs = setter.objs
  BY <1>1, <1>2 DEF SetterStates
<1>6. /\ lookupTable' \in [Bufs -> [Slots -> Indices]]
      /\ lookupTable'[t] = setter.objs.table /\ lookupTable'[active] = lookupTable[active]
  BY <1>1, <1>2, <1>3, <1>4 DEF TypeOK
<1>7. TypeOK'
  BY <1>1, <1>5, <1>6 DEF TypeOK
<1>8. SetterInv'
  BY <1>1, <1>3, <1>5, <1>6 DEF SetterInv, ListIs, Filling
<1>9. PacketInv' /\ LearnInv'
  BY <1>1, <1>5, <1>6, SMTT(20) DEF PacketInv, LearnInv, Filling, TableIdxOf
<1>10. (TableIndicesLive /\ SessionIndicesLive /\ ForwardsToLive /\ HomeInv)'
  BY <1>1, <1>6, ActiveUntouched
<1> QED
  BY <1>7, <1>8, <1>9, <1>10

LEMMA SetSessionMapIInv == ASSUME IInv, SetSessionMap PROVE IInv'
<1> USE DEF IInv
<1> DEFINE t == setter.target
<1>1. /\ UNCHANGED <<active, backendList, listLen, lookupTable, ringbuf, xdp, home>>
      /\ setter.pc = "sessionMap"
      /\ setter' = [setter EXCEPT !.pc = "bSwitchover"]
      /\ sessionMap' = [sessionMap EXCEPT ![t] = setter.objs.sessions]
      /\ dirty' = dirty \ {t}
  BY DEF SetSessionMap
<1>2. /\ setter \in [pc : {"backendList", "lookupTable", "sessionMap", "bSwitchover",
                           "lupSwitchover", "sSwitchover"}, target : Bufs, objs : Requests]
      /\ ValidObjects(setter.objs) /\ t \in Bufs
  BY <1>1, BusySetter DEF TypeOK
<1>3. t # active /\ active \in Bufs
  BY <1>1 DEF SetterInv, Filling, TypeOK
<1>4. setter.objs.sessions \in SessionMaps(Indices)
  BY <1>2, ValidFacts
<1>5. /\ setter' \in SetterStates /\ setter'.pc = "bSwitchover"
      /\ setter'.target = t /\ setter'.objs = setter.objs
  BY <1>1, <1>2 DEF SetterStates
<1>6. /\ sessionMap' \in [Bufs -> SessionMaps(Indices)]
      /\ sessionMap'[t] = setter.objs.sessions /\ sessionMap'[active] = sessionMap[active]
  BY <1>1, <1>2, <1>3, <1>4 DEF TypeOK
<1>7. TypeOK'
  BY <1>1, <1>5, <1>6 DEF TypeOK
<1>8. SetterInv'
  BY <1>1, <1>3, <1>5, <1>6 DEF SetterInv, ListIs, Filling
<1>9. PacketInv' /\ LearnInv'
  BY <1>1, <1>3, <1>5, <1>6 DEF PacketInv, LearnInv, Filling, TableIdxOf
<1>10. (TableIndicesLive /\ SessionIndicesLive /\ ForwardsToLive /\ HomeInv)'
  BY <1>1, <1>3, <1>6, ActiveUntouched
<1> QED
  BY <1>7, <1>8, <1>9, <1>10

LEMMA SetFailsIInv == ASSUME IInv, SetFails PROVE IInv'
<1> USE DEF IInv
<1>1. UNCHANGED <<maps, ringbuf, xdp, home, dirty>> /\ setter' = IdleSetter
  BY DEF SetFails
<1>2. TypeOK'
  BY <1>1 DEF TypeOK, SetterStates, maps
<1>3. SetterInv' /\ PacketInv' /\ LearnInv'
  BY <1>1, Zenon DEF SetterInv, PacketInv, LearnInv, TableIdxOf, IdleSetter, Filling, maps
<1>4. (TableIndicesLive /\ SessionIndicesLive /\ ForwardsToLive /\ HomeInv)'
  BY <1>1, ActiveUntouched DEF maps
<1> QED
  BY <1>2, <1>3, <1>4

\* The first switchover makes the filled buffers active, the other two
\* change nothing but the setter.
LEMMA SwitchoverCases ==
  ASSUME IInv, Switchover
  PROVE  /\ setter.pc = "bSwitchover" =>
              /\ active' = setter.target /\ active' # active /\ home' = NoMap
              /\ setter' \in SetterStates /\ setter'.pc = "lupSwitchover"
              /\ setter'.target = setter.target
         /\ setter.pc # "bSwitchover" =>
              /\ active' = active /\ home' = home
              /\ setter' \in SetterStates
              /\ setter'.pc \in {"idle", "sSwitchover"}
              /\ setter'.pc = "sSwitchover" => setter'.target = active
<1> USE DEF IInv
<1>1. setter.pc \in {"bSwitchover", "lupSwitchover", "sSwitchover"}
  BY DEF Switchover
<1>2. setter \in [pc : {"backendList", "lookupTable", "sessionMap", "bSwitchover",
                        "lupSwitchover", "sSwitchover"}, target : Bufs, objs : Requests]
  BY <1>1, BusySetter DEF TypeOK
<1>3. CASE setter.pc = "bSwitchover"
  <2>1. setter' = [setter EXCEPT !.pc = "lupSwitchover"]
    BY <1>3 DEF Switchover, AfterSwitchover
  <2> QED
    BY <1>2, <1>3, <2>1 DEF Switchover, SetterInv, Filling, SetterStates
<1>4. CASE setter.pc = "lupSwitchover"
  <2>1. setter' = [setter EXCEPT !.pc = "sSwitchover"]
    BY <1>4 DEF Switchover, AfterSwitchover
  <2> QED
    BY <1>2, <1>4, <2>1 DEF Switchover, SetterInv, SetterStates
<1>5. CASE setter.pc = "sSwitchover"
  BY <1>2, <1>5 DEF Switchover, SetterInv, SetterStates, IdleSetter
<1> QED
  BY <1>1, <1>3, <1>4, <1>5

LEMMA SwitchoverIInv == ASSUME IInv, Switchover PROVE IInv'
<1> USE DEF IInv
<1>1. /\ UNCHANGED <<backendList, listLen, lookupTable, sessionMap, ringbuf, xdp, dirty>>
      /\ setter.pc \in {"bSwitchover", "lupSwitchover", "sSwitchover"}
  BY DEF Switchover
<1>2. CASE setter.pc = "bSwitchover"
  <2> DEFINE t == setter.target
             r == setter.objs
  <2>1. /\ active' = t /\ t # active /\ home' = NoMap
        /\ setter' \in SetterStates /\ setter'.pc = "lupSwitchover" /\ setter'.target = t
    BY <1>2, SwitchoverCases
  <2>2. t \in Bufs /\ ValidObjects(r)
    BY <1>2, BusySetter DEF TypeOK
  <2>3. DOMAIN home' = {}
    BY <2>1 DEF NoMap
  <2>4. TypeOK'
    BY <1>1, <2>1, <2>2, <2>3 DEF TypeOK
  <2>5. SetterInv'
    BY <2>1 DEF SetterInv, Filling
  <2>6. PacketInv' /\ LearnInv'
    BY <1>1, <1>2, <2>1 DEF PacketInv, LearnInv, Filling
  <2>7. listLen[t] = Len(r.list) /\ lookupTable[t] = r.table
    BY <1>2 DEF SetterInv, ListIs
  <2>8. t \notin dirty => sessionMap[t] = r.sessions
    BY <1>2 DEF SetterInv
  <2>9. TableIndicesLive' /\ SessionIndicesLive'
    BY <1>1, <2>1, <2>2, <2>7, <2>8, ValidFacts DEF TableIndicesLive, SessionIndicesLive
  <2>10. ForwardsToLive' /\ HomeInv'
    BY <2>3 DEF ForwardsToLive, HomeInv
  <2> QED
    BY <2>4, <2>5, <2>6, <2>9, <2>10
<1>3. CASE setter.pc # "bSwitchover"
  <2>1. /\ active' = active /\ home' = home
        /\ setter' \in SetterStates
        /\ setter'.pc \in {"idle", "sSwitchover"}
        /\ setter'.pc = "sSwitchover" => setter'.target = active
    BY <1>3, SwitchoverCases
  <2>2. TypeOK'
    BY <1>1, <2>1 DEF TypeOK
  <2>3. SetterInv' /\ PacketInv' /\ LearnInv'
    BY <1>1, <2>1, Zenon DEF SetterInv, PacketInv, LearnInv, TableIdxOf, Filling
  <2>4. (TableIndicesLive /\ SessionIndicesLive /\ ForwardsToLive /\ HomeInv)'
    BY <1>1, <2>1, ActiveUntouched
  <2> QED
    BY <2>2, <2>3, <2>4
<1> QED
  BY <1>2, <1>3

\* A batch rewrites the active session map for the sessions it names, and
\* what it writes are live indices.
LEMMA BatchIInv ==
  ASSUME IInv, NEW b \in Batches, BatchUpdate(b) \/ BatchDelete(b)
  PROVE  IInv'
<1> USE DEF IInv
<1> DEFINE m == sessionMap[active]
           n == sessionMap'[active]
<1>1. /\ UNCHANGED <<active, backendList, listLen, lookupTable, ringbuf, setter, xdp, dirty>>
      /\ setter.pc = "idle"
      /\ home' = Without(home, DOMAIN b)
      /\ \/ /\ sessionMap' = [sessionMap EXCEPT ![active] = Merge(m, b)]
            /\ \A s \in DOMAIN b : b[s] < listLen[active]
         \/ sessionMap' = [sessionMap EXCEPT ![active] = Without(m, DOMAIN b)]
  BY DEF BatchUpdate, BatchDelete
<1>2. active \in Bufs /\ m \in SessionMaps(Indices) /\ b \in SessionMaps(Indices)
  BY BpfAssumption DEF BpfAssumption, TypeOK
<1>3. DOMAIN b \subseteq Batched
  BY DEF Batched
<1>4. /\ sessionMap' \in [Bufs -> SessionMaps(Indices)]
      /\ DOMAIN n \subseteq DOMAIN m \cup DOMAIN b
      /\ \A s \in DOMAIN n : (n[s] = m[s] /\ s \in DOMAIN m) \/ (n[s] = b[s] /\ s \in DOMAIN b)
      /\ \A s : s \notin Batched => (s \in DOMAIN n <=> s \in DOMAIN m)
      /\ \A s \in DOMAIN n : s \notin Batched => n[s] = m[s]
      /\ \A s \in DOMAIN n \cap DOMAIN b : b[s] < listLen[active]
  <2>1. CASE /\ sessionMap' = [sessionMap EXCEPT ![active] = Merge(m, b)]
             /\ \A s \in DOMAIN b : b[s] < listLen[active]
    <3>1. n = Merge(m, b) /\ sessionMap' \in [Bufs -> SessionMaps(Indices)]
      BY <1>2, <2>1, MergeType, Zenon DEF TypeOK
    <3>2. /\ DOMAIN n = DOMAIN m \cup DOMAIN b
          /\ \A k \in DOMAIN b : n[k] = b[k]
          /\ \A k \in DOMAIN m \ DOMAIN b : n[k] = m[k]
      <4>1. /\ DOMAIN Merge(m, b) = DOMAIN m \cup DOMAIN b
            /\ \A k \in DOMAIN b : Merge(m, b)[k] = b[k]
            /\ \A k \in DOMAIN m \ DOMAIN b : Merge(m, b)[k] = m[k]
        BY <1>2, MergeType, Zenon
      <4> QED
        BY <3>1, <4>1
    <3>3. \A s \in DOMAIN n : (n[s] = m[s] /\ s \in DOMAIN m) \/ (n[s] = b[s] /\ s \in DOMAIN b)
      <4> TAKE s \in DOMAIN n
      <4>1. CASE s \in DOMAIN b
        BY <3>2, <4>1
      <4>2. CASE s \notin DOMAIN b
        BY <3>2, <4>2
      <4> QED
        BY <4>1, <4>2
    <3>4. /\ \A s : s \notin Batched => (s \in DOMAIN n <=> s \in DOMAIN m)
          /\ \A s \in DOMAIN n : s \notin Batched => n[s] = m[s]
      BY <1>3, <3>2
    <3> QED
      BY <2>1, <3>1, <3>2, <3>3, <3>4, Zenon
  <2>2. CASE sessionMap' = [sessionMap EXCEPT ![active] = Without(m, DOMAIN b)]
    <3>1. n = Without(m, DOMAIN b) /\ sessionMap' \in [Bufs -> SessionMaps(Indices)]
      BY <1>2, <2>2, WithoutType, Zenon DEF TypeOK
    <3>2. /\ DOMAIN n = DOMAIN m \ DOMAIN b
          /\ \A k \in DOMAIN m \ DOMAIN b : n[k] = m[k]
      <4>1. /\ DOMAIN Without(m, DOMAIN b) = DOMAIN m \ DOMAIN b
            /\ \A k \in DOMAIN m \ DOMAIN b : Without(m, DOMAIN b)[k] = m[k]
        BY <1>2, WithoutType, Zenon
      <4> QED
        BY <3>1, <4>1
    <3>3. /\ \A s : s \notin Batched => (s \in DOMAIN n <=> s \in DOMAIN m)
          /\ \A s \in DOMAIN n : s \notin Batched => n[s] = m[s]
      BY <1>3, <3>2
    <3>4. \A s \in DOMAIN n : n[s] = m[s] /\ s \in DOMAIN m
      <4> TAKE s \in DOMAIN n
      <4>1. s \in DOMAIN m \ DOMAIN b
        BY <3>2
      <4> QED
        BY <3>2, <4>1
    <3>5. DOMAIN n \cap DOMAIN b = {} /\ DOMAIN n \subseteq DOMAIN m \cup DOMAIN b
      BY <3>2
    <3> QED
      BY <3>1, <3>3, <3>4, <3>5, Zenon
  <2> QED
    BY <1>1, <2>1, <2>2, Zenon
<1>5. /\ DOMAIN home' = DOMAIN home \ DOMAIN b
      /\ \A s \in DOMAIN home' : home'[s] = home[s]
  BY <1>1 DEF Without
<1>6. TypeOK'
  BY <1>1, <1>4, <1>5, Zenon DEF TypeOK
<1>7. SetterInv' /\ PacketInv'
  BY <1>1, Zenon DEF SetterInv, PacketInv, Filling
<1>8. LearnInv'
  <2>0. UNCHANGED <<active, lookupTable, dirty>>
    BY <1>1, Zenon
  <2> SUFFICES ASSUME NEW d \in Cpus, active \notin dirty, xdp'[d] # IdleXdp,
                      xdp'[d].pc = "forward", xdp'[d].new, ~xdp'[d].mixed, xdp'[d].bl = active,
                      xdp'[d].session \notin Batched,
                      xdp'[d].session \in DOMAIN n
               PROVE  n[xdp'[d].session] = TableIdxOf(xdp'[d].session)
    BY <2>0, Zenon DEF LearnInv, TableIdxOf
  <2>1. xdp'[d] = xdp[d] /\ xdp[d].session \in DOMAIN m
    BY <1>1, <1>4, Zenon
  <2>2. m[xdp[d].session] = TableIdxOf(xdp[d].session)
    BY <2>1 DEF LearnInv
  <2> QED
    BY <1>4, <2>1, <2>2, Zenon
<1>9. TableIndicesLive'
  BY <1>1, Zenon DEF TableIndicesLive, Serving
<1>10. SessionIndicesLive'
  BY <1>1, <1>4, Zenon DEF SessionIndicesLive, Serving
<1>11. ForwardsToLive'
  <2>1. Serving' = Serving /\ LiveBackends' = LiveBackends
    BY <1>1 DEF Serving, LiveBackends
  <2> QED
    BY <1>1, <1>5, <2>1, Zenon DEF ForwardsToLive
<1>12. HomeInv'
  <2>1. \A s : s \notin Batched => IdxOf(s)' = IdxOf(s)
    BY <1>1, <1>4, Zenon DEF IdxOf, TableIdxOf
  <2> QED
    BY <1>1, <1>5, <2>1 DEF HomeInv
<1> QED
  BY <1>6, <1>7, <1>8, <1>9, <1>10, <1>11, <1>12

\* The three reads of active_pointer change only the packet.
LEMMA XdpReadIInv ==
  ASSUME IInv, NEW c \in Cpus,
         \/ \E s \in Sessions : XdpReadBackendList(c, s)
         \/ XdpReadLookupTable(c)
         \/ XdpReadSessions(c)
  PROVE  IInv'
<1> USE DEF IInv
<1>1. /\ UNCHANGED <<maps, ringbuf, setter, home, dirty>>
      /\ \A d \in Cpus : d # c => xdp'[d] = xdp[d]
      /\ DOMAIN xdp' = Cpus
  BY DEF XdpReadBackendList, XdpReadLookupTable, XdpReadSessions, TypeOK
<1>2. /\ xdp'[c] \in Packets
      /\ xdp'[c].pc # "forward"
      /\ ~xdp'[c].mixed =>
            /\ xdp'[c].lup = xdp'[c].bl /\ xdp'[c].sess = xdp'[c].bl
            /\ setter.pc \in Filling => xdp'[c].bl = active
  <2>1. CASE \E s \in Sessions : XdpReadBackendList(c, s)
    <3>1. PICK s \in Sessions : XdpReadBackendList(c, s)
      BY <2>1
    <3>2. 0 \in Indices /\ active \in Bufs
      BY BpfAssumption DEF BpfAssumption, Indices, TypeOK
    <3>3. xdp'[c] = [pc |-> "lookupTable", session |-> s, bl |-> active, lup |-> active,
                     sess |-> active, new |-> FALSE, idx |-> 0, mixed |-> FALSE]
      BY <3>1 DEF XdpReadBackendList, TypeOK
    <3>4. /\ xdp'[c] \in Packets /\ xdp'[c].pc = "lookupTable"
          /\ xdp'[c].bl = active /\ xdp'[c].lup = active /\ xdp'[c].sess = active
      <4> DEFINE x == [pc |-> "lookupTable", session |-> s, bl |-> active, lup |-> active,
                       sess |-> active, new |-> FALSE, idx |-> 0, mixed |-> FALSE]
      <4>1. /\ x \in Packets /\ x.pc = "lookupTable" /\ x.bl = active /\ x.lup = active
            /\ x.sess = active
        BY <3>2, FirstPacket, Zenon
      <4>2. xdp'[c] = x
        BY <3>3, Zenon
      <4> HIDE DEF x
      <4> QED
        BY <4>1, <4>2, Zenon
    <3> QED
      BY <3>4
  <2>2. CASE XdpReadLookupTable(c)
    <3>1. xdp[c] \in Packets /\ xdp[c] # IdleXdp
      BY <2>2, BusyXdp DEF XdpReadLookupTable, TypeOK
    <3>2. xdp'[c] = [xdp[c] EXCEPT !.pc = "sessions", !.lup = active, !.sess = active,
                                   !.mixed = xdp[c].mixed \/ xdp[c].bl # active]
      BY <2>2 DEF XdpReadLookupTable, TypeOK
    <3>3. /\ xdp'[c] \in Packets /\ xdp'[c].pc = "sessions"
          /\ xdp'[c].lup = active /\ xdp'[c].sess = active /\ xdp'[c].bl = xdp[c].bl
          /\ xdp'[c].mixed = (xdp[c].mixed \/ xdp[c].bl # active)
      BY <3>1, <3>2, Zenon DEF Packets, TypeOK
    <3> QED
      BY <3>1, <3>3, Zenon DEF PacketInv
  <2>3. CASE XdpReadSessions(c)
    <3>1. xdp[c] \in Packets /\ xdp[c] # IdleXdp
      BY <2>3, BusyXdp DEF XdpReadSessions, TypeOK
    <3>2. xdp'[c] = [xdp[c] EXCEPT !.pc = "lookup", !.sess = active,
                                   !.mixed = xdp[c].mixed \/ xdp[c].lup # active]
      BY <2>3 DEF XdpReadSessions, TypeOK
    <3>3. /\ xdp'[c] \in Packets /\ xdp'[c].pc = "lookup"
          /\ xdp'[c].lup = xdp[c].lup /\ xdp'[c].sess = active /\ xdp'[c].bl = xdp[c].bl
          /\ xdp'[c].mixed = (xdp[c].mixed \/ xdp[c].lup # active)
      BY <3>1, <3>2, Zenon DEF Packets, TypeOK
    <3> QED
      BY <3>1, <3>3, Zenon DEF PacketInv
  <2> QED
    BY <2>1, <2>2, <2>3
<1>3. xdp' \in [Cpus -> XdpStates]
  <2>1. \A d \in Cpus : xdp'[d] \in XdpStates
    BY <1>1, <1>2, Zenon DEF TypeOK, XdpStates
  <2> QED
    BY <1>1, <2>1 DEF XdpReadBackendList, XdpReadLookupTable, XdpReadSessions, TypeOK
<1>4. TypeOK'
  BY <1>1, <1>3 DEF TypeOK, maps
<1>5. SetterInv'
  BY <1>1, Zenon DEF SetterInv, ListIs, maps
<1>6. PacketInv'
  BY <1>1, <1>2, Zenon DEF PacketInv, maps
<1>7. LearnInv'
  <2> SUFFICES ASSUME NEW d \in Cpus, active \notin dirty, xdp'[d] # IdleXdp,
                      xdp'[d].pc = "forward", xdp'[d].new, ~xdp'[d].mixed, xdp'[d].bl = active,
                      xdp'[d].session \notin Batched,
                      xdp'[d].session \in DOMAIN sessionMap[active]
               PROVE  sessionMap[active][xdp'[d].session] = TableIdxOf(xdp'[d].session)
    BY <1>1, Zenon DEF LearnInv, TableIdxOf, maps
  <2>1. xdp'[d] = xdp[d]
    BY <1>1, <1>2, Zenon
  <2> QED
    BY <2>1, Zenon DEF LearnInv
<1>8. (TableIndicesLive /\ SessionIndicesLive /\ ForwardsToLive /\ HomeInv)'
  BY <1>1, ActiveUntouched DEF maps
<1> QED
  BY <1>4, <1>5, <1>6, <1>7, <1>8

\* What the lookup of a packet that uses the active buffers finds.
LEMMA LookupFacts ==
  ASSUME IInv, NEW c \in Cpus, XdpLookup(c)
  PROVE  LET x == xdp[c]
             idx == IF Known(x) THEN sessionMap[x.sess][x.session] ELSE TableIdx(x)
         IN /\ x \in Packets /\ x # IdleXdp
            /\ idx \in Indices
            /\ ~x.mixed /\ x.bl = active => idx = IdxOf(x.session)
<1> USE DEF IInv
<1> DEFINE x == xdp[c]
<1>1. x \in Packets /\ x # IdleXdp
  BY BusyXdp, Zenon DEF XdpLookup, TypeOK
<1>2. x.session \in Sessions /\ x.sess \in Bufs /\ x.lup \in Bufs
  BY <1>1 DEF Packets
<1>3. sessionMap[x.sess] \in [DOMAIN sessionMap[x.sess] -> Indices]
  BY <1>2, IsSessionMap DEF TypeOK
<1>4. TableIdx(x) \in Indices
  BY <1>2, BpfAssumption DEF TableIdx, BpfAssumption, TypeOK
<1>5. ~x.mixed /\ x.bl = active => x.lup = active /\ x.sess = active
  BY <1>1 DEF PacketInv
<1> QED
  BY <1>1, <1>3, <1>4, <1>5, Zenon DEF Known, IdxOf, TableIdx, TableIdxOf

LEMMA XdpLookupIInv == ASSUME IInv, NEW c \in Cpus, XdpLookup(c) PROVE IInv'
<1> USE DEF IInv
<1> DEFINE x == xdp[c]
           idx == IF Known(x) THEN sessionMap[x.sess][x.session] ELSE TableIdx(x)
<1>1. /\ UNCHANGED <<maps, ringbuf, setter, dirty>>
      /\ xdp' = [xdp EXCEPT ![c] = [x EXCEPT !.pc = "forward", !.new = ~Known(x),
                                             !.idx = IF Known(x) THEN idx ELSE x.idx]]
      /\ home' = IF ~x.mixed /\ x.bl = active
                 THEN Merge(home, Single(x.session, backendList[x.bl][idx])) ELSE home
  BY Zenon DEF XdpLookup
<1>2. /\ x \in Packets /\ x # IdleXdp
      /\ idx \in Indices
      /\ ~x.mixed /\ x.bl = active => idx = IdxOf(x.session)
  BY LookupFacts, Zenon
<1> HIDE DEF idx
<1>3. /\ xdp'[c] \in Packets
      /\ xdp'[c].session = x.session /\ xdp'[c].new = ~Known(x) /\ xdp'[c].mixed = x.mixed
      /\ xdp'[c].bl = x.bl /\ xdp'[c].lup = x.lup /\ xdp'[c].sess = x.sess
  BY <1>1, <1>2, Zenon DEF Packets, TypeOK, Known
<1>4. \A d \in Cpus : d # c => xdp'[d] = xdp[d]
  BY <1>1 DEF TypeOK
<1>5. /\ DOMAIN home' \subseteq DOMAIN home \cup {x.session}
      /\ \A s \in DOMAIN home' :
            \/ s \in DOMAIN home /\ home'[s] = home[s]
            \/ /\ s = x.session /\ ~x.mixed /\ x.bl = active
               /\ home'[s] = backendList[active][IdxOf(s)]
  BY <1>1, <1>2, Zenon DEF Merge, Single
<1>6. TypeOK'
  <2>1. xdp' \in [Cpus -> XdpStates]
    BY <1>1, <1>3, <1>4 DEF TypeOK, XdpStates
  <2>2. DOMAIN home' \subseteq Sessions
    BY <1>2, <1>5, Zenon DEF TypeOK, Packets
  <2> QED
    BY <1>1, <2>1, <2>2 DEF TypeOK, maps
<1>7. SetterInv'
  BY <1>1 DEF SetterInv, ListIs, maps
<1>8. PacketInv'
  BY <1>1, <1>2, <1>3, <1>4 DEF PacketInv, maps
<1>9. LearnInv'
  <2>0. UNCHANGED <<active, lookupTable, sessionMap, dirty>>
    BY <1>1 DEF maps
  <2> SUFFICES ASSUME NEW d \in Cpus, active \notin dirty, xdp'[d] # IdleXdp,
                      xdp'[d].pc = "forward", xdp'[d].new, ~xdp'[d].mixed, xdp'[d].bl = active,
                      xdp'[d].session \notin Batched,
                      xdp'[d].session \in DOMAIN sessionMap[active]
               PROVE  sessionMap[active][xdp'[d].session] = TableIdxOf(xdp'[d].session)
    BY <2>0, Zenon DEF LearnInv, TableIdxOf
  <2>1. CASE d # c
    BY <1>4, <2>1, Zenon DEF LearnInv
  <2>2. CASE d = c
    <3>1. x.sess = active /\ ~Known(x)
      BY <1>2, <1>3, <2>2, Zenon DEF PacketInv
    <3> QED
      BY <1>3, <2>2, <3>1, Zenon DEF Known
  <2> QED
    BY <2>1, <2>2, Zenon
<1>10. TableIndicesLive' /\ SessionIndicesLive'
  BY <1>1 DEF TableIndicesLive, SessionIndicesLive, Serving, maps
<1>11. \A s : IdxOf(s)' = IdxOf(s)
  BY <1>1 DEF IdxOf, TableIdxOf, maps
<1>12. HomeInv'
  BY <1>1, <1>5, <1>11, Zenon DEF HomeInv, maps
<1>13. ForwardsToLive'
  <2>1. Serving' = Serving /\ LiveBackends' = LiveBackends
    BY <1>1 DEF Serving, LiveBackends, maps
  <2>2. ASSUME Serving, active \notin dirty, ~x.mixed, x.bl = active
        PROVE  backendList[active][IdxOf(x.session)] \in LiveBackends
    <3>1. listLen[active] \in Nat /\ IdxOf(x.session) \in Nat
      BY <1>2, <2>2, BpfAssumption DEF TypeOK, Indices, BpfAssumption
    <3>2. Hash[x.session] \in Slots
      BY <1>2, BpfAssumption, Zenon DEF BpfAssumption, Packets
    <3>3. IdxOf(x.session) < listLen[active]
      BY <2>2, <3>2 DEF IdxOf, TableIdxOf, TableIndicesLive, SessionIndicesLive
    <3>4. IdxOf(x.session) \in 0 .. listLen[active] - 1
      BY <3>1, <3>3
    <3> QED
      BY <3>4 DEF LiveBackends
  <2> QED
    BY <1>1, <1>5, <2>1, <2>2, Zenon DEF ForwardsToLive, maps
<1> QED
  BY <1>6, <1>7, <1>8, <1>9, <1>10, <1>12, <1>13

\* What a forwarded packet writes: nothing, or one entry of the session map
\* it read.
LEMMA ForwardFacts ==
  ASSUME IInv, NEW c \in Cpus, XdpForward(c)
  PROVE  LET x == xdp[c]
             m == sessionMap[x.sess]
         IN /\ x \in Packets /\ x # IdleXdp /\ x.pc = "forward"
            /\ BackendIdx(x) \in Indices
            /\ sessionMap' \in [Bufs -> SessionMaps(Indices)]
            /\ \A b \in Bufs : b # x.sess => sessionMap'[b] = sessionMap[b]
            /\ \/ sessionMap' = sessionMap
               \/ /\ x.new /\ Fits(x)
                  /\ sessionMap'[x.sess] = Merge(m, Single(x.session, BackendIdx(x)))
                  /\ DOMAIN sessionMap'[x.sess] = DOMAIN m \cup {x.session}
                  /\ sessionMap'[x.sess][x.session] = TableIdx(x)
                  /\ \A s \in DOMAIN m : s # x.session => sessionMap'[x.sess][s] = m[s]
                  /\ x.mixed => x.sess \in dirty'
<1> USE DEF IInv
<1> DEFINE x == xdp[c]
           m == sessionMap[x.sess]
           e == Single(x.session, BackendIdx(x))
<1>1. x \in Packets /\ x # IdleXdp /\ x.pc = "forward"
  BY BusyXdp, Zenon DEF XdpForward, TypeOK
<1>2. x.session \in Sessions /\ x.sess \in Bufs /\ x.lup \in Bufs /\ x.idx \in Indices
  BY <1>1 DEF Packets
<1>3. TableIdx(x) \in Indices
  BY <1>2, BpfAssumption DEF TableIdx, BpfAssumption, TypeOK
<1>4. BackendIdx(x) \in Indices
  BY <1>2, <1>3 DEF BackendIdx
<1>5. m \in SessionMaps(Indices) /\ e \in SessionMaps(Indices)
  BY <1>2, <1>4, SingleType, Zenon DEF TypeOK
<1>6. CASE x.new /\ Fits(x)
  <2>1. /\ sessionMap' = [sessionMap EXCEPT ![x.sess] = Merge(m, e)]
        /\ x.mixed => x.sess \in dirty'
    BY <1>4, <1>6, Zenon DEF XdpForward
  <2>2. Merge(m, e) \in SessionMaps(Indices)
    BY <1>5, MergeType, Zenon
  <2>3. /\ DOMAIN Merge(m, e) = DOMAIN m \cup DOMAIN e
        /\ \A k \in DOMAIN e : Merge(m, e)[k] = e[k]
        /\ \A k \in DOMAIN m \ DOMAIN e : Merge(m, e)[k] = m[k]
    BY <1>5, MergeType, Zenon
  <2>4. DOMAIN e = {x.session} /\ e[x.session] = TableIdx(x)
    BY <1>2, <1>4, <1>6, SingleType, Zenon DEF BackendIdx
  <2>5. sessionMap'[x.sess] = Merge(m, e)
    BY <1>2, <2>1, Zenon DEF TypeOK
  <2>6. sessionMap' \in [Bufs -> SessionMaps(Indices)]
    BY <1>2, <2>1, <2>2, Zenon DEF TypeOK
  <2>7. \A b \in Bufs : b # x.sess => sessionMap'[b] = sessionMap[b]
    BY <2>1 DEF TypeOK
  <2>8. /\ DOMAIN sessionMap'[x.sess] = DOMAIN m \cup {x.session}
        /\ sessionMap'[x.sess][x.session] = TableIdx(x)
        /\ \A s \in DOMAIN m : s # x.session => sessionMap'[x.sess][s] = m[s]
    BY <2>3, <2>4, <2>5, Zenon
  <2> QED
    BY <1>1, <1>4, <1>6, <2>1, <2>5, <2>6, <2>7, <2>8, Zenon
<1>7. CASE ~(x.new /\ Fits(x))
  <2>1. sessionMap' = sessionMap
    BY <1>7, Zenon DEF XdpForward
  <2> QED
    BY <1>1, <1>4, <2>1, Zenon DEF TypeOK
<1> QED
  BY <1>6, <1>7, Zenon

LEMMA XdpForwardIInv == ASSUME IInv, NEW c \in Cpus, XdpForward(c) PROVE IInv'
<1> USE DEF IInv
<1> DEFINE x == xdp[c]
           m == sessionMap[active]
           n == sessionMap'[active]
<1>1. /\ UNCHANGED <<active, backendList, listLen, lookupTable, setter, home>>
      /\ xdp' = [xdp EXCEPT ![c] = IdleXdp]
      /\ dirty' = IF x.mixed /\ x.new /\ BackendIdx(x) \in Indices THEN dirty \cup {x.sess} ELSE dirty
  BY Zenon DEF XdpForward
<1>2. /\ x \in Packets /\ x # IdleXdp /\ x.pc = "forward" /\ BackendIdx(x) \in Indices
      /\ sessionMap' \in [Bufs -> SessionMaps(Indices)]
      /\ \A b \in Bufs : b # x.sess => sessionMap'[b] = sessionMap[b]
  BY ForwardFacts, Zenon
<1>w. \/ sessionMap' = sessionMap
      \/ /\ x.new
         /\ DOMAIN sessionMap'[x.sess] = DOMAIN sessionMap[x.sess] \cup {x.session}
         /\ sessionMap'[x.sess][x.session] = TableIdx(x)
         /\ \A s \in DOMAIN sessionMap[x.sess] :
                s # x.session => sessionMap'[x.sess][s] = sessionMap[x.sess][s]
         /\ x.mixed => x.sess \in dirty'
  BY ForwardFacts, Zenon
<1>3. /\ xdp' \in [Cpus -> XdpStates] /\ xdp'[c] = IdleXdp
      /\ \A d \in Cpus : d # c => xdp'[d] = xdp[d]
  BY <1>1 DEF TypeOK, XdpStates
<1>4. /\ dirty \subseteq dirty' /\ dirty' \subseteq Bufs /\ active \in Bufs /\ x.sess \in Bufs
  BY <1>1, <1>2, Zenon DEF TypeOK, Packets
<1>5. ringbuf' \in Seq([session : Sessions, backend : Backends \cup {NoBackend}])
  <2> DEFINE R == [session : Sessions, backend : Backends \cup {NoBackend}]
  <2>1. Assignment(x) \in R
    BY <1>2 DEF Assignment, TypeOK, Packets
  <2>2. ringbuf \in Seq(R)
    BY DEF TypeOK
  <2>3. ringbuf' = ringbuf \/ ringbuf' = Append(ringbuf, Assignment(x))
    BY Zenon DEF XdpForward
  <2> HIDE DEF R
  <2>4. Append(ringbuf, Assignment(x)) \in Seq(R)
    BY <2>1, <2>2, AppendType
  <2>5. ringbuf' \in Seq(R)
    BY <2>2, <2>3, <2>4
  <2> QED
    BY <2>5 DEF R
<1>6. TypeOK'
  BY <1>1, <1>2, <1>3, <1>4, <1>5, Zenon DEF TypeOK
<1>7. PacketInv'
  BY <1>1, <1>3, Zenon DEF PacketInv
\* The active map after the step, when it is not dirty.
<1>8. ASSUME active \notin dirty'
      PROVE  \/ n = m
             \/ /\ x.new /\ ~x.mixed /\ x.bl = active
                /\ DOMAIN n = DOMAIN m \cup {x.session}
                /\ n[x.session] = TableIdxOf(x.session)
                /\ \A s \in DOMAIN m : s # x.session => n[s] = m[s]
  <2>1. CASE x.sess # active
    BY <1>2, <1>4, <2>1, Zenon
  <2>2. CASE x.sess = active /\ x.mixed
    BY <1>8, <1>w, <2>2, Zenon
  <2>3. CASE x.sess = active /\ ~x.mixed
    <3>1. x.bl = active /\ x.lup = active
      BY <1>2, <2>3, Zenon DEF PacketInv
    <3>2. TableIdx(x) = TableIdxOf(x.session)
      BY <3>1 DEF TableIdx, TableIdxOf
    <3>4. CASE sessionMap' = sessionMap
      BY <3>4, Zenon
    <3>5. CASE sessionMap' # sessionMap
      BY <1>w, <2>3, <3>1, <3>2, <3>5, Zenon
    <3> QED
      BY <3>4, <3>5, Zenon
  <2> QED
    BY <2>1, <2>2, <2>3, Zenon
<1>9. SetterInv'
  <2>1. setter.pc \in Filling => ~(~x.mixed /\ x.sess = setter.target)
    BY <1>2, Zenon DEF PacketInv, SetterInv
  <2>2. ASSUME setter.pc = "bSwitchover"
        PROVE  /\ DOMAIN setter.objs.sessions \subseteq DOMAIN sessionMap'[setter.target]
               /\ setter.target \notin dirty' => sessionMap'[setter.target] = setter.objs.sessions
    <3>1. setter.target \in Bufs
      BY <2>2, BusySetter DEF TypeOK
    <3>2. /\ DOMAIN setter.objs.sessions \subseteq DOMAIN sessionMap[setter.target]
          /\ setter.target \notin dirty => sessionMap[setter.target] = setter.objs.sessions
      BY <2>2, Zenon DEF SetterInv
    <3>3. CASE sessionMap'[setter.target] = sessionMap[setter.target]
      BY <1>4, <3>2, <3>3, Zenon
    <3>4. CASE sessionMap'[setter.target] # sessionMap[setter.target]
      <4>1. x.sess = setter.target /\ sessionMap' # sessionMap
        BY <1>2, <3>1, <3>4
      <4>2. x.mixed
        BY <2>1, <2>2, <4>1 DEF Filling
      <4>3. /\ setter.target \in dirty'
            /\ DOMAIN sessionMap[setter.target] \subseteq DOMAIN sessionMap'[setter.target]
        BY <1>w, <4>1, <4>2, Zenon
      <4> QED
        BY <3>2, <4>3, Zenon
    <3> QED
      BY <3>3, <3>4, Zenon
  <2>3. /\ setter.pc \in Filling => setter.target # active
        /\ setter.pc \in {"lupSwitchover", "sSwitchover"} => setter.target = active
        /\ setter.pc \in {"lookupTable", "sessionMap", "bSwitchover"} =>
              ListIs(setter.target, setter.objs.list)'
        /\ setter.pc \in {"sessionMap", "bSwitchover"} =>
              lookupTable[setter.target] = setter.objs.table
    BY <1>1, Zenon DEF SetterInv, ListIs
  <2> QED
    BY <1>1, <2>2, <2>3, Zenon DEF SetterInv
<1>10. LearnInv'
  <2>0. UNCHANGED <<active, lookupTable>>
    BY <1>1
  <2> SUFFICES ASSUME NEW d \in Cpus, active \notin dirty', xdp'[d] # IdleXdp,
                      xdp'[d].pc = "forward", xdp'[d].new, ~xdp'[d].mixed, xdp'[d].bl = active,
                      xdp'[d].session \notin Batched, xdp'[d].session \in DOMAIN n
               PROVE  n[xdp'[d].session] = TableIdxOf(xdp'[d].session)
    BY <2>0, Zenon DEF LearnInv, TableIdxOf
  <2>1. d # c /\ xdp'[d] = xdp[d] /\ active \notin dirty
    BY <1>3, <1>4, Zenon
  <2>2. xdp[d].session \in DOMAIN m => m[xdp[d].session] = TableIdxOf(xdp[d].session)
    BY <2>1, Zenon DEF LearnInv
  <2> QED
    BY <1>8, <2>1, <2>2, SMTT(30)
<1>11. TableIndicesLive'
  BY <1>1, Zenon DEF TableIndicesLive, Serving
<1>12. SessionIndicesLive'
  <2>1. Hash[x.session] \in Slots
    BY <1>2, BpfAssumption, Zenon DEF BpfAssumption, Packets
  <2>2. ASSUME Serving, active \notin dirty', NEW s \in DOMAIN n PROVE n[s] < listLen[active]
    BY <1>4, <1>8, <2>1, <2>2, Zenon DEF SessionIndicesLive, TableIndicesLive, TableIdxOf
  <2> QED
    BY <1>1, <2>2, Zenon DEF SessionIndicesLive, Serving
<1>13. ForwardsToLive'
  <2>1. Serving' = Serving /\ LiveBackends' = LiveBackends
    BY <1>1, Zenon DEF Serving, LiveBackends
  <2> QED
    BY <1>1, <1>4, <2>1, Zenon DEF ForwardsToLive
<1>14. HomeInv'
  <2>1. ASSUME active \notin dirty', NEW s, s \notin Batched
        PROVE  IdxOf(s)' = IdxOf(s)
    <3>1. IdxOf(s)' = IF s \in DOMAIN n THEN n[s] ELSE TableIdxOf(s)
      BY <1>1, Zenon DEF IdxOf, TableIdxOf
    <3>2. CASE n = m
      BY <3>1, <3>2, Zenon DEF IdxOf
    <3>3. CASE n # m
      <4>1. /\ x.new /\ ~x.mixed /\ x.bl = active
            /\ DOMAIN n = DOMAIN m \cup {x.session}
            /\ n[x.session] = TableIdxOf(x.session)
            /\ \A k \in DOMAIN m : k # x.session => n[k] = m[k]
        BY <1>8, <2>1, <3>3, Zenon
      <4>2. CASE s # x.session
        BY <3>1, <4>1, <4>2, Zenon DEF IdxOf
      <4>3. CASE s = x.session
        <5>1. s \in DOMAIN m => m[s] = TableIdxOf(s)
          BY <1>2, <1>4, <2>1, <4>1, <4>3, Zenon DEF LearnInv
        <5>2. IdxOf(s)' = TableIdxOf(s)
          <6>1. s \in DOMAIN n /\ n[s] = TableIdxOf(s)
            BY <4>1, <4>3, Zenon
          <6> QED
            BY <3>1, <6>1, Zenon
        <5>3. IdxOf(s) = TableIdxOf(s)
          BY <5>1, Zenon DEF IdxOf
        <5> QED
          BY <5>2, <5>3, Zenon
      <4> QED
        BY <4>2, <4>3
    <3> QED
      BY <3>2, <3>3
  <2> QED
    BY <1>1, <1>4, <2>1, Zenon DEF HomeInv
<1> QED
  BY <1>6, <1>7, <1>9, <1>10, <1>11, <1>12, <1>13, <1>14

LEMMA ConsumeIInv == ASSUME IInv, ConsumeAssignment PROVE IInv'
<1> USE DEF IInv
<1>1. UNCHANGED <<maps, setter, xdp, home, dirty>>
  BY DEF ConsumeAssignment
<1>2. TypeOK'
  BY <1>1 DEF TypeOK, ConsumeAssignment, maps
<1>3. SetterInv' /\ PacketInv'
  BY <1>1, Zenon DEF SetterInv, PacketInv, ListIs, maps
<1>4. LearnInv'
  BY <1>1, Zenon DEF LearnInv, TableIdxOf, maps
<1>5. (TableIndicesLive /\ SessionIndicesLive /\ ForwardsToLive /\ HomeInv)'
  BY <1>1, ActiveUntouched, Zenon DEF maps
<1> QED
  BY <1>2, <1>3, <1>4, <1>5

LEMMA NextIInv == IInv /\ [Next]_vars => IInv'
<1> SUFFICES ASSUME IInv, [Next]_vars PROVE IInv'
  OBVIOUS
<1>1. CASE UNCHANGED vars
  <2>1. UNCHANGED <<maps, ringbuf, setter, xdp, home, dirty>>
    BY <1>1 DEF vars
  <2>2. (TableIndicesLive /\ SessionIndicesLive /\ ForwardsToLive /\ HomeInv)'
    BY <2>1, ActiveUntouched, Zenon DEF maps, IInv
  <2>3. TypeOK'
    BY <2>1, Zenon DEF TypeOK, maps, IInv
  <2>4. SetterInv' /\ PacketInv' /\ LearnInv'
    BY <2>1, Zenon DEF SetterInv, PacketInv, LearnInv, ListIs, TableIdxOf, maps, IInv
  <2> QED
    BY <2>2, <2>3, <2>4 DEF IInv
<1>2. CASE Next
  BY <1>2, StartSetIInv, SetBackendListIInv, SetLookupTableIInv, SetSessionMapIInv, SetFailsIInv,
     SwitchoverIInv, BatchIInv, XdpReadIInv, XdpLookupIInv, XdpForwardIInv, ConsumeIInv
     DEF Next, Set, Xdp
<1> QED
  BY <1>1, <1>2

(***************************************************************************)
(* The theorems.                                                           *)
(***************************************************************************)

(* The inductive invariant holds of every behaviour of the data path.      *)
THEOREM IInvInvariant == Spec => []IInv
BY InitIInv, NextIInv, PTL DEF Spec

(* The maps, the ring buffer, the setter and the packets keep their types. *)
THEOREM TypeCorrect == Spec => []TypeOK
<1>1. IInv => TypeOK
  BY DEF IInv
<1> QED
  BY <1>1, IInvInvariant, PTL

(* setObjects never exposes a lookup table next to a backend list it was   *)
(* not computed for.                                                       *)
THEOREM TableIndices == Spec => []TableIndicesLive
<1>1. IInv => TableIndicesLive
  BY DEF IInv
<1> QED
  BY <1>1, IInvInvariant, PTL

(* Nor a session map, unless a packet straddled a switchover.              *)
THEOREM SessionIndices == Spec => []SessionIndicesLive
<1>1. IInv => SessionIndicesLive
  BY DEF IInv
<1> QED
  BY <1>1, IInvInvariant, PTL

(* The XDP program forwards to the backends of the active list only.       *)
THEOREM Forwarding == Spec => []ForwardsToLive
<1>1. IInv => ForwardsToLive
  BY DEF IInv
<1> QED
  BY <1>1, IInvInvariant, PTL

(* Between two switchovers a session no batch names keeps its backend.     *)
THEOREM Affinity == Spec => SessionAffinity
<1>1. ASSUME IInv, [Next]_vars
      PROVE  [active' \notin dirty' =>
                \A s \in (DOMAIN home \cap DOMAIN home') \ Batched : home'[s] = home[s]]_vars
  <2> SUFFICES ASSUME Next, active' \notin dirty',
                      NEW s \in (DOMAIN home \cap DOMAIN home') \ Batched
               PROVE  home'[s] = home[s]
    BY <1>1, Zenon
  <2>1. CASE Switchover
    <3>1. setter.pc = "bSwitchover" => home' = NoMap
      BY <1>1, <2>1, SwitchoverCases, Zenon
    <3>2. setter.pc # "bSwitchover" => home' = home
      BY <1>1, <2>1, SwitchoverCases
    <3>3. DOMAIN NoMap = {}
      BY DEF NoMap
    <3> QED
      BY <3>1, <3>2, <3>3
  <2>2. ASSUME NEW b \in Batches, BatchUpdate(b) \/ BatchDelete(b)
        PROVE  home'[s] = home[s]
    BY <2>2 DEF BatchUpdate, BatchDelete, Without
  <2>3. ASSUME NEW c \in Cpus, XdpLookup(c)
        PROVE  home'[s] = home[s]
    <3> DEFINE x == xdp[c]
               idx == IF Known(x) THEN sessionMap[x.sess][x.session] ELSE TableIdx(x)
    <3>1. /\ active' = active /\ dirty' = dirty
          /\ home' = IF ~x.mixed /\ x.bl = active
                     THEN Merge(home, Single(x.session, backendList[x.bl][idx])) ELSE home
      BY <2>3, Zenon DEF XdpLookup, maps
    <3>2. ~x.mixed /\ x.bl = active => idx = IdxOf(x.session)
      BY <1>1, <2>3, LookupFacts, Zenon
    <3> HIDE DEF idx
    <3>3. home[s] = backendList[active][IdxOf(s)]
      BY <1>1, <3>1, Zenon DEF IInv, HomeInv
    <3> QED
      BY <3>1, <3>2, <3>3, Zenon DEF Merge, Single
  <2>4. CASE home' = home
    BY <2>4
  <2> QED
    BY <2>1, <2>2, <2>3, <2>4
      , Zenon DEF Next, Set, Xdp, StartSet, SetBackendList, SetLookupTable, SetSessionMap, SetFails,
           XdpReadBackendList, XdpReadLookupTable, XdpReadSessions, XdpForward, ConsumeAssignment
<1> QED
  BY <1>1, IInvInvariant, PTL DEF Spec, SessionAffinity

(* A switchover exposes the session map of its own set, unless a mixed     *)
(* packet wrote into it.                                                   *)
THEOREM ExactSessions == Spec => ExactSwitchover
<1>1. ASSUME IInv, [Next]_vars
      PROVE  [active' # active /\ active' \notin dirty =>
                sessionMap[active'] = setter.objs.sessions]_vars
  <2> SUFFICES ASSUME Next, active' # active, active' \notin dirty
               PROVE  sessionMap[active'] = setter.objs.sessions
    BY <1>1, Zenon
  <2>1. Switchover
    BY Zenon DEF Next, Set, Xdp, StartSet, SetBackendList, SetLookupTable, SetSessionMap, SetFails,
           BatchUpdate, BatchDelete, XdpReadBackendList, XdpReadLookupTable, XdpReadSessions,
           XdpLookup, XdpForward, ConsumeAssignment, maps
  <2>2. setter.pc = "bSwitchover" /\ active' = setter.target
    BY <1>1, <2>1, SwitchoverCases, Zenon
  <2> QED
    BY <1>1, <2>2, Zenon DEF IInv, SetterInv
<1> QED
  BY <1>1, IInvInvariant, PTL DEF Spec, ExactSwitchover

(***************************************************************************)
(* Refinement of AtomicMaps.                                               *)
(***************************************************************************)
LEMMA MapsUntouched ==
  ASSUME active' = active, listLen'[active] = listLen[active],
         backendList'[active] = backendList[active],
         lookupTable'[active] = lookupTable[active], sessionMap'[active] = sessionMap[active]
  PROVE  UNCHANGED Atomic!vars
BY Zenon DEF Atomic!vars, LiveList

LEMMA InitAtomic == Init => Atomic!Init
<1> SUFFICES ASSUME Init PROVE Atomic!Init
  OBVIOUS
<1>1. listLen[active] = 0 /\ lookupTable[active] = [k \in Slots |-> 0] /\ sessionMap[active] = NoMap
  BY DEF Init, Bufs
<1>2. LiveList = <<>>
  BY <1>1 DEF LiveList
<1> QED
  BY <1>1, <1>2, Zenon DEF Atomic!Init, NoMap

\* The first switchover replaces the live maps.
LEMMA SwitchoverAtomic ==
  ASSUME IInv, Switchover
  PROVE  [Atomic!Next]_(Atomic!vars)
<1>1. UNCHANGED <<backendList, listLen, lookupTable, sessionMap>>
  BY DEF Switchover
<1>2. CASE setter.pc = "bSwitchover"
  <2> DEFINE t == setter.target
             r == setter.objs
  <2>1. active' = t /\ t \in Bufs /\ r \in Requests /\ ValidObjects(r)
    BY <1>2, SwitchoverCases, BusySetter, Zenon DEF IInv, TypeOK
  <2>2. ListIs(t, r.list) /\ lookupTable[t] = r.table
    BY <1>2, Zenon DEF IInv, SetterInv
  <2>3. LiveList' = r.list
    <3>1. r.list \in Seq(Backends) /\ Len(r.list) \in Nat
      BY <2>1 DEF ValidObjects
    <3>2. LiveList' = [i \in 1 .. Len(r.list) |-> backendList[t][i - 1]]
      BY <1>1, <2>1, <2>2, Zenon DEF LiveList, ListIs
    <3>3. \A i \in 1 .. Len(r.list) : i - 1 \in 0 .. Len(r.list) - 1 /\ (i - 1) + 1 = i
      BY <3>1
    <3>4. \A i \in 1 .. Len(r.list) : backendList[t][i - 1] = r.list[i]
      BY <2>2, <3>3, Zenon DEF ListIs
    <3>5. LiveList' = [i \in 1 .. Len(r.list) |-> r.list[i]]
      BY <3>2, <3>4
    <3> QED
      BY <3>1, <3>5
  <2>4. sessionMap[t] \in SessionMaps(Indices) /\ r.sessions \in SessionMaps(Indices)
    BY <2>1, ValidFacts, Zenon DEF IInv, TypeOK
  <2>5. DOMAIN r.sessions \subseteq DOMAIN sessionMap[t]
    BY <1>2, Zenon DEF IInv, SetterInv
  <2>6. sessionMap[t] = Atomic!Merge(r.sessions, sessionMap[t])
    <3>1. sessionMap[t] \in [DOMAIN sessionMap[t] -> Indices]
      BY <2>4, IsSessionMap
    <3> QED
      BY <2>5, <3>1, Zenon DEF Atomic!Merge
  <2>7. Atomic!Replace(r, sessionMap[t])
    <3>1. (sessionMap[active])' = sessionMap[t] /\ (lookupTable[active])' = r.table
      BY <1>1, <2>1, <2>2, Zenon
    <3> QED
      BY <2>3, <2>6, <3>1, Zenon DEF Atomic!Replace
  <2>8. sessionMap[t] \in Atomic!SessionMaps
    BY <2>4 DEF SessionMaps, Atomic!SessionMaps
  <2> QED
    BY <2>1, <2>7, <2>8, Zenon DEF Atomic!Next
<1>3. CASE setter.pc # "bSwitchover"
  <2>1. active' = active
    BY <1>3, SwitchoverCases
  <2>2. UNCHANGED Atomic!vars
    BY <1>1, <2>1, MapsUntouched, Zenon
  <2> QED
    BY <2>2
<1> QED
  BY <1>2, <1>3

LEMMA BatchAtomic ==
  ASSUME IInv, NEW b \in Batches, BatchUpdate(b) \/ BatchDelete(b)
  PROVE  Atomic!Next
<1>1. UNCHANGED <<active, backendList, listLen, lookupTable>> /\ active \in Bufs
  BY Zenon DEF BatchUpdate, BatchDelete, IInv, TypeOK
<1>2. LiveList' = LiveList
  BY <1>1 DEF LiveList
<1>3. CASE BatchUpdate(b)
  <2>1. sessionMap'[active] = Merge(sessionMap[active], b)
    BY <1>1, <1>3, Zenon DEF BatchUpdate, IInv, TypeOK
  <2>2. Atomic!Update(b)
    BY <1>1, <1>2, <2>1, Zenon DEF Atomic!Update, Atomic!Merge, Merge
  <2> QED
    BY <2>2 DEF Atomic!Next
<1>4. CASE BatchDelete(b)
  <2>1. sessionMap'[active] = Without(sessionMap[active], DOMAIN b)
    BY <1>1, <1>4, Zenon DEF BatchDelete, IInv, TypeOK
  <2>2. Atomic!Delete(DOMAIN b)
    BY <1>1, <1>2, <2>1, Zenon DEF Atomic!Delete, Without
  <2> QED
    BY <2>2 DEF Atomic!Next
<1> QED
  BY <1>3, <1>4

LEMMA ForwardAtomic ==
  ASSUME IInv, NEW c \in Cpus, XdpForward(c)
  PROVE  [Atomic!Next]_(Atomic!vars)
<1> DEFINE x == xdp[c]
<1>1. UNCHANGED <<active, backendList, listLen, lookupTable>> /\ active \in Bufs
  BY Zenon DEF XdpForward, IInv, TypeOK
<1>2. LiveList' = LiveList
  BY <1>1 DEF LiveList
<1>3. CASE sessionMap'[active] = sessionMap[active]
  <2>1. UNCHANGED Atomic!vars
    BY <1>1, <1>3, MapsUntouched, Zenon
  <2> QED
    BY <2>1
<1>4. CASE sessionMap'[active] # sessionMap[active]
  <2>1. /\ x.sess = active /\ x \in Packets /\ BackendIdx(x) \in Indices /\ Fits(x)
        /\ sessionMap'[active] = Merge(sessionMap[active], Single(x.session, BackendIdx(x)))
    BY <1>1, <1>4, ForwardFacts, Zenon
  <2>2. x.session \in Sessions
    BY <2>1, Zenon DEF Packets
  <2>3. Atomic!Learn(x.session, BackendIdx(x))
    <3>1. \/ x.session \in DOMAIN sessionMap[active]
          \/ Cardinality(DOMAIN sessionMap[active]) < SessionsMax
      BY <2>1, Zenon DEF Fits, Known
    <3>2. sessionMap'[active] =
             Atomic!Merge(sessionMap[active], [t \in {x.session} |-> BackendIdx(x)])
      BY <2>1, Zenon DEF Merge, Single, Atomic!Merge
    <3>3. (sessionMap[active])' = sessionMap'[active] /\ (lookupTable[active])' = lookupTable[active]
      BY <1>1, Zenon
    <3> HIDE DEF x
    <3> QED
      BY <1>2, <3>1, <3>2, <3>3, Zenon DEF Atomic!Learn, Cardinality, Atomic!Cardinality
  <2> QED
    BY <2>1, <2>2, <2>3, Zenon DEF Atomic!Next
<1> QED
  BY <1>3, <1>4

(* The double-buffered maps implement maps that are replaced atomically.   *)
THEOREM Refinement == Spec => ImplementsAtomicMaps
<1>1. ASSUME IInv, [Next]_vars PROVE [Atomic!Next]_(Atomic!vars)
  <2>1. CASE UNCHANGED vars
    BY <2>1, MapsUntouched, Zenon DEF vars, maps
  <2>2. CASE SetBackendList \/ SetLookupTable \/ SetSessionMap
    <3>1. /\ setter.target # active /\ active \in Bufs /\ active' = active
      BY <1>1, <2>2 DEF IInv, TypeOK, SetterInv, Filling, SetBackendList, SetLookupTable, SetSessionMap
    <3>2. /\ listLen'[active] = listLen[active] /\ backendList'[active] = backendList[active]
          /\ lookupTable'[active] = lookupTable[active] /\ sessionMap'[active] = sessionMap[active]
      <4>1. CASE SetBackendList
        BY <1>1, <3>1, <4>1 DEF IInv, TypeOK, SetBackendList
      <4>2. CASE SetLookupTable
        BY <1>1, <3>1, <4>2 DEF IInv, TypeOK, SetLookupTable
      <4>3. CASE SetSessionMap
        BY <1>1, <3>1, <4>3 DEF IInv, TypeOK, SetSessionMap
      <4> QED
        BY <2>2, <4>1, <4>2, <4>3, Zenon
    <3> QED
      BY <3>1, <3>2, MapsUntouched
  <2>3. CASE UNCHANGED maps
    BY <2>3, MapsUntouched DEF maps
  <2>4. ASSUME NEW b \in Batches, BatchUpdate(b) \/ BatchDelete(b)
        PROVE  Atomic!Next
    BY <1>1, <2>4, BatchAtomic
  <2>5. ASSUME NEW c \in Cpus, XdpForward(c) PROVE [Atomic!Next]_(Atomic!vars)
    BY <1>1, <2>5, ForwardAtomic
  <2>6. CASE Switchover
    BY <1>1, <2>6, SwitchoverAtomic
  <2> QED
    BY <1>1, <2>1, <2>2, <2>3, <2>4, <2>5, <2>6
      , Zenon DEF Next, Set, Xdp, StartSet, SetFails, XdpReadBackendList, XdpReadLookupTable,
           XdpReadSessions, XdpLookup, ConsumeAssignment
<1> QED
  BY <1>1, InitAtomic, IInvInvariant, PTL DEF Spec, ImplementsAtomicMaps, Atomic!Spec

=============================================================================
