------------------------------- MODULE DvdsProofs -------------------------------
(***************************************************************************)
(* The data path of the distributed data structure, bottom up: the ring    *)
(* buffer, the write-ahead log with its linked list, and the state         *)
(* machine.  Every theorem holds for every size of the buffer, capacity of *)
(* the list and of the channel, number of keys, proposals and snapshots.   *)
(***************************************************************************)
EXTENDS Dvds, SequenceTheorems, WellFoundedInduction, TLAPS

(***************************************************************************)
(* The ring buffer, for every finite set of readers.  Its theorems assume  *)
(* only that the buffer takes the steps of Write and Next: they hold of    *)
(* RingBuffer's Spec as they hold of the log that is built on it.          *)
(*                                                                         *)
(* The argument.  The values neither returned nor overwritten are always   *)
(* the last Unread ones written, and as long as no reader has died they    *)
(* are stored in consecutive slots from readIdx on, every other slot being *)
(* nil.  So "overwriting" is the same as "full", the overwritten value is  *)
(* the oldest one, and a read takes the oldest one.                        *)
(***************************************************************************)
RingSteps == Init /\ [][Next]_vars

\* How far slot i is from readIdx, in reading order.
Dist(i) == IF i < readIdx THEN i - readIdx + Size ELSE i - readIdx

Layout ==
    /\ writeIdx = IF readIdx + Unread > Size - 1 THEN readIdx + Unread - Size
                  ELSE readIdx + Unread
    /\ \A i \in Slots :
          buf[i] = IF Dist(i) < Unread THEN written - Unread + 1 + Dist(i) ELSE nil

Accounted ==
    \A v \in 1 .. written - Unread :
        \/ \E i \in DOMAIN delivered : delivered[i] = v
        \/ v + Size <= written

IInv ==
    /\ TypeOK
    /\ Unread \in 0 .. Size
    /\ Panicked => Unread = 0
    /\ ~Panicked => Layout
    /\ \A i \in DOMAIN delivered : delivered[i] <= written - Unread
    /\ InOrder
    /\ Accounted

LEMMA InitIInv == Init => IInv
  <1> SUFFICES ASSUME Init PROVE IInv
    OBVIOUS
  <1>1. TypeOK
    BY RBAssumption DEF Init, TypeOK, Slots, nil
  <1>2. Unread = 0 /\ DOMAIN delivered = {}
    <2>1. delivered = <<>>
      BY DEF Init
    <2>2. Len(<<>>) = 0 /\ DOMAIN <<>> = {}
      OBVIOUS
    <2>3. Len(delivered) = 0 /\ DOMAIN delivered = {}
      BY <2>1, <2>2
    <2>4. written = 0 /\ lost = 0
      BY DEF Init
    <2>5. Unread = 0
      BY <2>3, <2>4 DEF Unread
    <2> QED
      BY <2>3, <2>5
  <1>3. Layout
    BY <1>2, RBAssumption DEF Init, Layout, Slots, Dist, nil
  <1> QED
    BY <1>1, <1>2, <1>3, RBAssumption DEF Init, IInv, InOrder, Accounted

\* Overwriting an unread value is the same as finding the buffer full.
LEMMA WriteFacts ==
  ASSUME IInv, Write
  PROVE  /\ Overwriting <=> Unread = Size
         /\ Unread' = IF Unread = Size THEN Size ELSE Unread + 1
  <1> USE RBAssumption
  <1>0. /\ ~Panicked /\ Layout /\ TypeOK
        /\ Unread \in 0 .. Size
        /\ delivered' = delivered /\ Len(delivered) \in Nat
        /\ lost \in Nat /\ written \in Nat
        /\ Unread <= written
    BY DEF IInv, Write, TypeOK, Unread
  <1>1. Overwriting <=> Unread = Size
    <2>1. buf[writeIdx] = IF Dist(writeIdx) < Unread
                          THEN written - Unread + 1 + Dist(writeIdx) ELSE 0
      BY <1>0, Zenon DEF Layout, TypeOK, nil
    <2>2. Dist(writeIdx) \in Nat
      BY <1>0 DEF Dist, TypeOK, Slots
    <2>3. writeIdx = readIdx <=> Unread \in {0, Size}
      BY <1>0 DEF Layout, TypeOK, Slots
    <2> QED
      BY <1>0, <2>1, <2>2, <2>3 DEF Overwriting, Dist, TypeOK, Slots, nil
  <1>2. Unread' = IF Unread = Size THEN Size ELSE Unread + 1
    <2>1. Unread' = written' - lost' - Len(delivered)
      BY <1>0 DEF Unread
    <2>2. written' = written + 1 /\ lost' = IF Unread = Size THEN lost + 1 ELSE lost
      BY <1>1 DEF Write
    <2> QED
      BY <1>0, <2>1, <2>2 DEF Unread
  <1> QED
    BY <1>1, <1>2

LEMMA WriteIInv == IInv /\ Write => IInv'
  <1> SUFFICES ASSUME IInv, Write PROVE IInv'
    BY Zenon
  <1> USE RBAssumption
  <1>0. /\ ~Panicked /\ Layout /\ TypeOK
        /\ Unread \in 0 .. Size
        /\ delivered' = delivered /\ Len(delivered) \in Nat
        /\ lost \in Nat /\ written \in Nat
        /\ Unread <= written
    BY DEF IInv, Write, TypeOK, Unread
  <1>1. Overwriting <=> Unread = Size
    BY WriteFacts
  <1>2. Unread' = IF Unread = Size THEN Size ELSE Unread + 1
    BY WriteFacts
  <1>3. TypeOK'
    BY <1>0 DEF TypeOK, Write, ReadIdxAfterWrite, TokensAfterWrite, Inc, Slots
  <1>4. ~Panicked'
    BY <1>0 DEF Write, Panicked
  <1>5. Layout'
    <2>1. readIdx' = IF Unread = Size THEN Inc(readIdx) ELSE readIdx
      BY <1>1 DEF Write, ReadIdxAfterWrite
    <2>2. writeIdx' = Inc(writeIdx) /\ written' = written + 1
      BY DEF Write
    <2>3. writeIdx' = IF readIdx' + Unread' > Size - 1 THEN readIdx' + Unread' - Size
                      ELSE readIdx' + Unread'
      <3>1. writeIdx = IF readIdx + Unread > Size - 1 THEN readIdx + Unread - Size
                       ELSE readIdx + Unread
        BY <1>0 DEF Layout
      <3>2. CASE Unread = Size
        BY <1>0, <1>2, <2>1, <2>2, <3>1, <3>2 DEF Inc, TypeOK, Slots
      <3>3. CASE Unread < Size
        BY <1>0, <1>2, <2>1, <2>2, <3>1, <3>3 DEF Inc, TypeOK, Slots
      <3> QED
        BY <1>0, <3>2, <3>3
    <2>4. ASSUME NEW i \in Slots
          PROVE  buf'[i] = IF Dist(i)' < Unread' THEN written' - Unread' + 1 + Dist(i)'
                           ELSE nil
      <3>1. buf'[i] = IF i = writeIdx THEN written + 1 ELSE buf[i]
        BY <1>0 DEF Write, TypeOK
      <3>2. buf[i] = IF Dist(i) < Unread THEN written - Unread + 1 + Dist(i) ELSE nil
        BY <1>0 DEF Layout
      <3>3. Dist(i)' = IF i < readIdx' THEN i - readIdx' + Size ELSE i - readIdx'
        BY DEF Dist
      <3>4. CASE Unread = Size
        <4>1. writeIdx = readIdx /\ Unread' = Size
          BY <1>0, <1>2, <3>4 DEF Layout, TypeOK, Slots
        <4> QED
          BY <1>0, <2>1, <2>2, <3>1, <3>2, <3>3, <3>4, <4>1 DEF Inc, TypeOK, Slots, Dist, nil
      <3>5. CASE Unread < Size
        <4>1. Unread' = Unread + 1 /\ readIdx' = readIdx
          BY <1>0, <1>2, <2>1, <3>5
        <4>2. i = writeIdx <=> Dist(i) = Unread
          BY <1>0, <3>5 DEF Layout, TypeOK, Slots, Dist
        <4> QED
          BY <1>0, <2>2, <3>1, <3>2, <3>3, <4>1, <4>2 DEF TypeOK, Slots, Dist, nil
      <3> QED
        BY <1>0, <3>4, <3>5
    <2> QED
      BY <2>3, <2>4 DEF Layout
  <1>6. \A i \in DOMAIN delivered' : delivered'[i] <= written' - Unread'
    BY <1>0, <1>2 DEF IInv, Write, TypeOK
  <1>7. InOrder'
    BY <1>0 DEF IInv, InOrder
  <1>8. Accounted'
    <2>1. written' - Unread' = IF Unread = Size THEN written - Unread + 1
                               ELSE written - Unread
      BY <1>0, <1>2 DEF Write
    <2> QED
      BY <1>0, <2>1 DEF IInv, Accounted, Write
  <1> QED
    BY <1>0, <1>2, <1>3, <1>4, <1>5, <1>6, <1>7, <1>8 DEF IInv

LEMMA TakeTokenIInv == ASSUME NEW r \in Readers PROVE IInv /\ TakeToken(r) => IInv'
  <1> SUFFICES ASSUME IInv, TakeToken(r) PROVE IInv'
    OBVIOUS
  <1> USE RBAssumption
  <1>1. TypeOK'
    BY DEF IInv, TypeOK, TakeToken
  <1>2. ~Panicked /\ ~Panicked'
    BY DEF IInv, TypeOK, TakeToken, Panicked
  <1>3. Unread' = Unread
    BY DEF Unread, TakeToken
  <1>4. Layout'
    BY <1>2, <1>3 DEF IInv, Layout, Dist, TakeToken
  <1> QED
    BY <1>1, <1>2, <1>3, <1>4 DEF IInv, TakeToken, InOrder, Accounted

\* A read takes the oldest unread value, or finds nil when there is none.
LEMMA ReadFacts ==
  ASSUME IInv, NEW r \in Readers, ReadSlot(r)
  PROVE  /\ Unread = 0 => /\ buf[readIdx] = nil
                          /\ delivered' = delivered
                          /\ Unread' = 0
                          /\ pc' = [pc EXCEPT ![r] = "panicked"]
         /\ Unread # 0 => /\ delivered' = Append(delivered, written - Unread + 1)
                          /\ Unread' = Unread - 1
                          /\ pc' = [pc EXCEPT ![r] = "waiting"]
  <1> USE RBAssumption
  <1>0. /\ ~Panicked /\ Layout /\ TypeOK
        /\ Unread \in 0 .. Size
        /\ Len(delivered) \in Nat /\ lost \in Nat /\ written \in Nat
        /\ written' = written /\ lost' = lost
    BY DEF IInv, ReadSlot, TypeOK
  <1>1. buf[readIdx] = IF Unread = 0 THEN nil ELSE written - Unread + 1
    BY <1>0 DEF Layout, Dist, TypeOK, Slots
  <1>2. written - Unread + 1 # nil
    BY <1>0 DEF Unread, nil
  <1>3. CASE Unread = 0
    <2>1. /\ buf[readIdx] = nil /\ delivered' = delivered
          /\ pc' = [pc EXCEPT ![r] = "panicked"]
      BY <1>1, <1>3 DEF ReadSlot
    <2>2. Unread' = 0
      BY <1>0, <1>3, <2>1 DEF Unread
    <2> QED
      BY <1>3, <2>1, <2>2
  <1>4. CASE Unread # 0
    <2>1. /\ delivered' = Append(delivered, written - Unread + 1)
          /\ pc' = [pc EXCEPT ![r] = "waiting"]
      BY <1>1, <1>2, <1>4 DEF ReadSlot
    <2>2. Unread' = Unread - 1
      BY <1>0, <2>1 DEF Unread, TypeOK
    <2> QED
      BY <1>4, <2>1, <2>2
  <1> QED
    BY <1>3, <1>4

LEMMA ReadSlotIInv == ASSUME NEW r \in Readers PROVE IInv /\ ReadSlot(r) => IInv'
  <1> SUFFICES ASSUME IInv, ReadSlot(r) PROVE IInv'
    OBVIOUS
  <1> USE RBAssumption
  <1>0. /\ ~Panicked /\ Layout /\ TypeOK
        /\ Unread \in 0 .. Size
        /\ Len(delivered) \in Nat /\ lost \in Nat /\ written \in Nat
        /\ written' = written /\ lost' = lost
    BY DEF IInv, ReadSlot, TypeOK
  <1>3. CASE Unread = 0
    <2>1. delivered' = delivered /\ Unread' = 0 /\ pc' = [pc EXCEPT ![r] = "panicked"]
      BY <1>3, ReadFacts, Zenon
    <2>2. TypeOK'
      BY <1>0, <2>1 DEF TypeOK, ReadSlot, Inc, Slots, nil
    <2>3. Panicked'
      BY <1>0, <2>1 DEF Panicked, TypeOK
    <2> QED
      BY <1>0, <1>3, <2>1, <2>2, <2>3 DEF IInv, InOrder, Accounted
  <1>4. CASE Unread # 0
    <2>1. /\ delivered' = Append(delivered, written - Unread + 1)
          /\ pc' = [pc EXCEPT ![r] = "waiting"]
      BY <1>4, ReadFacts, Zenon
    <2>2. TypeOK'
      BY <1>0, <1>4, <2>1, SMTT(30) DEF TypeOK, ReadSlot, Inc, Slots, nil, Unread
    <2>3. Unread' = Unread - 1
      BY <1>4, ReadFacts, Zenon
    <2>4. ~Panicked'
      BY <1>0, <2>1 DEF Panicked, TypeOK
    <2>5. Layout'
      <3>1. writeIdx' = writeIdx /\ readIdx' = Inc(readIdx)
        BY DEF ReadSlot
      <3>2. writeIdx' = IF readIdx' + Unread' > Size - 1 THEN readIdx' + Unread' - Size
                        ELSE readIdx' + Unread'
        BY <1>0, <1>4, <2>3, <3>1 DEF Layout, Inc, TypeOK, Slots
      <3>3. ASSUME NEW i \in Slots
            PROVE  buf'[i] = IF Dist(i)' < Unread' THEN written' - Unread' + 1 + Dist(i)'
                             ELSE nil
        <4>1. buf'[i] = IF i = readIdx THEN nil ELSE buf[i]
          BY <1>0, Zenon DEF ReadSlot, TypeOK
        <4>2. buf[i] = IF Dist(i) < Unread THEN written - Unread + 1 + Dist(i) ELSE nil
          BY <1>0 DEF Layout
        <4>3. Dist(i)' = IF i < readIdx' THEN i - readIdx' + Size ELSE i - readIdx'
          BY DEF Dist
        <4> QED
          BY <1>0, <1>4, <2>3, <3>1, <4>1, <4>2, <4>3 DEF Inc, TypeOK, Slots, Dist, nil
      <3> QED
        BY <3>2, <3>3 DEF Layout
    <2>6. \A i \in DOMAIN delivered' : delivered'[i] <= written' - Unread'
      BY <1>0, <2>1, <2>3 DEF IInv, TypeOK
    <2>7. InOrder'
      BY <1>0, <2>1, SMTT(30) DEF IInv, InOrder, TypeOK
    <2>8. Accounted'
      <3> SUFFICES ASSUME NEW v \in 1 .. written' - Unread'
                   PROVE  \/ \E i \in DOMAIN delivered' : delivered'[i] = v
                          \/ v + Size <= written'
        BY DEF Accounted
      <3>1. CASE v = written - Unread + 1
        <4>1. /\ Len(delivered) + 1 \in DOMAIN delivered'
              /\ delivered'[Len(delivered) + 1] = v
          BY <1>0, <2>1, <3>1 DEF TypeOK
        <4> QED
          BY <4>1
      <3>2. CASE v \in 1 .. written - Unread
        <4>1. \A i \in DOMAIN delivered : i \in DOMAIN delivered' /\ delivered'[i] = delivered[i]
          BY <1>0, <2>1, SMTT(30) DEF TypeOK
        <4> QED
          BY <1>0, <3>2, <4>1, Zenon DEF IInv, Accounted
      <3> QED
        BY <1>0, <2>3, <3>1, <3>2
    <2> QED
      BY <1>0, <1>4, <2>2, <2>3, <2>4, <2>5, <2>6, <2>7, <2>8 DEF IInv
  <1> QED
    BY <1>3, <1>4

LEMMA NextIInv == IInv /\ [Next]_vars => IInv'
  <1> SUFFICES ASSUME IInv, [Next]_vars PROVE IInv'
    OBVIOUS
  <1>1. CASE UNCHANGED vars
    BY <1>1, Zenon DEF IInv, vars, TypeOK, Unread, Panicked, Layout, Dist, InOrder, Accounted
  <1>2. CASE Write
    BY <1>2, WriteIInv
  <1>3. ASSUME NEW r \in Readers, TakeToken(r) PROVE IInv'
    BY <1>3, TakeTokenIInv
  <1>4. ASSUME NEW r \in Readers, ReadSlot(r) PROVE IInv'
    BY <1>4, ReadSlotIInv
  <1> QED
    BY <1>1, <1>2, <1>3, <1>4 DEF Next

(* The invariant of the whole argument holds in every reachable state.     *)
THEOREM IInvInvariant == RingSteps => []IInv
  BY InitIInv, NextIInv, PTL DEF RingSteps

(* Every variable keeps its type; in particular readIdx and writeIdx stay  *)
(* inside the buffer and safeNext never exceeds its capacity, so the       *)
(* accesses rb.buf[...] in Write and Next are never out of range.          *)
THEOREM TypeCorrect == RingSteps => []TypeOK
  <1>1. IInv => TypeOK
    BY DEF IInv
  <1> QED
    BY <1>1, IInvInvariant, PTL

(* Next returns values in the order of the Writes, each at most once, for  *)
(* every buffer size and any number of readers and overwrites.             *)
THEOREM Order == RingSteps => []InOrder
  <1>1. IInv => InOrder
    BY DEF IInv
  <1> QED
    BY <1>1, IInvInvariant, PTL

(* A value that was neither returned nor is stored was overwritten by a    *)
(* Write that found the buffer full: Size values were written after it.    *)
THEOREM Loss == RingSteps => []LossOnlyWhenFull
  <1>1. IInv => LossOnlyWhenFull
    <2> SUFFICES ASSUME IInv, NEW v \in 1 .. written
                 PROVE  \/ \E i \in DOMAIN delivered : delivered[i] = v
                        \/ \E i \in Slots : buf[i] = v
                        \/ v + Size <= written
      BY DEF LossOnlyWhenFull
    <2>0. Unread \in Nat /\ Unread <= Size /\ written \in Nat /\ readIdx \in Slots
      BY RBAssumption DEF IInv, TypeOK
    <2>1. CASE v <= written - Unread
      BY <2>0, <2>1 DEF IInv, Accounted
    <2>2. CASE v > written - Unread
      <3> DEFINE d == v - (written - Unread) - 1
                 s == IF readIdx + d > Size - 1 THEN readIdx + d - Size ELSE readIdx + d
      <3>1. Unread # 0 /\ Layout
        BY <2>0, <2>2 DEF IInv
      <3>2. s \in Slots /\ Dist(s) = d /\ d < Unread
        BY <2>0, <2>2, RBAssumption DEF Slots, Dist
      <3>3. buf[s] = written - Unread + 1 + d
        BY <3>1, <3>2, Zenon DEF Layout
      <3>4. buf[s] = v
        BY <2>0, <3>3
      <3> QED
        BY <3>2, <3>4
    <2> QED
      BY <2>0, <2>1, <2>2
  <1> QED
    BY <1>1, IInvInvariant, PTL

(***************************************************************************)
(* No lost wakeup.  Every unread value is covered by a token in safeNext   *)
(* or by a reader that took one and is about to read.                      *)
(***************************************************************************)
Holding == {r \in Readers : pc[r] = "locking"}

\* S has k elements.
Counts(k, S) ==
    \E f \in [1 .. k -> S] : /\ \A i, j \in 1 .. k : f[i] = f[j] => i = j
                             /\ \A x \in S : \E i \in 1 .. k : f[i] = x

LEMMA CountsEmpty == Counts(0, {})
  <1>1. <<>> \in [1 .. 0 -> {}] /\ 1 .. 0 = {}
    OBVIOUS
  <1> QED
    BY <1>1, Zenon DEF Counts

LEMMA CountsAdd ==
  ASSUME NEW k \in Nat, NEW S, NEW r, r \notin S, Counts(k, S)
  PROVE  Counts(k + 1, S \cup {r})
  <1>1. PICK f \in [1 .. k -> S] : /\ \A i, j \in 1 .. k : f[i] = f[j] => i = j
                                   /\ \A x \in S : \E i \in 1 .. k : f[i] = x
    BY Zenon DEF Counts
  <1> DEFINE g == [i \in 1 .. k + 1 |-> IF i = k + 1 THEN r ELSE f[i]]
  <1>2. \A i \in 1 .. k + 1 : i = k + 1 \/ i \in 1 .. k
    OBVIOUS
  <1>3. /\ \A i \in 1 .. k : i \in 1 .. k + 1 /\ g[i] = f[i] /\ f[i] \in S
        /\ k + 1 \in 1 .. k + 1 /\ g[k + 1] = r
    OBVIOUS
  <1>4. g \in [1 .. k + 1 -> S \cup {r}]
    OBVIOUS
  <1> HIDE DEF g
  <1>5. \A i, j \in 1 .. k + 1 : g[i] = g[j] => i = j
    BY <1>1, <1>2, <1>3, Zenon
  <1>6. \A x \in S \cup {r} : \E i \in 1 .. k + 1 : g[i] = x
    BY <1>1, <1>3, Zenon
  <1> QED
    BY <1>4, <1>5, <1>6, Zenon DEF Counts

LEMMA CountsRemove ==
  ASSUME NEW k \in Nat, NEW S, NEW r \in S, Counts(k, S)
  PROVE  k # 0 /\ Counts(k - 1, S \ {r})
  <1>1. PICK f \in [1 .. k -> S] : /\ \A i, j \in 1 .. k : f[i] = f[j] => i = j
                                   /\ \A x \in S : \E i \in 1 .. k : f[i] = x
    BY Zenon DEF Counts
  <1>2. PICK h \in 1 .. k : f[h] = r
    BY <1>1
  <1> DEFINE g == [i \in 1 .. k - 1 |-> IF i = h THEN f[k] ELSE f[i]]
  <1>3. k # 0 /\ k \in 1 .. k /\ \A i \in 1 .. k : i = k \/ i \in 1 .. k - 1
    OBVIOUS
  <1>4. \A i \in 1 .. k - 1 : i \in 1 .. k /\ i # k /\ g[i] = IF i = h THEN f[k] ELSE f[i]
    OBVIOUS
  <1>5. \A i \in 1 .. k - 1 : g[i] \in S \ {r}
    BY <1>1, <1>2, <1>3, <1>4
  <1>6. g \in [1 .. k - 1 -> S \ {r}]
    BY <1>5, Zenon
  <1> HIDE DEF g
  <1>7. \A i, j \in 1 .. k - 1 : g[i] = g[j] => i = j
    BY <1>1, <1>2, <1>3, <1>4, Zenon
  <1>8. \A x \in S \ {r} : \E i \in 1 .. k - 1 : g[i] = x
    <2> SUFFICES ASSUME NEW x \in S, x # r PROVE \E i \in 1 .. k - 1 : g[i] = x
      OBVIOUS
    <2>1. PICK i \in 1 .. k : f[i] = x
      BY <1>1
    <2>2. CASE i = k
      <3>1. h \in 1 .. k - 1 /\ g[h] = x
        BY <1>2, <1>3, <1>4, <2>1, <2>2, Zenon
      <3> QED
        BY <3>1
    <2>3. CASE i # k
      <3>1. i \in 1 .. k - 1 /\ g[i] = x
        BY <1>2, <1>3, <1>4, <2>1, <2>3, Zenon
      <3> QED
        BY <3>1, Zenon
    <2> QED
      BY <2>2, <2>3, Zenon
  <1> QED
    BY <1>3, <1>6, <1>7, <1>8, Zenon DEF Counts

Covered == ~Panicked => \E k \in Nat : Counts(k, Holding) /\ Unread <= safeNext + k

LEMMA InitTokens == Init => Unread = 0 /\ safeNext = 0 /\ ~Panicked /\ Holding = {}
  <1> SUFFICES ASSUME Init PROVE Unread = 0 /\ safeNext = 0 /\ ~Panicked /\ Holding = {}
    OBVIOUS
  <1>1. Len(<<>>) = 0
    OBVIOUS
  <1>2. Len(delivered) = 0 /\ written = 0 /\ lost = 0
    BY <1>1 DEF Init
  <1>3. Unread = 0
    BY <1>2 DEF Unread
  <1> QED
    BY <1>3, Zenon DEF Init, Holding, Panicked

LEMMA InitCovered == Init => Covered
  BY InitTokens, CountsEmpty DEF Covered

LEMMA NextCovered == IInv /\ Covered /\ [Next]_vars => Covered'
  <1> SUFFICES ASSUME IInv, Covered, [Next]_vars, ~Panicked'
               PROVE  \E k \in Nat : Counts(k, Holding') /\ Unread' <= safeNext' + k
    BY Zenon DEF Covered, Counts
  <1>0. Unread \in 0 .. Size /\ safeNext \in 0 .. Size /\ pc \in [Readers -> {"waiting", "locking", "panicked"}]
    BY DEF IInv, TypeOK
  <1>a. ~Panicked
    BY DEF Next, Write, TakeToken, ReadSlot, vars, Panicked
  <1>b. PICK k \in Nat : Counts(k, Holding) /\ Unread <= safeNext + k
    BY <1>a DEF Covered
  <1>1. CASE UNCHANGED vars
    <2>1. Unread' = Unread /\ Holding' = Holding /\ safeNext' = safeNext
      BY <1>1 DEF vars, Unread, Holding
    <2> QED
      BY <1>b, <2>1
  <1>2. CASE Write
    <2>1. Holding' = Holding /\ safeNext' = IF safeNext < Size THEN safeNext + 1 ELSE safeNext
      BY <1>2, Zenon DEF Write, Holding, TokensAfterWrite
    <2>2. Unread' = IF Unread = Size THEN Size ELSE Unread + 1
      BY <1>2, WriteFacts
    <2>3. Unread' <= safeNext' + k
      BY <1>0, <1>b, <2>1, <2>2, RBAssumption
    <2> QED
      BY <1>b, <2>1, <2>3
  <1>3. ASSUME NEW r \in Readers, TakeToken(r)
        PROVE  \E n \in Nat : Counts(n, Holding') /\ Unread' <= safeNext' + n
    <2>1. r \notin Holding /\ Holding' = Holding \cup {r}
      BY <1>0, <1>3 DEF Holding, TakeToken
    <2>2. Counts(k + 1, Holding')
      BY <1>b, <2>1, CountsAdd
    <2>3. Unread' = Unread /\ safeNext' = safeNext - 1
      BY <1>3, Zenon DEF TakeToken, Unread
    <2>4. k + 1 \in Nat /\ Unread' <= safeNext' + (k + 1)
      BY <1>0, <1>b, <2>3
    <2> QED
      BY <2>2, <2>4, Zenon
  <1>4. ASSUME NEW r \in Readers, ReadSlot(r)
        PROVE  \E n \in Nat : Counts(n, Holding') /\ Unread' <= safeNext' + n
    <2>1. safeNext' = safeNext /\ pc[r] = "locking" /\ r \in Holding
      BY <1>4 DEF ReadSlot, Holding
    <2>2. Unread # 0
      <3>1. Unread = 0 => pc' = [pc EXCEPT ![r] = "panicked"]
        BY <1>4, ReadFacts, Zenon
      <3> QED
        BY <1>0, <3>1 DEF Panicked
    <2>3. Unread' = Unread - 1 /\ pc' = [pc EXCEPT ![r] = "waiting"]
      BY <1>4, <2>2, ReadFacts, Zenon
    <2>4. Holding' = Holding \ {r}
      BY <1>0, <2>1, <2>3, Zenon DEF Holding
    <2>5. k # 0 /\ Counts(k - 1, Holding')
      BY <1>b, <2>1, <2>4, CountsRemove
    <2>6. k - 1 \in Nat /\ Unread' <= safeNext' + (k - 1)
      BY <1>0, <1>b, <2>1, <2>3, <2>5
    <2> QED
      BY <2>5, <2>6, Zenon
  <1> QED
    BY <1>1, <1>2, <1>3, <1>4 DEF Next

(* A reader that waits on an empty safeNext while no other reader is about *)
(* to read does not sleep on an unread value.                              *)
THEOREM NoLostWakeups == RingSteps => []NoLostWakeup
  <1>1. RingSteps => []Covered
    BY InitCovered, NextCovered, IInvInvariant, PTL DEF RingSteps
  <1>2. IInv /\ Covered => NoLostWakeup
    <2> SUFFICES ASSUME IInv, Covered, safeNext = 0,
                        \A r \in Readers : pc[r] = "waiting",
                        NEW i \in Slots
                 PROVE  buf[i] = nil
      BY Zenon DEF NoLostWakeup
    <2>1. ~Panicked /\ Holding = {}
      BY DEF Panicked, Holding
    <2>2. PICK k \in Nat : Counts(k, {}) /\ Unread <= k
      BY <2>1 DEF Covered
    <2>3. k = 0
      BY <2>2 DEF Counts
    <2>4. Unread = 0
      BY <2>2, <2>3 DEF IInv
    <2> QED
      BY <2>1, <2>4, RBAssumption DEF IInv, Layout, Dist, TypeOK, Slots
  <1> QED
    BY <1>1, <1>2, IInvInvariant, PTL

(***************************************************************************)
(* No nil slot without a loss.  Until the first overwrite every unread     *)
(* value has exactly one token, in safeNext or in the hands of a reader.   *)
(***************************************************************************)
Balanced ==
    lost = 0 => ~Panicked /\ \E k \in Nat : Counts(k, Holding) /\ Unread = safeNext + k

LEMMA InitBalanced == Init => Balanced
  BY InitTokens, CountsEmpty DEF Balanced

LEMMA NextBalanced == IInv /\ Balanced /\ [Next]_vars => Balanced'
  <1> SUFFICES ASSUME IInv, Balanced, [Next]_vars, lost' = 0
               PROVE  ~Panicked' /\ \E k \in Nat : Counts(k, Holding') /\ Unread' = safeNext' + k
    BY Zenon DEF Balanced, Counts
  <1>0. Unread \in 0 .. Size /\ safeNext \in 0 .. Size /\ lost \in Nat
        /\ pc \in [Readers -> {"waiting", "locking", "panicked"}]
    BY DEF IInv, TypeOK
  <1>a. lost = 0
    BY <1>0 DEF Next, Write, TakeToken, ReadSlot, vars
  <1>b. PICK k \in Nat : Counts(k, Holding) /\ Unread = safeNext + k
    BY <1>a DEF Balanced
  <1>c. ~Panicked
    BY <1>a DEF Balanced
  <1>1. CASE UNCHANGED vars
    <2>1. Unread' = Unread /\ Holding' = Holding /\ safeNext' = safeNext /\ ~Panicked'
      BY <1>1, <1>c, Zenon DEF vars, Unread, Holding, Panicked
    <2> QED
      BY <1>b, <2>1
  <1>2. CASE Write
    <2>1. ~Overwriting
      BY <1>a, <1>2 DEF Write
    <2>2. Unread # Size /\ Unread' = Unread + 1
      BY <1>2, <2>1, WriteFacts
    <2>3. Holding' = Holding /\ ~Panicked' /\ safeNext' = IF safeNext < Size THEN safeNext + 1 ELSE safeNext
      BY <1>2, Zenon DEF Write, Holding, TokensAfterWrite, Panicked
    <2>4. Unread' = safeNext' + k
      BY <1>0, <1>b, <2>2, <2>3, RBAssumption
    <2> QED
      BY <1>b, <2>3, <2>4
  <1>3. ASSUME NEW r \in Readers, TakeToken(r)
        PROVE  ~Panicked' /\ \E n \in Nat : Counts(n, Holding') /\ Unread' = safeNext' + n
    <2>1. r \notin Holding /\ Holding' = Holding \cup {r} /\ ~Panicked'
      BY <1>0, <1>3, Zenon DEF Holding, TakeToken, Panicked
    <2>2. Counts(k + 1, Holding')
      BY <1>b, <2>1, CountsAdd
    <2>3. Unread' = Unread /\ safeNext' = safeNext - 1
      BY <1>3, Zenon DEF TakeToken, Unread
    <2>4. k + 1 \in Nat /\ Unread' = safeNext' + (k + 1)
      BY <1>0, <1>b, <2>3
    <2> QED
      BY <2>1, <2>2, <2>4, Zenon
  <1>4. ASSUME NEW r \in Readers, ReadSlot(r)
        PROVE  ~Panicked' /\ \E n \in Nat : Counts(n, Holding') /\ Unread' = safeNext' + n
    <2>1. safeNext' = safeNext /\ r \in Holding
      BY <1>4, Zenon DEF ReadSlot, Holding
    <2>2. k # 0 /\ Counts(k - 1, Holding \ {r})
      BY <1>b, <2>1, CountsRemove
    <2>3. Unread # 0
      BY <1>0, <1>b, <2>2
    <2>4. Unread' = Unread - 1 /\ pc' = [pc EXCEPT ![r] = "waiting"]
      BY <1>4, <2>3, ReadFacts, Zenon
    <2>5. Holding' = Holding \ {r} /\ ~Panicked'
      BY <1>0, <1>c, <2>1, <2>4, Zenon DEF Holding, Panicked
    <2>6. k - 1 \in Nat /\ Unread' = safeNext' + (k - 1)
      BY <1>0, <1>b, <2>1, <2>2, <2>4
    <2> QED
      BY <2>2, <2>5, <2>6, Zenon
  <1> QED
    BY <1>1, <1>2, <1>3, <1>4, Zenon DEF Next

(* A reader that dereferences the nil of an empty slot does so only after  *)
(* Write has overwritten a value.                                          *)
THEOREM NilNeedsLoss == RingSteps => []NilOnlyAfterLoss
  <1>1. RingSteps => []Balanced
    BY InitBalanced, NextBalanced, IInvInvariant, PTL DEF RingSteps
  <1>2. IInv /\ Balanced => NilOnlyAfterLoss
    BY DEF IInv, TypeOK, Balanced, NilOnlyAfterLoss
  <1> QED
    BY <1>1, <1>2, IInvInvariant, PTL

(***************************************************************************)
(* Refinement.  Consecutive(n, hi) is the queue of the n last of hi writes. *)
(***************************************************************************)
Consecutive(n, hi) == [i \in 1 .. n |-> hi - n + i]

LEMMA ConsecutiveSeq ==
  ASSUME NEW hi \in Nat, NEW n \in 0 .. hi
  PROVE  Consecutive(n, hi) \in Seq(Nat) /\ Len(Consecutive(n, hi)) = n
  BY DEF Consecutive

LEMMA ConsecutiveAppend ==
  ASSUME NEW hi \in Nat, NEW n \in 0 .. hi
  PROVE  Append(Consecutive(n, hi), hi + 1) = Consecutive(n + 1, hi + 1)
  BY DEF Consecutive

LEMMA ConsecutiveTail ==
  ASSUME NEW hi \in Nat, NEW n \in 1 .. hi
  PROVE  /\ Consecutive(n, hi) # <<>>
         /\ Head(Consecutive(n, hi)) = hi - n + 1
         /\ Tail(Consecutive(n, hi)) = Consecutive(n - 1, hi)
  <1>1. Len(Consecutive(n, hi)) = n
    BY DEF Consecutive
  <1>2. Consecutive(n, hi) # <<>>
    BY <1>1
  <1>3. Head(Consecutive(n, hi)) = hi - n + 1
    BY DEF Consecutive
  <1>4. Tail(Consecutive(n, hi)) = Consecutive(n - 1, hi)
    <2>1. Consecutive(n, hi) \in Seq(Nat) /\ Consecutive(n - 1, hi) \in Seq(Nat)
      BY ConsecutiveSeq
    <2>2. /\ Tail(Consecutive(n, hi)) \in Seq(Nat)
          /\ Len(Tail(Consecutive(n, hi))) = n - 1
          /\ \A i \in 1 .. n - 1 : Tail(Consecutive(n, hi))[i] = Consecutive(n, hi)[i + 1]
      BY <1>1, <1>2, <2>1, HeadTailProperties
    <2>3. Len(Consecutive(n - 1, hi)) = n - 1
      BY ConsecutiveSeq
    <2>4. \A i \in 1 .. n - 1 : Consecutive(n, hi)[i + 1] = Consecutive(n - 1, hi)[i]
      BY DEF Consecutive
    <2> QED
      BY <2>1, <2>2, <2>3, <2>4, SeqEqual, Zenon
  <1> QED
    BY <1>2, <1>3, <1>4

LEMMA QueueConsecutive == IInv => Queue = Consecutive(Unread, written)
  <1> SUFFICES ASSUME IInv, NEW i \in 1 .. Unread
               PROVE  buf[Slot(i)] = written - Unread + i
    BY DEF Queue, Consecutive
  <1>1. /\ Unread \in 0 .. Size /\ written \in Nat /\ readIdx \in Slots
        /\ Layout
    BY DEF IInv, TypeOK
  <1>2. Slot(i) \in Slots /\ Dist(Slot(i)) = i - 1
    BY <1>1, RBAssumption DEF Slot, Slots, Dist
  <1>3. buf[Slot(i)] = IF Dist(Slot(i)) < Unread THEN written - Unread + 1 + Dist(Slot(i)) ELSE nil
    BY <1>1, <1>2 DEF Layout
  <1>4. Dist(Slot(i)) < Unread
    BY <1>1, <1>2
  <1>5. buf[Slot(i)] = written - Unread + 1 + (i - 1)
    BY <1>2, <1>3, <1>4, Zenon
  <1> QED
    BY <1>1, <1>5

(* The ring buffer, for every size and any number of readers, is a lossy   *)
(* FIFO: LossyFifo's initial state and steps are all a user can see.       *)
THEOREM Refinement == RingSteps => ImplementsLossyFifo
  <1>1. Init => Fifo!Init
    <2> SUFFICES ASSUME Init PROVE Fifo!Init
      OBVIOUS
    <2>1. IInv
      BY InitIInv
    <2>2. Len(<<>>) = 0
      OBVIOUS
    <2>3. Len(delivered) = 0 /\ written = 0 /\ lost = 0
      BY <2>2 DEF Init
    <2>4. Unread = 0
      BY <2>3 DEF Unread
    <2>5. Queue = <<>>
      BY <2>4 DEF Queue
    <2> QED
      BY <2>5, Zenon DEF Init, Fifo!Init
  <1>2. IInv /\ IInv' /\ [Next]_vars => [Fifo!Next]_(Fifo!vars)
    <2> SUFFICES ASSUME IInv, IInv', [Next]_vars PROVE [Fifo!Next]_(Fifo!vars)
      OBVIOUS
    <2>a. Queue = Consecutive(Unread, written)
      BY QueueConsecutive
    <2>b. Unread \in 0 .. Size /\ written \in Nat
      BY DEF IInv, TypeOK
    <2>c. Unread <= written
      BY DEF IInv, TypeOK, Unread
    <2>0. Unread \in 0 .. written /\ (Unread # 0 => Unread \in 1 .. written)
      BY <2>b, <2>c
    <2>1. (Queue = Consecutive(Unread, written))'
      BY QueueConsecutive, PTL
    <2>2. CASE UNCHANGED vars
      BY <2>2, Zenon DEF vars, Fifo!vars, Queue, Unread, Slot
    <2>3. CASE Write
      <3>1. written < MaxWrites /\ written' = written + 1 /\ UNCHANGED delivered
        BY <2>3 DEF Write
      <3>2. Unread' = IF Unread = Size THEN Size ELSE Unread + 1
        BY <2>3, WriteFacts
      <3>3. Len(Queue) = Unread
        BY <2>a, <2>b, <2>0, ConsecutiveSeq, Zenon
      <3>4. CASE Unread = Size
        <4>0. Size \in 1 .. written /\ Size - 1 \in 0 .. written /\ (Size - 1) + 1 = Size
          BY <2>b, <2>0, <3>4, RBAssumption, SMTT(30)
        <4>1. Tail(Queue) = Consecutive(Size - 1, written)
          BY <2>a, <2>b, <3>4, <4>0, ConsecutiveTail, Zenon
        <4>2. Append(Tail(Queue), written + 1) = Consecutive((Size - 1) + 1, written + 1)
          BY <2>b, <4>0, <4>1, ConsecutiveAppend, Zenon
        <4> QED
          BY <2>1, <3>1, <3>2, <3>3, <3>4, <4>0, <4>2, Zenon DEF Fifo!Next, Fifo!Put
      <3>5. CASE Unread # Size
        <4>1. Append(Queue, written + 1) = Consecutive(Unread + 1, written + 1)
          BY <2>a, <2>b, <2>0, ConsecutiveAppend, Zenon
        <4> QED
          BY <2>1, <3>1, <3>2, <3>3, <3>5, <4>1, Zenon DEF Fifo!Next, Fifo!Put
      <3> QED
        BY <3>4, <3>5
    <2>4. ASSUME NEW r \in Readers, TakeToken(r) PROVE UNCHANGED Fifo!vars
      BY <2>4, Zenon DEF TakeToken, Fifo!vars, Queue, Unread, Slot
    <2>5. ASSUME NEW r \in Readers, ReadSlot(r) PROVE [Fifo!Next]_(Fifo!vars)
      <3>1. written' = written
        BY <2>5 DEF ReadSlot
      <3>2. CASE Unread = 0
        <4>1. Unread' = Unread /\ delivered' = delivered
          BY <2>5, <3>2, ReadFacts, Zenon
        <4> QED
          BY <2>a, <2>1, <3>1, <4>1 DEF Fifo!vars
      <3>3. CASE Unread # 0
        <4>1. Unread' = Unread - 1 /\ delivered' = Append(delivered, written - Unread + 1)
          BY <2>5, <3>3, ReadFacts, Zenon
        <4>2. /\ Queue # <<>>
              /\ Head(Queue) = written - Unread + 1
              /\ Tail(Queue) = Consecutive(Unread - 1, written)
          BY <2>a, <2>b, <2>0, <3>3, ConsecutiveTail, Zenon
        <4> QED
          BY <2>1, <3>1, <4>1, <4>2, Zenon DEF Fifo!Next, Fifo!Get
      <3> QED
        BY <3>2, <3>3
    <2> QED
      BY <2>2, <2>3, <2>4, <2>5 DEF Next
  <1> QED
    BY <1>1, <1>2, IInvInvariant, PTL DEF RingSteps, ImplementsLossyFifo, Fifo!Spec

(***************************************************************************)
(* The log and the data structure take no other steps of the ring buffer.  *)
(***************************************************************************)
LEMMA RingStep == [DvNext]_dvVars => [Next]_vars
  <1> SUFFICES ASSUME [DvNext]_dvVars PROVE Next \/ UNCHANGED vars
    BY Zenon
  <1>1. CASE UNCHANGED dvVars
    BY <1>1 DEF dvVars
  <1>2. CASE Propose
    BY <1>2 DEF Propose, Next
  <1>3. CASE ReaderNext
    BY <1>3 DEF ReaderNext, Next
  <1>4. CASE RunWal \/ CloseWalBegin \/ CloseWalEnd \/ ReaderReturns
    BY <1>4, Zenon DEF RunWal, CloseWalBegin, CloseWalEnd, ReaderReturns
  <1>5. CASE WalLoop
    BY <1>5, Zenon DEF WalLoop, LoopAccept, LoopList, LoopSend, LoopTerminate
  <1>6. CASE SendSnapshot \/ CloseSnapshotLog \/ RunDvds \/ CloseDvdsBegin \/ CloseDvdsEnd
    BY <1>6, Zenon DEF SendSnapshot, CloseSnapshotLog, RunDvds, CloseDvdsBegin, CloseDvdsEnd
  <1>7. CASE DvLoop
    BY <1>7, Zenon DEF DvLoop, LoopCommand, LoopSnapshot, LoopEnd
  <1> QED
    BY <1>1, <1>2, <1>3, <1>4, <1>5, <1>6, <1>7, Zenon DEF DvNext, WalNext

(* What the log and the data structure do to the ring buffer are steps of  *)
(* the ring buffer, so the theorems above hold in their behaviours.        *)
THEOREM RingInDvds == DvSpec => RingSteps
  BY RingStep, PTL DEF DvSpec, DvInit, WalInit, RingSteps

(* In the data structure, a reader that waits on an empty safeNext does    *)
(* not sleep on a proposal.                                                *)
THEOREM DvNoLostWakeups == DvSpec => []NoLostWakeup
  BY RingInDvds, NoLostWakeups, PTL

(* In the data structure, the ring buffer is a lossy FIFO of proposals.    *)
THEOREM DvRefinement == DvSpec => ImplementsLossyFifo
  BY RingInDvds, Refinement, PTL

(***************************************************************************)
(* Proofs by induction go through a set of numbers that holds 0 and the    *)
(* successor of each of its members, and so every number.                  *)
(***************************************************************************)
LEMMA NatLeast == \A T \in SUBSET Nat : T # {} => \E x \in T : \A y \in T : x <= y
  <1> SUFFICES ASSUME NEW T \in SUBSET Nat, T # {}
               PROVE \E x \in T : \A y \in T : x <= y
    OBVIOUS
  <1>1. \E x \in T : \A y \in T : ~(<<y, x>> \in OpToRel(<, Nat))
    BY NatLessThanWellFounded, WFMin, Zenon
  <1>2. PICK x \in T : \A y \in T : ~(<<y, x>> \in OpToRel(<, Nat))
    BY <1>1, Zenon
  <1>3. OpToRel(<, Nat) = {ss \in Nat \X Nat : ss[1] < ss[2]}
    BY Zenon DEF OpToRel
  <1>4. ASSUME NEW y \in T PROVE x <= y
    <2>1. ~(<<y, x>> \in {ss \in Nat \X Nat : ss[1] < ss[2]})
      BY <1>2, <1>3, Zenon
    <2>2. QED
      BY <2>1
  <1>5. QED
    BY <1>4, Zenon

LEMMA SetInduction ==
  \A S \in SUBSET Nat : (0 \in S /\ \A i \in S : i + 1 \in S) => S = Nat
  <1> SUFFICES ASSUME NEW S \in SUBSET Nat, 0 \in S, \A i \in S : i + 1 \in S, Nat \ S # {}
               PROVE FALSE
    BY Zenon
  <1>1. PICK x \in Nat \ S : \A y \in Nat \ S : x <= y
    BY NatLeast, Zenon
  <1>2. x # 0 /\ x - 1 \in Nat /\ x - 1 \notin Nat \ S
    BY <1>1
  <1>3. x - 1 \in S /\ (x - 1) + 1 = x
    BY <1>2
  <1>4. QED
    BY <1>3, Zenon

(***************************************************************************)
(* The log.  InHand says what the reader goroutine holds, Linked how the   *)
(* list is laid out in the heap: node i holds the i-th accepted entry, and *)
(* the last length nodes are linked (none of a list of capacity 1, where   *)
(* the eviction of the only node comes before the new one is linked).      *)
(***************************************************************************)
Kept(n) == IF capacity = 0 \/ n <= capacity THEN n ELSE capacity

InHand ==
    /\ walState = "new" => reader = "off"
    /\ accepted \in Seq(Nat)
    /\ Len(delivered) = Len(accepted) + (IF reader \in {"offering", "returned"} THEN 1 ELSE 0)
    /\ \A i \in 1 .. Len(accepted) : accepted[i] = delivered[i]

Nodes == [previous : Nat, next : Nat, data : Nat]

Linked ==
    LET n == Len(accepted)
    IN /\ nodes \in Seq(Nodes) /\ Len(nodes) = n
       /\ \A i \in 1 .. n : /\ nodes[i].data = accepted[i]
                            /\ nodes[i].next = IF i < n /\ capacity # 1 THEN i + 1 ELSE 0
       /\ length = Kept(n)
       /\ tail = n
       /\ head = IF n = 0 THEN 0 ELSE n - length + 1

(***************************************************************************)
(* The state machine.  Handled is the number of accepted entries whose     *)
(* dispatch is over.  What is in the channel, and what was executed, are   *)
(* such entries, in order.                                                 *)
(***************************************************************************)
Handled == IF loop \in {"list", "send"} THEN Len(accepted) - 1 ELSE Len(accepted)

IsIncreasing(s) == \A i, j \in DOMAIN s : i < j => s[i] < s[j]

OfHandled(s) == \A i \in DOMAIN s : \E p \in 1 .. Handled : s[i] = accepted[p]

Feed ==
    /\ cmdCh \in Seq(Nat) /\ executed \in Seq(Nat)
    /\ loop \in {"list", "send"} => accepted # <<>>
    /\ \A i \in DOMAIN delivered : delivered[i] # nil
    /\ OfHandled(cmdCh) /\ OfHandled(executed)
    /\ IsIncreasing(cmdCh) /\ IsIncreasing(executed)
    /\ \A i \in DOMAIN executed, j \in DOMAIN cmdCh : executed[i] < cmdCh[j]

Holds ==
    ~decoded =>
        /\ DOMAIN state = {KeyOf(executed[i]) : i \in DOMAIN executed}
        /\ \A i \in DOMAIN executed : executed[i] <= state[KeyOf(executed[i])]

DvInv == InHand /\ Linked /\ Feed /\ Holds

LEMMA InitDvInv == DvInit => DvInv
  <1> SUFFICES ASSUME DvInit PROVE DvInv
    BY Zenon
  <1>1. /\ accepted = <<>> /\ delivered = <<>> /\ nodes = <<>> /\ cmdCh = <<>> /\ executed = <<>>
        /\ head = 0 /\ tail = 0 /\ length = 0 /\ reader = "off" /\ loop = "off" /\ state = Empty
    BY DEF DvInit, WalInit, Init, List!ListInit
  <1>2. Len(<<>>) = 0 /\ DOMAIN <<>> = {} /\ <<>> \in Seq(Nat) /\ <<>> \in Seq(Nodes)
    OBVIOUS
  <1>3. InHand
    BY <1>1, <1>2 DEF InHand
  <1>4. Linked
    BY <1>1, <1>2, WalAssumption DEF Linked, Kept
  <1>5. Feed
    BY <1>1, <1>2, Zenon DEF Feed, OfHandled, IsIncreasing
  <1>6. Holds
    BY <1>1, <1>2 DEF Holds, Empty
  <1> QED
    BY <1>3, <1>4, <1>5, <1>6 DEF DvInv

\* What each step does to the reader goroutine and the list of accepted entries.
LEMMA InHandSteps ==
  ASSUME [DvNext]_dvVars
  PROVE  \/ UNCHANGED <<walState, reader, accepted, delivered, nodes, head, tail, length>>
         \/ /\ walState' # "new" /\ UNCHANGED <<accepted, delivered, nodes, head, tail, length>>
            /\ \/ reader' = reader /\ walState # "new"
               \/ walState = "new" /\ reader' = "next"
         \/ ReaderNext
         \/ ReaderReturns
         \/ LoopAccept
  <1>1. CASE UNCHANGED dvVars
    BY <1>1, Zenon DEF dvVars, vars, walVars, list
  <1>2. CASE Propose \/ RunWal \/ CloseWalBegin \/ CloseWalEnd
    BY <1>2, Zenon DEF Propose, Write, RunWal, CloseWalBegin, CloseWalEnd, vars, walVars, list
  <1>3. CASE LoopList \/ LoopSend \/ LoopTerminate
    BY <1>3, Zenon DEF LoopList, LoopSend, LoopTerminate, vars, list
  <1>4. CASE SendSnapshot \/ CloseSnapshotLog \/ RunDvds \/ CloseDvdsBegin \/ CloseDvdsEnd
    BY <1>4, Zenon DEF SendSnapshot, CloseSnapshotLog, RunDvds, CloseDvdsBegin, CloseDvdsEnd,
                vars, walVars, list
  <1>5. CASE DvLoop
    BY <1>5, Zenon DEF DvLoop, LoopCommand, LoopSnapshot, LoopEnd, vars, walVars, list
  <1> QED
    BY <1>1, <1>2, <1>3, <1>4, <1>5, Zenon DEF DvNext, WalNext, WalLoop

LEMMA NextInHand == IInv /\ InHand /\ [DvNext]_dvVars => InHand'
  <1> SUFFICES ASSUME IInv, InHand, [DvNext]_dvVars PROVE InHand'
    BY Zenon
  <1>0. delivered \in Seq(Nat) /\ accepted \in Seq(Nat) /\ Len(accepted) \in Nat /\ buf \in [Slots -> Nat] /\ readIdx \in Slots
    BY DEF IInv, TypeOK, InHand
  <1>1. CASE UNCHANGED <<walState, reader, accepted, delivered, nodes, head, tail, length>>
    BY <1>1, Zenon DEF InHand
  <1>2. CASE /\ walState' # "new" /\ UNCHANGED <<accepted, delivered, nodes, head, tail, length>>
             /\ \/ reader' = reader /\ walState # "new"
                \/ walState = "new" /\ reader' = "next"
    BY <1>2, Zenon DEF InHand
  <1>3. CASE ReaderNext
    <2>1. reader = "next" /\ walState # "new" /\ walState' = walState /\ accepted' = accepted
      BY <1>3, Zenon DEF ReaderNext, InHand
    <2>2. PICK r \in Readers : \/ TakeToken(r) /\ UNCHANGED reader
                               \/ ReadSlot(r) /\ reader' = IF buf[readIdx] = nil THEN "next" ELSE "offering"
      BY <1>3 DEF ReaderNext
    <2>3. CASE TakeToken(r) /\ UNCHANGED reader
      BY <2>1, <2>3, Zenon DEF TakeToken, InHand
    <2>4. CASE ReadSlot(r) /\ buf[readIdx] = nil /\ reader' = "next"
      BY <2>1, <2>4, Zenon DEF ReadSlot, InHand
    <2>5. CASE ReadSlot(r) /\ buf[readIdx] # nil /\ reader' = "offering"
      <3>1. delivered' = Append(delivered, buf[readIdx]) /\ buf[readIdx] \in Nat
        BY <1>0, <2>5, Zenon DEF ReadSlot
      <3>2. Len(delivered) = Len(accepted)
        BY <2>1 DEF InHand
      <3>3. /\ Len(delivered') = Len(delivered) + 1
            /\ \A i \in 1 .. Len(delivered) : delivered'[i] = delivered[i]
        BY <1>0, <3>1
      <3> QED
        BY <1>0, <2>1, <2>5, <3>2, <3>3, Zenon DEF InHand
    <2> QED
      BY <2>2, <2>3, <2>4, <2>5
  <1>4. CASE ReaderReturns
    BY <1>4, Zenon DEF ReaderReturns, InHand, vars, list
  <1>5. CASE LoopAccept
    <2>1. /\ reader = "offering" /\ reader' = "next" /\ walState' = walState /\ delivered' = delivered
          /\ accepted' = Append(accepted, delivered[Len(delivered)])
      BY <1>5, Zenon DEF LoopAccept, vars
    <2>2. Len(delivered) = Len(accepted) + 1 /\ delivered[Len(delivered)] \in Nat
      BY <1>0, <2>1 DEF InHand
    <2>3. /\ accepted' \in Seq(Nat) /\ Len(accepted') = Len(accepted) + 1
          /\ \A i \in 1 .. Len(accepted) + 1 :
                accepted'[i] = IF i = Len(accepted) + 1 THEN delivered[i] ELSE accepted[i]
      BY <1>0, <2>1, <2>2
    <2> QED
      BY <1>0, <2>1, <2>2, <2>3 DEF InHand
  <1> QED
    BY <1>1, <1>2, <1>3, <1>4, <1>5, InHandSteps, Zenon

LEMMA Relinked ==
  \A r \in Nodes, m \in Nat : /\ [r EXCEPT !.next = m] \in Nodes
                              /\ [r EXCEPT !.next = m].next = m
                              /\ [r EXCEPT !.next = m].data = r.data
  BY DEF Nodes

\* Append keeps the layout, evicting or not.
LEMMA AppendLinked ==
  ASSUME InHand, Linked, NEW x \in Nat,
         List!ListAppend(x), accepted' = Append(accepted, x)
  PROVE  Linked'
  <1> DEFINE n == Len(accepted)
             last == IF capacity = 1 THEN 0 ELSE n
             linked == IF last = 0 THEN nodes ELSE [nodes EXCEPT ![last].next = n + 1]
             new == [previous |-> last, next |-> 0, data |-> x]
  <1> USE WalAssumption
  <1>0. /\ accepted \in Seq(Nat) /\ n \in Nat /\ nodes \in Seq(Nodes) /\ Len(nodes) = n
        /\ capacity \in Nat /\ length = Kept(n) /\ tail = n
        /\ head = IF n = 0 THEN 0 ELSE n - length + 1
    BY SMTT(30) DEF InHand, Linked
  <1>1. /\ accepted' \in Seq(Nat) /\ Len(accepted') = n + 1
        /\ \A i \in 1 .. n + 1 : accepted'[i] = IF i = n + 1 THEN x ELSE accepted[i]
    BY <1>0
  <1>2. Kept(n) \in Nat /\ Kept(n) <= n /\ (n # 0 => Kept(n) # 0)
        /\ Kept(n + 1) = IF capacity # 0 /\ Kept(n) = capacity THEN Kept(n) ELSE Kept(n) + 1
    BY <1>0 DEF Kept
  <1>3. List!Evicting <=> capacity # 0 /\ Kept(n) = capacity
    BY <1>0, Zenon DEF List!Evicting
  <1>4. List!TailAfterEviction = last
    <2>1. capacity = 1 => Kept(n) = IF n = 0 THEN 0 ELSE 1
      BY <1>0, SMTT(30) DEF Kept
    <2> QED
      BY <1>0, <1>2, <1>3, <2>1, Zenon DEF List!TailAfterEviction
  <1>5. /\ nodes' = Append(linked, new)
        /\ head' = IF last = 0 THEN n + 1 ELSE List!HeadAfterEviction
        /\ tail' = n + 1
        /\ length' = (IF List!Evicting THEN length - 1 ELSE length) + 1
    BY <1>0, <1>4, Zenon DEF List!ListAppend
  <1>6. length' = Kept(n + 1)
    BY <1>0, <1>2, <1>3, <1>5, SMTT(30)
  <1>7. /\ linked \in Seq(Nodes) /\ Len(linked) = n
        /\ \A i \in 1 .. n : /\ linked[i].data = accepted[i]
                             /\ linked[i].next = IF capacity # 1 THEN i + 1 ELSE 0
    <2>1. CASE last = 0
      <3>1. n = 0 \/ capacity = 1
        BY <2>1, Zenon
      <3> QED
        BY <1>0, <2>1, <3>1 DEF Linked
    <2>2. CASE last # 0
      <3>1. last = n /\ n \in 1 .. n /\ capacity # 1 /\ nodes[n] \in Nodes
        BY <1>0, <2>2
      <3>2. [nodes[n] EXCEPT !.next = n + 1] \in Nodes
            /\ [nodes[n] EXCEPT !.next = n + 1].next = n + 1
            /\ [nodes[n] EXCEPT !.next = n + 1].data = nodes[n].data
        <4>1. nodes[n] \in Nodes /\ n + 1 \in Nat
          BY <1>0, <3>1
        <4> QED
          BY <4>1, Relinked, Zenon
      <3>3. linked = [nodes EXCEPT ![n] = [nodes[n] EXCEPT !.next = n + 1]]
        BY <2>2, <3>1, Zenon
      <3>4. /\ linked \in Seq(Nodes) /\ Len(linked) = n
            /\ \A i \in 1 .. n : linked[i] = IF i = n THEN [nodes[n] EXCEPT !.next = n + 1] ELSE nodes[i]
        BY <1>0, <3>1, <3>2, <3>3
      <3> HIDE DEF linked
      <3>5. ASSUME NEW i \in 1 .. n
            PROVE  linked[i].data = accepted[i] /\ linked[i].next = i + 1
        <4>1. nodes[i].data = accepted[i] /\ (i < n => nodes[i].next = i + 1)
          BY <3>1, Zenon DEF Linked
        <4>2. CASE i = n
          BY <3>2, <3>4, <4>1, <4>2, Zenon
        <4>3. CASE i < n
          BY <3>4, <4>1, <4>3, SMTT(30)
        <4> QED
          BY <1>0, <4>2, <4>3, SMTT(30)
      <3> QED
        BY <3>1, <3>4, <3>5
    <2> QED
      BY <2>1, <2>2, Zenon
  <1>8. new \in Nodes /\ new.next = 0 /\ new.data = x
    BY <1>0, Zenon DEF Nodes
  <1> HIDE DEF linked, new
  <1>9. /\ nodes' \in Seq(Nodes) /\ Len(nodes') = n + 1
        /\ \A i \in 1 .. n + 1 : nodes'[i] = IF i = n + 1 THEN new ELSE linked[i]
    BY <1>0, <1>5, <1>7, <1>8, SMTT(30)
  <1>10. \A i \in 1 .. n + 1 : /\ nodes'[i].data = accepted'[i]
                               /\ nodes'[i].next = IF i < n + 1 /\ capacity # 1 THEN i + 1 ELSE 0
    <2> SUFFICES ASSUME NEW i \in 1 .. n + 1
                 PROVE  /\ nodes'[i].data = accepted'[i]
                        /\ nodes'[i].next = IF i < n + 1 /\ capacity # 1 THEN i + 1 ELSE 0
      BY Zenon
    <2>1. CASE i = n + 1
      BY <1>0, <1>1, <1>8, <1>9, <2>1, SMTT(30)
    <2>2. CASE i \in 1 .. n
      <3>1. nodes'[i] = linked[i] /\ accepted'[i] = accepted[i]
        BY <1>0, <1>1, <1>9, <2>2, SMTT(30)
      <3>2. linked[i].data = accepted[i] /\ linked[i].next = IF capacity # 1 THEN i + 1 ELSE 0
        BY <1>7, <2>2, Zenon
      <3> QED
        BY <1>0, <2>2, <3>1, <3>2, SMTT(30)
    <2> QED
      BY <1>0, <2>1, <2>2, SMTT(30)
  <1>11. head' = (n + 1) - length' + 1
    <2>1. CASE capacity = 1
      <3>1. Kept(n + 1) = 1
        BY <1>0, <2>1, SMTT(30) DEF Kept
      <3> QED
        BY <1>0, <1>5, <1>6, <2>1, <3>1, SMTT(30)
    <2>2. CASE n = 0
      <3>1. Kept(n + 1) = 1
        BY <1>0, <2>2, SMTT(30) DEF Kept
      <3> QED
        BY <1>0, <1>5, <1>6, <2>2, <3>1, SMTT(30)
    <2>3. CASE capacity # 1 /\ n # 0 /\ ~List!Evicting
      BY <1>0, <1>2, <1>3, <1>5, <1>6, <2>3, SMTT(30) DEF List!HeadAfterEviction
    <2>4. CASE capacity # 1 /\ n # 0 /\ List!Evicting
      <3>1. capacity > 1 /\ length = capacity /\ head \in 1 .. n /\ head < n
        BY <1>0, <1>2, <1>3, <2>4, SMTT(30)
      <3>2. nodes[head].next = head + 1
        BY <3>1, <2>4, Zenon DEF Linked
      <3> QED
        BY <1>0, <1>2, <1>3, <1>5, <1>6, <2>4, <3>1, <3>2, SMTT(30) DEF List!HeadAfterEviction
    <2> QED
      BY <2>1, <2>2, <2>3, <2>4, Zenon
  <1>12. n + 1 # 0 /\ n' = n + 1
    BY <1>0, <1>1
  <1> QED
    BY <1>1, <1>5, <1>6, <1>9, <1>10, <1>11, <1>12, Zenon DEF Linked, Kept

LEMMA NextLinked == IInv /\ InHand /\ Linked /\ [DvNext]_dvVars => Linked'
  <1> SUFFICES ASSUME IInv, InHand, Linked, [DvNext]_dvVars PROVE Linked'
    BY Zenon
  <1>1. CASE UNCHANGED <<accepted, nodes, head, tail, length>>
    BY <1>1, Zenon DEF Linked, Kept
  <1>2. CASE LoopAccept
    <2>1. reader = "offering" /\ List!ListAppend(delivered[Len(delivered)])
          /\ accepted' = Append(accepted, delivered[Len(delivered)])
      BY <1>2, Zenon DEF LoopAccept
    <2>2. delivered \in Seq(Nat) /\ Len(delivered) = Len(accepted) + 1 /\ accepted \in Seq(Nat)
      BY <2>1, Zenon DEF IInv, TypeOK, InHand
    <2>3. delivered[Len(delivered)] \in Nat
      BY <2>2
    <2> QED
      BY <2>1, <2>3, AppendLinked, Zenon
  <1>3. ReaderNext \/ ReaderReturns => UNCHANGED <<accepted, nodes, head, tail, length>>
    BY Zenon DEF ReaderNext, ReaderReturns, list
  <1> QED
    BY <1>1, <1>2, <1>3, InHandSteps, Zenon

(***************************************************************************)
(* What a reader of the list meets.  Meets is the recursive function in    *)
(* Forward's definition and Suffix what it computes; Suffix shows that     *)
(* such a function exists, and an induction from the tail back that there  *)
(* is no other.                                                            *)
(***************************************************************************)
Meets == CHOOSE f : f = [i \in 0 .. Len(nodes) |->
                           IF i = 0 THEN <<>> ELSE <<nodes[i].data>> \o f[nodes[i].next]]

Suffix == [i \in 0 .. Len(nodes) |->
             IF i = 0 THEN <<>>
             ELSE IF capacity = 1 THEN <<accepted[i]>> ELSE SubSeq(accepted, i, Len(accepted))]

LEMMA SuffixEquation ==
  ASSUME InHand, Linked
  PROVE  Suffix = [i \in 0 .. Len(nodes) |->
                     IF i = 0 THEN <<>> ELSE <<nodes[i].data>> \o Suffix[nodes[i].next]]
  <1>0. accepted \in Seq(Nat) /\ Len(nodes) = Len(accepted) /\ Len(accepted) \in Nat /\ capacity \in Nat
    BY WalAssumption DEF InHand, Linked
  <1> SUFFICES ASSUME NEW i \in 1 .. Len(accepted)
               PROVE  Suffix[i] = <<nodes[i].data>> \o Suffix[nodes[i].next]
    <2>1. Suffix = [i \in 0 .. Len(nodes) |-> Suffix[i]] /\ Suffix[0] = <<>>
      <3>1. Suffix[0] = <<>>
        <4>1. 0 \in 0 .. Len(nodes)
          BY <1>0
        <4> QED
          BY <4>1, Zenon DEF Suffix
      <3>2. Suffix = [i \in 0 .. Len(nodes) |-> Suffix[i]]
        BY Zenon DEF Suffix
      <3> QED
        BY <3>1, <3>2, Zenon
    <2>2. \A i \in 0 .. Len(nodes) : i # 0 => i \in 1 .. Len(accepted)
      BY <1>0
    <2> QED
      BY <2>1, <2>2, Zenon
  <1>1. /\ nodes[i].data = accepted[i] /\ accepted[i] \in Nat
        /\ nodes[i].next = IF i < Len(accepted) /\ capacity # 1 THEN i + 1 ELSE 0
    BY <1>0, SMTT(30) DEF Linked
  <1>2. Suffix[0] = <<>> /\ <<accepted[i]>> \o <<>> = <<accepted[i]>>
    BY <1>0, <1>1, SMTT(30) DEF Suffix
  <1>3. CASE capacity = 1
    BY <1>0, <1>1, <1>2, <1>3, SMTT(30) DEF Suffix
  <1>4. CASE capacity # 1
    <2>1. Suffix[i] = SubSeq(accepted, i, Len(accepted))
      BY <1>0, <1>4 DEF Suffix
    <2>2. SubSeq(accepted, i, Len(accepted)) = <<accepted[i]>> \o SubSeq(accepted, i + 1, Len(accepted))
      BY <1>0, SubSeqRecursiveFirst, SMTT(30)
    <2>3. CASE i < Len(accepted)
      <3>1. Suffix[i + 1] = SubSeq(accepted, i + 1, Len(accepted))
        <4>1. i + 1 \in 0 .. Len(nodes) /\ i + 1 # 0
          BY <1>0, <2>3
        <4> QED
          BY <1>4, <4>1, Zenon DEF Suffix
      <3> QED
        BY <1>1, <1>4, <2>1, <2>2, <2>3, <3>1, Zenon
    <2>4. CASE i = Len(accepted)
      <3>1. SubSeq(accepted, i + 1, Len(accepted)) = <<>>
        BY <1>0, <2>4, SubSeqEmpty, SMTT(30)
      <3> QED
        BY <1>1, <1>2, <1>4, <2>1, <2>2, <2>4, <3>1, SMTT(30)
    <2> QED
      BY <1>0, <2>3, <2>4, SMTT(30)
  <1> QED
    BY <1>3, <1>4, Zenon

LEMMA MeetsSuffix == InHand /\ Linked => \A i \in 0 .. Len(nodes) : Meets[i] = Suffix[i]
  <1> SUFFICES ASSUME InHand, Linked PROVE \A i \in 0 .. Len(nodes) : Meets[i] = Suffix[i]
    BY Zenon
  <1> DEFINE n == Len(nodes)
             S == {d \in Nat : \A i \in 1 .. n : n - i <= d => Meets[i] = Suffix[i]}
  <1>0. n = Len(accepted) /\ n \in Nat /\ capacity \in Nat
        /\ \A i \in 1 .. n : nodes[i].next = IF i < n /\ capacity # 1 THEN i + 1 ELSE 0
    BY WalAssumption DEF InHand, Linked
  <1>1. Meets = [i \in 0 .. Len(nodes) |-> IF i = 0 THEN <<>> ELSE <<nodes[i].data>> \o Meets[nodes[i].next]]
    BY SuffixEquation, Zenon DEF Meets
  <1>2. Suffix = [i \in 0 .. Len(nodes) |-> IF i = 0 THEN <<>> ELSE <<nodes[i].data>> \o Suffix[nodes[i].next]]
    BY SuffixEquation, Zenon
  <1>3. Meets[0] = <<>> /\ Suffix[0] = <<>>
    BY <1>0, <1>1, <1>2, SMTT(30)
  <1>4. ASSUME NEW i \in 1 .. n, i < n /\ capacity # 1 => Meets[i + 1] = Suffix[i + 1]
        PROVE  Meets[i] = Suffix[i]
    <2>0. i \in 0 .. Len(nodes) /\ i # 0
      BY <1>0
    <2>1. Meets[i] = <<nodes[i].data>> \o Meets[nodes[i].next]
      BY <1>1, <2>0, Zenon
    <2>2. Suffix[i] = <<nodes[i].data>> \o Suffix[nodes[i].next]
      BY <1>2, <2>0, Zenon
    <2>3. Meets[nodes[i].next] = Suffix[nodes[i].next]
      BY <1>0, <1>3, <1>4, Zenon
    <2> QED
      BY <2>1, <2>2, <2>3, Zenon
  <1>5. 0 \in S
    BY <1>0, <1>4, SMTT(30)
  <1>6. ASSUME NEW d \in S PROVE d + 1 \in S
    <2> SUFFICES ASSUME NEW i \in 1 .. n, n - i <= d + 1 PROVE Meets[i] = Suffix[i]
      OBVIOUS
    <2>1. i < n => i + 1 \in 1 .. n /\ n - (i + 1) <= d
      BY <1>0
    <2>2. i < n => Meets[i + 1] = Suffix[i + 1]
      BY <2>1, Zenon
    <2> QED
      BY <1>4, <2>2, Zenon
  <1>7. S = Nat
    BY <1>5, <1>6, SetInduction, Zenon
  <1>8. \A i \in 1 .. n : n \in S /\ n - i <= n
    BY <1>0, <1>7, SMTT(30)
  <1>9. \A i \in 1 .. n : Meets[i] = Suffix[i]
    BY <1>8, Zenon
  <1> QED
    BY <1>0, <1>3, <1>9

LEMMA LinkedIsNewest == InHand /\ Linked => LogIsNewest
  <1> SUFFICES ASSUME InHand, Linked PROVE LogIsNewest
    BY Zenon
  <1> DEFINE n == Len(accepted)
  <1>0. /\ accepted \in Seq(Nat) /\ n \in Nat /\ Len(nodes) = n /\ capacity \in Nat
        /\ length = Kept(n) /\ head = IF n = 0 THEN 0 ELSE n - length + 1
    BY WalAssumption DEF InHand, Linked
  <1>1. List!Forward = Meets[head]
    BY Zenon DEF List!Forward, Meets
  <1>2. head \in 0 .. n /\ (n # 0 => head # 0)
    BY <1>0 DEF Kept
  <1>3. List!Forward = Suffix[head]
    BY <1>0, <1>1, <1>2, MeetsSuffix, Zenon
  <1>4. Suffix[head] = SubSeq(accepted, n - Kept(n) + 1, n)
    <2>1. CASE n = 0
      <3>1. Kept(n) = 0 /\ SubSeq(accepted, 1, 0) = <<>>
        BY <1>0, <2>1, SubSeqEmpty DEF Kept
      <3> QED
        BY <1>0, <2>1, <3>1 DEF Suffix
    <2>2. CASE n # 0 /\ capacity = 1
      <3>0. Kept(n) = 1
        BY <1>0, <2>2 DEF Kept
      <3>1. Kept(n) = 1 /\ head = n /\ n \in 1 .. n
        BY <1>0, <2>2, <3>0
      <3>2. SubSeq(accepted, n, n) = <<accepted[n]>> \o SubSeq(accepted, n + 1, n)
        BY <1>0, <3>1, SubSeqRecursiveFirst
      <3>3. SubSeq(accepted, n + 1, n) = <<>>
        BY <1>0, SubSeqEmpty
      <3>4. SubSeq(accepted, n, n) = <<accepted[n]>>
        <4>1. accepted[n] \in Nat
          BY <1>0, <3>1
        <4>2. <<accepted[n]>> \o <<>> = <<accepted[n]>>
          BY <4>1
        <4> QED
          BY <3>2, <3>3, <4>2, Zenon
      <3> QED
        BY <1>0, <2>2, <3>1, <3>4 DEF Suffix
    <2>3. CASE n # 0 /\ capacity # 1
      BY <1>0, <1>2, <2>3, Zenon DEF Suffix
    <2> QED
      BY <2>1, <2>2, <2>3, Zenon
  <1> QED
    BY <1>0, <1>3, <1>4, Zenon DEF LogIsNewest, Kept

(***************************************************************************)
(* From the log to the state machine.                                      *)
(***************************************************************************)
LEMMA FeedSteps ==
  ASSUME [DvNext]_dvVars
  PROVE  \/ UNCHANGED <<loop, accepted, cmdCh, executed, state, decoded>>
         \/ RunWal /\ UNCHANGED dv
         \/ WalLoop /\ UNCHANGED dv
         \/ LoopCommand
         \/ LoopSnapshot
  <1>1. CASE UNCHANGED dvVars
    BY <1>1, Zenon DEF dvVars, walVars, dv
  <1>2. CASE (Propose \/ CloseWalBegin \/ CloseWalEnd \/ ReaderNext \/ ReaderReturns) /\ UNCHANGED dv
    BY <1>2, Zenon DEF Propose, CloseWalBegin, CloseWalEnd, ReaderNext, ReaderReturns, walVars, dv
  <1>3. CASE SendSnapshot \/ CloseSnapshotLog \/ RunDvds \/ CloseDvdsBegin \/ CloseDvdsEnd \/ LoopEnd
    BY <1>3, Zenon DEF SendSnapshot, CloseSnapshotLog, RunDvds, CloseDvdsBegin, CloseDvdsEnd, LoopEnd, walVars
  <1> QED
    BY <1>1, <1>2, <1>3, Zenon DEF DvNext, WalNext, DvLoop

LEMMA NextPositive ==
  ASSUME IInv, \A i \in DOMAIN delivered : delivered[i] # nil, [DvNext]_dvVars
  PROVE  \A i \in DOMAIN delivered' : delivered'[i] # nil
  <1>1. CASE UNCHANGED delivered
    BY <1>1, Zenon
  <1>2. CASE ReaderNext
    <2>1. PICK r \in Readers : TakeToken(r) \/ ReadSlot(r)
      BY <1>2, Zenon DEF ReaderNext
    <2>2. \/ UNCHANGED delivered
          \/ delivered' = Append(delivered, buf[readIdx]) /\ buf[readIdx] # nil
      BY <2>1, Zenon DEF TakeToken, ReadSlot
    <2>3. CASE delivered' = Append(delivered, buf[readIdx]) /\ buf[readIdx] # nil
      <3>1. delivered \in Seq(Nat) /\ buf[readIdx] \in Nat
        BY Zenon DEF IInv, TypeOK
      <3>2. \A i \in DOMAIN delivered' : \/ i \in DOMAIN delivered /\ delivered'[i] = delivered[i]
                                        \/ delivered'[i] = buf[readIdx]
        BY <2>3, <3>1
      <3> QED
        BY <2>3, <3>2, Zenon
    <2> QED
      BY <1>1, <2>2, <2>3, Zenon
  <1>3. CASE LoopAccept \/ ReaderReturns
    BY <1>1, <1>3, Zenon DEF LoopAccept, ReaderReturns, vars
  <1> QED
    BY <1>1, <1>2, <1>3, InHandSteps, Zenon

\* Entries handled stay handled.
LEMMA StillHandled ==
  ASSUME InHand, Feed, [DvNext]_dvVars
  PROVE  \A p \in 1 .. Handled : p \in 1 .. Handled' /\ accepted'[p] = accepted[p]
  <1>0. accepted \in Seq(Nat) /\ Len(accepted) \in Nat /\ Handled \in Int /\ Handled <= Len(accepted)
    BY SMTT(30) DEF InHand, Handled
  <1>1. CASE UNCHANGED <<loop, accepted>>
    BY <1>1 DEF Handled
  <1>2. CASE RunWal \/ LoopList \/ LoopSend \/ LoopTerminate
    <2>1. accepted' = accepted
      BY <1>2, Zenon DEF RunWal, LoopList, LoopSend, LoopTerminate
    <2>2. loop' \in {"list", "send"} => loop \in {"list", "send"}
      BY <1>2, Zenon DEF RunWal, LoopList, LoopSend, LoopTerminate
    <2>3. Handled' \in Int /\ Handled <= Handled'
      BY <1>0, <2>1, <2>2 DEF Handled
    <2> QED
      BY <1>0, <2>1, <2>3
  <1>3. CASE LoopAccept
    <2>1. loop = "select" /\ loop' = "list" /\ accepted' = Append(accepted, delivered[Len(delivered)])
      BY <1>3, Zenon DEF LoopAccept
    <2>2. Len(accepted') = Len(accepted) + 1 /\ \A p \in 1 .. Len(accepted) : accepted'[p] = accepted[p]
      BY <1>0, <2>1
    <2>3. Handled = Len(accepted) /\ Handled' = Len(accepted)
      BY <1>0, <2>1, <2>2 DEF Handled
    <2> QED
      BY <2>2, <2>3, Zenon
  <1>4. LoopCommand \/ LoopSnapshot => UNCHANGED <<loop, accepted>>
    BY Zenon DEF LoopCommand, LoopSnapshot, walVars
  <1> QED
    BY <1>1, <1>2, <1>3, <1>4, FeedSteps, Zenon DEF WalLoop

LEMMA AcceptedIncreasing ==
  ASSUME IInv, InHand
  PROVE  \A p, q \in 1 .. Len(accepted) : p < q => accepted[p] < accepted[q]
  <1>1. delivered \in Seq(Nat) /\ Len(accepted) \in Nat /\ Len(delivered) >= Len(accepted)
    BY SMTT(30) DEF IInv, TypeOK, InHand
  <1>2. \A p \in 1 .. Len(accepted) : p \in DOMAIN delivered /\ accepted[p] = delivered[p]
    <2>1. \A p \in 1 .. Len(accepted) : p \in 1 .. Len(delivered)
      BY <1>1
    <2>2. DOMAIN delivered = 1 .. Len(delivered)
      BY <1>1
    <2> QED
      BY <2>1, <2>2, Zenon DEF InHand
  <1> QED
    BY <1>2 DEF IInv, InOrder

LEMMA AppendCases ==
  ASSUME NEW S, NEW s \in Seq(S), NEW v \in S
  PROVE  /\ Append(s, v) \in Seq(S)
         /\ \A i \in DOMAIN Append(s, v) : \/ i \in DOMAIN s /\ Append(s, v)[i] = s[i]
                                           \/ i = Len(s) + 1 /\ Append(s, v)[i] = v
  <1>1. Append(s, v) \in Seq(S) /\ Len(Append(s, v)) = Len(s) + 1 /\ Len(s) \in Nat
    BY SMTT(30)
  <1>2. DOMAIN Append(s, v) = 1 .. Len(s) + 1 /\ DOMAIN s = 1 .. Len(s)
    BY <1>1
  <1>3. \A i \in 1 .. Len(s) + 1 : i \in 1 .. Len(s) \/ i = Len(s) + 1
    BY <1>1
  <1>4. (\A i \in 1 .. Len(s) : Append(s, v)[i] = s[i]) /\ Append(s, v)[Len(s) + 1] = v
    OBVIOUS
  <1> QED
    BY <1>1, <1>2, <1>3, <1>4, Zenon

LEMMA TailCases ==
  ASSUME NEW S, NEW s \in Seq(S), s # <<>>
  PROVE  /\ Head(s) \in S /\ Head(s) = s[1] /\ 1 \in DOMAIN s /\ Tail(s) \in Seq(S)
         /\ \A i \in DOMAIN Tail(s) : /\ i \in Nat /\ i + 1 \in DOMAIN s /\ i + 1 > 1
                                      /\ Tail(s)[i] = s[i + 1]
  <1>1. /\ Head(s) \in S /\ Tail(s) \in Seq(S) /\ Len(Tail(s)) = Len(s) - 1
        /\ \A i \in 1 .. Len(Tail(s)) : Tail(s)[i] = s[i + 1]
    BY HeadTailProperties, Zenon
  <1>2. Len(s) \in Nat /\ Len(s) # 0 /\ DOMAIN s = 1 .. Len(s) /\ Head(s) = s[1]
    OBVIOUS
  <1>3. DOMAIN Tail(s) = 1 .. Len(s) - 1
    BY <1>1
  <1>4. 1 \in 1 .. Len(s) /\ \A i \in 1 .. Len(s) - 1 : i \in Nat /\ i + 1 \in 1 .. Len(s) /\ i + 1 > 1
    BY <1>2
  <1> QED
    BY <1>1, <1>2, <1>3, <1>4, Zenon

LEMMA OfHandledKept ==
  ASSUME NEW s, OfHandled(s),
         \A p \in 1 .. Handled : p \in 1 .. Handled' /\ accepted'[p] = accepted[p]
  PROVE  \A i \in DOMAIN s : \E p \in 1 .. Handled' : s[i] = accepted'[p]
  <1> SUFFICES ASSUME NEW i \in DOMAIN s PROVE \E p \in 1 .. Handled' : s[i] = accepted'[p]
    BY Zenon
  <1>1. PICK p \in 1 .. Handled : s[i] = accepted[p]
    BY Zenon DEF OfHandled
  <1>2. p \in 1 .. Handled' /\ s[i] = accepted'[p]
    BY <1>1, Zenon
  <1> QED
    BY <1>2, Zenon

\* A step that leaves the channel and the commands executed alone.
LEMMA FeedKept ==
  ASSUME IInv, InHand, Feed, [DvNext]_dvVars, UNCHANGED <<cmdCh, executed>>,
         loop' \in {"list", "send"} => accepted' # <<>>
  PROVE  Feed'
  <1>1. \A p \in 1 .. Handled : p \in 1 .. Handled' /\ accepted'[p] = accepted[p]
    BY StillHandled, Zenon
  <1>2. OfHandled(cmdCh)' /\ OfHandled(executed)'
    <2>1. OfHandled(cmdCh) /\ OfHandled(executed)
      BY Zenon DEF Feed
    <2>2. \A i \in DOMAIN cmdCh : \E p \in 1 .. Handled' : cmdCh[i] = accepted'[p]
      BY <1>1, <2>1, OfHandledKept, Zenon
    <2>3. \A i \in DOMAIN executed : \E p \in 1 .. Handled' : executed[i] = accepted'[p]
      BY <1>1, <2>1, OfHandledKept, Zenon
    <2> QED
      BY <2>2, <2>3, Zenon DEF OfHandled
  <1>3. \A i \in DOMAIN delivered' : delivered'[i] # nil
    BY NextPositive, Zenon DEF Feed
  <1>4. nil' = nil
    BY DEF nil
  <1> QED
    BY <1>2, <1>3, <1>4, Zenon DEF Feed, IsIncreasing

\* Dispatch sends the entry accepted last, newer than all before it.
LEMMA SendFeed ==
  ASSUME IInv, InHand, Feed, [DvNext]_dvVars, UNCHANGED executed,
         loop = "send", loop' = "select", accepted' = accepted,
         cmdCh' = Append(cmdCh, accepted[Len(accepted)])
  PROVE  Feed'
  <1> DEFINE n == Len(accepted)
             v == accepted[n]
  <1>0. accepted \in Seq(Nat) /\ n \in Nat \ {0} /\ v \in Nat /\ Handled = n - 1 /\ Handled' = n
    <2>1. accepted \in Seq(Nat) /\ accepted # <<>>
      BY Zenon DEF InHand, Feed
    <2>2. n \in Nat \ {0} /\ v \in Nat
      BY <2>1
    <2> QED
      BY <2>1, <2>2, Zenon DEF Handled
  <1>1. \A p \in 1 .. n - 1 : accepted[p] < v
    <2>1. n \in 1 .. n /\ \A p \in 1 .. n - 1 : p \in 1 .. n /\ p < n
      BY <1>0
    <2> QED
      BY <2>1, AcceptedIncreasing, Zenon
  <1>2. /\ \A i \in DOMAIN cmdCh : cmdCh[i] < v /\ \E p \in 1 .. n : cmdCh[i] = accepted[p]
        /\ \A i \in DOMAIN executed : executed[i] < v /\ \E p \in 1 .. n : executed[i] = accepted[p]
    <2>1. \A p \in 1 .. n - 1 : accepted[p] < v /\ p \in 1 .. n
      BY <1>0, <1>1, SMTT(30)
    <2>2. \A i \in DOMAIN cmdCh : \E p \in 1 .. n - 1 : cmdCh[i] = accepted[p]
      BY <1>0, Zenon DEF Feed, OfHandled
    <2>3. \A i \in DOMAIN executed : \E p \in 1 .. n - 1 : executed[i] = accepted[p]
      BY <1>0, Zenon DEF Feed, OfHandled
    <2> HIDE DEF n, v
    <2> QED
      BY <2>1, <2>2, <2>3, Zenon
  <1>3. /\ cmdCh \in Seq(Nat) /\ cmdCh' \in Seq(Nat)
        /\ \A i \in DOMAIN cmdCh' : \/ i \in DOMAIN cmdCh /\ cmdCh'[i] = cmdCh[i]
                                    \/ i = Len(cmdCh) + 1 /\ cmdCh'[i] = v
    <2>1. cmdCh \in Seq(Nat)
      BY Zenon DEF Feed
    <2> QED
      BY <1>0, <2>1, AppendCases, Zenon
  <1>4. OfHandled(cmdCh)'
    <2>1. \E p \in 1 .. n : v = accepted[p]
      BY <1>0
    <2>2. \A i \in DOMAIN cmdCh : \E p \in 1 .. n : cmdCh[i] = accepted[p]
      BY <1>2, Zenon
    <2>3. \A i \in DOMAIN cmdCh' : \E p \in 1 .. n : cmdCh'[i] = accepted[p]
      <3> HIDE DEF n, v
      <3> QED
        BY <1>3, <2>1, <2>2, ZenonT(30)
    <2> QED
      BY <1>0, <2>3, Zenon DEF OfHandled
  <1>5. OfHandled(executed)'
    BY <1>0, <1>2, Zenon DEF OfHandled
  <1>6. IsIncreasing(cmdCh)'
    <2> SUFFICES ASSUME NEW i \in DOMAIN cmdCh', NEW j \in DOMAIN cmdCh', i < j
                 PROVE  cmdCh'[i] < cmdCh'[j]
      BY Zenon DEF IsIncreasing
    <2>1. i \in DOMAIN cmdCh /\ cmdCh'[i] = cmdCh[i]
      BY <1>3, SMTT(30)
    <2>2. CASE j \in DOMAIN cmdCh /\ cmdCh'[j] = cmdCh[j]
      BY <2>1, <2>2, Zenon DEF Feed, IsIncreasing
    <2>3. CASE cmdCh'[j] = v
      BY <1>2, <2>1, <2>3, Zenon
    <2> QED
      BY <1>3, <2>2, <2>3, Zenon
  <1>7. \A i \in DOMAIN executed, j \in DOMAIN cmdCh' : executed[i] < cmdCh'[j]
    BY <1>2, <1>3, Zenon DEF Feed
  <1>8. \A i \in DOMAIN delivered' : delivered'[i] # nil
    BY NextPositive, Zenon DEF Feed
  <1>9. nil' = nil
    BY Zenon DEF nil
  <1> QED
    BY <1>3, <1>4, <1>5, <1>6, <1>7, <1>8, <1>9, Zenon DEF Feed, IsIncreasing

\* The event loop of the data structure takes the oldest command of the channel.
LEMMA CommandFeed ==
  ASSUME IInv, InHand, Feed, [DvNext]_dvVars, LoopCommand
  PROVE  Feed'
  <1> DEFINE v == Head(cmdCh)
  <1>0. /\ cmdCh \in Seq(Nat) /\ executed \in Seq(Nat) /\ cmdCh # <<>> /\ cmdCh' = Tail(cmdCh)
        /\ executed' = Append(executed, v) /\ UNCHANGED <<loop, accepted>>
    BY ZenonT(30) DEF Feed, LoopCommand
  <1>1. v \in Nat /\ v = cmdCh[1] /\ 1 \in DOMAIN cmdCh /\ cmdCh' \in Seq(Nat)
    BY <1>0, TailCases, Zenon
  <1>2. \A i \in DOMAIN cmdCh' : /\ i \in Nat /\ i + 1 \in DOMAIN cmdCh /\ i + 1 > 1
                                 /\ cmdCh'[i] = cmdCh[i + 1]
    BY <1>0, TailCases, Zenon
  <1>3. /\ executed' \in Seq(Nat)
        /\ \A i \in DOMAIN executed' : \/ i \in DOMAIN executed /\ executed'[i] = executed[i]
                                       \/ i = Len(executed) + 1 /\ executed'[i] = v
    BY <1>0, <1>1, AppendCases, Zenon
  <1>4. Handled' = Handled
    BY <1>0, Zenon DEF Handled
  <1>5. OfHandled(cmdCh)' /\ OfHandled(executed)'
    <2>1. \A i \in DOMAIN cmdCh : \E p \in 1 .. Handled : cmdCh[i] = accepted[p]
      BY Zenon DEF Feed, OfHandled
    <2>2. \A i \in DOMAIN executed : \E p \in 1 .. Handled : executed[i] = accepted[p]
      BY Zenon DEF Feed, OfHandled
    <2>3. \E p \in 1 .. Handled : v = accepted[p]
      BY <1>1, <2>1, Zenon
    <2> HIDE DEF v
    <2>4. \A i \in DOMAIN executed' : \E p \in 1 .. Handled : executed'[i] = accepted[p]
      BY <1>3, <2>2, <2>3, Zenon
    <2>5. \A i \in DOMAIN cmdCh' : \E p \in 1 .. Handled : cmdCh'[i] = accepted[p]
      BY <1>2, <2>1, ZenonT(30)
    <2> QED
      BY <1>0, <1>4, <2>4, <2>5, Zenon DEF OfHandled
  <1>6. IsIncreasing(cmdCh)'
    <2> SUFFICES ASSUME NEW i \in DOMAIN cmdCh', NEW j \in DOMAIN cmdCh', i < j
                 PROVE  cmdCh'[i] < cmdCh'[j]
      BY Zenon DEF IsIncreasing
    <2>1. i + 1 < j + 1
      BY <1>2
    <2> QED
      BY <1>2, <2>1, Zenon DEF Feed, IsIncreasing
  <1>7. IsIncreasing(executed)'
    <2> SUFFICES ASSUME NEW i \in DOMAIN executed', NEW j \in DOMAIN executed', i < j
                 PROVE  executed'[i] < executed'[j]
      BY Zenon DEF IsIncreasing
    <2>1. i \in DOMAIN executed /\ executed'[i] = executed[i]
      BY <1>0, <1>3, SMTT(30)
    <2>2. CASE j \in DOMAIN executed /\ executed'[j] = executed[j]
      BY <2>1, <2>2, Zenon DEF Feed, IsIncreasing
    <2>3. CASE executed'[j] = v
      BY <1>1, <2>1, <2>3, Zenon DEF Feed
    <2> QED
      BY <1>3, <2>2, <2>3, Zenon
  <1>8. \A i \in DOMAIN executed', j \in DOMAIN cmdCh' : executed'[i] < cmdCh'[j]
    <2>1. \A j \in DOMAIN cmdCh' : v < cmdCh'[j]
      BY <1>1, <1>2, Zenon DEF Feed, IsIncreasing
    <2> QED
      BY <1>2, <1>3, <2>1, Zenon DEF Feed
  <1>9. \A i \in DOMAIN delivered' : delivered'[i] # nil
    BY NextPositive, Zenon DEF Feed
  <1>10. nil' = nil
    BY DEF nil
  <1> QED
    BY <1>0, <1>1, <1>3, <1>5, <1>6, <1>7, <1>8, <1>9, <1>10, Zenon DEF Feed

LEMMA NextFeed == IInv /\ InHand /\ Feed /\ [DvNext]_dvVars => Feed'
  <1> SUFFICES ASSUME IInv, InHand, Feed, [DvNext]_dvVars PROVE Feed'
    BY Zenon
  <1>1. CASE UNCHANGED <<loop, accepted, cmdCh, executed>>
    <2>1. loop' \in {"list", "send"} => accepted' # <<>>
      BY <1>1, Zenon DEF Feed
    <2> QED
      BY <1>1, <2>1, FeedKept
  <1>2. CASE (RunWal \/ LoopTerminate \/ LoopList) /\ UNCHANGED dv
    <2>1. UNCHANGED <<cmdCh, executed, accepted>>
      BY <1>2, Zenon DEF RunWal, LoopTerminate, LoopList, dv
    <2>2. loop' \in {"list", "send"} => loop \in {"list", "send"}
      BY <1>2, Zenon DEF RunWal, LoopTerminate, LoopList
    <2>3. loop' \in {"list", "send"} => accepted' # <<>>
      BY <2>1, <2>2, Zenon DEF Feed
    <2> QED
      BY <2>1, <2>3, FeedKept, Zenon
  <1>3. CASE LoopAccept /\ UNCHANGED dv
    <2>1. UNCHANGED <<cmdCh, executed>> /\ accepted' = Append(accepted, delivered[Len(delivered)])
      BY <1>3, Zenon DEF LoopAccept, dv
    <2>2. accepted \in Seq(Nat)
      BY Zenon DEF InHand
    <2>3. Len(accepted') = Len(accepted) + 1 /\ Len(accepted) \in Nat /\ Len(<<>>) = 0
      BY <2>1, <2>2
    <2>4. accepted' # <<>>
      BY <2>3
    <2> QED
      BY <2>1, <2>4, FeedKept, Zenon
  <1>4. CASE LoopSend /\ UNCHANGED dv
    <2>1. loop = "send" /\ loop' = "select" /\ UNCHANGED <<accepted, executed>>
      BY <1>4, Zenon DEF LoopSend, dv
    <2>2. CASE cmdCh' = Append(cmdCh, accepted[Len(accepted)])
      BY <2>1, <2>2, SendFeed, Zenon
    <2>3. CASE UNCHANGED cmdCh
      <3>1. ~(loop' \in {"list", "send"})
        BY <2>1, Zenon
      <3> QED
        BY <2>1, <2>3, <3>1, FeedKept, Zenon
    <2> QED
      BY <1>4, <2>2, <2>3, Zenon DEF LoopSend
  <1>5. CASE LoopCommand
    BY <1>5, CommandFeed, Zenon
  <1>6. LoopSnapshot => UNCHANGED <<loop, accepted, cmdCh, executed>>
    BY Zenon DEF LoopSnapshot, walVars
  <1> QED
    BY <1>1, <1>2, <1>3, <1>4, <1>5, <1>6, FeedSteps, Zenon DEF WalLoop

LEMMA AcceptedPositive ==
  ASSUME IInv, InHand, Feed
  PROVE  /\ \A p \in 1 .. Handled : p \in 1 .. Len(accepted)
         /\ \A p \in 1 .. Len(accepted) : accepted[p] \in Nat \ {0}
  <1>1. /\ Len(accepted) \in Nat /\ delivered \in Seq(Nat) /\ Len(delivered) >= Len(accepted)
        /\ accepted \in Seq(Nat)
    BY SMTT(30) DEF InHand, IInv, TypeOK
  <1>2. ASSUME NEW p \in 1 .. Len(accepted) PROVE accepted[p] \in Nat \ {0}
    <2>1. p \in DOMAIN delivered /\ accepted[p] \in Nat /\ accepted[p] = delivered[p]
      BY <1>1, SMTT(30) DEF InHand
    <2>2. delivered[p] # 0
      BY <2>1, Zenon DEF Feed, nil
    <2> QED
      BY <2>1, <2>2
  <1>3. \A p \in 1 .. Handled : p \in 1 .. Len(accepted)
    BY <1>1 DEF Handled
  <1> QED
    BY <1>2, <1>3

\* Execute of an entry, which is not nil, stores it under its key.
LEMMA ExecuteOverlays ==
  ASSUME NEW st, NEW v \in Nat \ {0}
  PROVE  Execute(st, v) = Overlay([j \in {KeyOf(v)} |-> v], st)
  <1> DEFINE obj == [k |-> KeyOf(v), v |-> v]
  <1>1. obj.v = v /\ obj.k = KeyOf(v)
    BY Zenon
  <1>2. hashmapExecute(st, "put", obj) = Done(Overlay([j \in {KeyOf(v)} |-> v], st))
    <2> HIDE DEF obj
    <2> QED
      BY <1>1 DEF hashmapExecute
  <1>3. \A x : Done(x).state = x
    BY Zenon DEF Done
  <1> QED
    BY <1>2, <1>3, Zenon DEF Execute

LEMMA ExecutePuts ==
  ASSUME NEW st, NEW v \in Nat \ {0}
  PROVE  Execute(st, v) = [j \in {KeyOf(v)} \cup DOMAIN st |-> IF j = KeyOf(v) THEN v ELSE st[j]]
  <1> DEFINE new == [j \in {KeyOf(v)} |-> v]
  <1>1. Execute(st, v) = Overlay(new, st)
    BY ExecuteOverlays, Zenon
  <1>2. DOMAIN new = {KeyOf(v)} /\ new[KeyOf(v)] = v
    BY Zenon
  <1> QED
    BY <1>1, <1>2, Zenon DEF Overlay

LEMMA NextHolds == IInv /\ InHand /\ Feed /\ Holds /\ [DvNext]_dvVars => Holds'
  <1> SUFFICES ASSUME IInv, InHand, Feed, Holds, [DvNext]_dvVars PROVE Holds'
    BY Zenon
  <1>1. CASE UNCHANGED <<executed, state, decoded>>
    BY <1>1, Zenon DEF Holds, KeyOf
  <1>2. CASE LoopSnapshot
    BY <1>2, Zenon DEF LoopSnapshot, Holds
  <1>3. CASE LoopCommand
    <2> DEFINE v == Head(cmdCh)
    <2>0. /\ cmdCh \in Seq(Nat) /\ executed \in Seq(Nat) /\ cmdCh # <<>>
          /\ executed' = Append(executed, v) /\ state' = Execute(state, v) /\ decoded' = decoded
      BY <1>3, Zenon DEF Feed, LoopCommand
    <2>1. v \in Nat /\ v = cmdCh[1] /\ 1 \in DOMAIN cmdCh
      BY <2>0, TailCases, Zenon
    <2>2. v # 0
      <3>1. PICK p \in 1 .. Handled : v = accepted[p]
        BY <2>1, SMTT(30) DEF Feed, OfHandled
      <3> QED
        BY <3>1, AcceptedPositive, Zenon
    <2>3. \A i \in DOMAIN executed : executed[i] \in Nat /\ executed[i] < v
      BY <2>0, <2>1, SMTT(30) DEF Feed
    <2>4. /\ \A i \in DOMAIN executed' : \/ i \in DOMAIN executed /\ executed'[i] = executed[i]
                                         \/ i = Len(executed) + 1 /\ executed'[i] = v
          /\ Len(executed) + 1 \in DOMAIN executed' /\ executed'[Len(executed) + 1] = v
          /\ \A i \in DOMAIN executed : i \in DOMAIN executed' /\ executed'[i] = executed[i]
      BY <2>0, <2>1, SMTT(30)
    <2> HIDE DEF v
    <2>5. state' = [j \in {KeyOf(v)} \cup DOMAIN state |-> IF j = KeyOf(v) THEN v ELSE state[j]]
      <3>1. v \in Nat \ {0}
        BY <2>1, <2>2, Zenon
      <3> QED
        BY <2>0, <3>1, ExecutePuts, Zenon
    <2> SUFFICES ASSUME ~decoded
                 PROVE  /\ DOMAIN state' = {KeyOf(executed'[i]) : i \in DOMAIN executed'}
                        /\ \A i \in DOMAIN executed' : executed'[i] <= state'[KeyOf(executed'[i])]
      BY <2>0, Zenon DEF Holds, KeyOf
    <2>6. /\ DOMAIN state = {KeyOf(executed[i]) : i \in DOMAIN executed}
          /\ \A i \in DOMAIN executed : executed[i] <= state[KeyOf(executed[i])]
      BY Zenon DEF Holds
    <2>7. {KeyOf(executed'[i]) : i \in DOMAIN executed'} = {KeyOf(v)} \cup {KeyOf(executed[i]) : i \in DOMAIN executed}
      BY <2>4, Zenon
    <2>8. DOMAIN state' = {KeyOf(v)} \cup DOMAIN state
      BY <2>5, Zenon
    <2>9. ASSUME NEW i \in DOMAIN executed' PROVE executed'[i] <= state'[KeyOf(executed'[i])]
      <3>1. CASE executed'[i] = v
        <4>1. state'[KeyOf(v)] = v
          BY <2>5, Zenon
        <4> QED
          BY <2>1, <3>1, <4>1, SMTT(30)
      <3>2. CASE i \in DOMAIN executed /\ executed'[i] = executed[i]
        <4>1. KeyOf(executed[i]) \in DOMAIN state
          BY <2>6, <3>2, Zenon
        <4>2. CASE KeyOf(executed[i]) = KeyOf(v)
          <5>1. state'[KeyOf(executed[i])] = v
            BY <2>5, <4>2, Zenon
          <5> QED
            BY <2>1, <2>3, <3>2, <5>1, SMTT(30)
        <4>3. CASE KeyOf(executed[i]) # KeyOf(v)
          <5>1. state'[KeyOf(executed[i])] = state[KeyOf(executed[i])]
            BY <2>5, <4>1, <4>3, Zenon
          <5> QED
            BY <2>6, <3>2, <5>1, Zenon
        <4> QED
          BY <4>2, <4>3, Zenon
      <3> QED
        BY <2>4, <3>1, <3>2, Zenon
    <2> QED
      BY <2>6, <2>7, <2>8, <2>9, Zenon
  <1>4. (RunWal \/ WalLoop) /\ UNCHANGED dv => UNCHANGED <<executed, state, decoded>>
    BY Zenon DEF dv
  <1> QED
    BY <1>1, <1>2, <1>3, <1>4, FeedSteps, Zenon

LEMMA NextDvInv == IInv /\ DvInv /\ [DvNext]_dvVars => DvInv'
  BY NextInHand, NextLinked, NextFeed, NextHolds, Zenon DEF DvInv

(* The layout of the ring buffer and of the list, the entry in the         *)
(* reader's hand and the order of the commands hold in every state of the  *)
(* data structure.                                                         *)
THEOREM DvInvInvariant == DvSpec => [](IInv /\ DvInv)
  <1>1. DvSpec => []IInv
    BY RingInDvds, IInvInvariant, PTL
  <1>2. DvSpec => DvInit /\ [][DvNext]_dvVars
    BY Zenon DEF DvSpec
  <1> QED
    BY <1>1, <1>2, InitDvInv, NextDvInv, PTL

(* Whatever was evicted, walking the write-ahead log from its head meets   *)
(* the newest accepted entries, as many as the capacity allows, in order.  *)
THEOREM LogStaysNewest == DvSpec => []LogIsNewest
  <1>1. DvInv => LogIsNewest
    BY LinkedIsNewest, Zenon DEF DvInv
  <1> QED
    BY <1>1, DvInvInvariant, PTL

(* What the reader goroutine took from the ring buffer is what the log     *)
(* accepted, up to one entry in its hand or dropped at termination.        *)
THEOREM OnlyInHandLost == DvSpec => []NothingLostInHand
  <1>1. IInv /\ DvInv => NothingLostInHand
    <2> SUFFICES ASSUME IInv, InHand PROVE NothingLostInHand
      BY Zenon DEF DvInv
    <2>1. /\ accepted \in Seq(Nat) /\ delivered \in Seq(Nat) /\ Len(accepted) \in 0 .. Len(delivered)
          /\ Len(delivered) - Len(accepted) = (IF reader \in {"offering", "returned"} THEN 1 ELSE 0)
          /\ \A i \in 1 .. Len(accepted) : accepted[i] = delivered[i]
      BY SMTT(30) DEF IInv, TypeOK, InHand
    <2>2. accepted = SubSeq(delivered, 1, Len(accepted))
      BY <2>1
    <2> QED
      BY <2>1, <2>2, Zenon DEF NothingLostInHand
  <1> QED
    BY <1>1, DvInvInvariant, PTL

(* Until a snapshot is applied, the state machine holds exactly the keys   *)
(* of the commands executed, and under each nothing older than the newest. *)
THEOREM NewestAlwaysWins == DvSpec => []NewestWins
  <1>1. DvInv => NewestWins
    <2> SUFFICES ASSUME Holds, ~decoded, NEW k \in Keys
                 PROVE  LET mine == {v \in {executed[i] : i \in DOMAIN executed} : KeyOf(v) = k}
                        IN /\ k \in DOMAIN state <=> mine # {}
                           /\ \A v \in mine : v <= state[k]
      BY Zenon DEF DvInv, NewestWins
    <2>1. /\ DOMAIN state = {KeyOf(executed[i]) : i \in DOMAIN executed}
          /\ \A i \in DOMAIN executed : executed[i] <= state[KeyOf(executed[i])]
      BY Zenon DEF Holds
    <2> QED
      BY <2>1, Zenon
  <1> QED
    BY <1>1, DvInvInvariant, PTL

(* Commands reach the state machine in the order of the proposals and at   *)
(* most once each, and each was accepted by the log.                       *)
ExecutedOnceInOrder ==
    /\ IsIncreasing(executed)
    /\ \A i \in DOMAIN executed : \E p \in DOMAIN accepted : executed[i] = accepted[p]

(* The dispatch to the state machine may drop a command, but never         *)
(* repeats, reorders or invents one.                                       *)
THEOREM CommandsInOrder == DvSpec => []ExecutedOnceInOrder
  <1>1. DvInv => ExecutedOnceInOrder
    <2> SUFFICES ASSUME InHand, Feed PROVE ExecutedOnceInOrder
      BY Zenon DEF DvInv
    <2>1. \A p \in 1 .. Handled : p \in DOMAIN accepted
      BY DEF InHand, Handled
    <2>2. \A i \in DOMAIN executed : \E p \in 1 .. Handled : executed[i] = accepted[p]
      BY Zenon DEF Feed, OfHandled
    <2> QED
      BY <2>1, <2>2, Zenon DEF Feed, ExecutedOnceInOrder
  <1> QED
    BY <1>1, DvInvInvariant, PTL
=============================================================================
