------------------------------ MODULE RltProofs ------------------------------
(***************************************************************************)
(* Proofs about the lookup tables, for every length of the table, every    *)
(* number of backends that does not exceed it and all coordinates: quotas  *)
(* are charged for exactly the slots that were given out, and the shares   *)
(* are kept.                                                               *)
(*                                                                         *)
(* The argument.  The shares of a table that is done follow from what its  *)
(* loop has given out so far: equal numbers of turns (FillInv), one slot   *)
(* each and then a quota or a number of rounds (SeedInv, WalkInv), or the  *)
(* slots up to t in stripes (StripeInv).  Remainders modulo 2^32 are       *)
(* handled by lemmas about remainders and quotients, numbers of slots by   *)
(* the theorems about finite sets, and the rounds of RobustFib by the      *)
(* values of the recursive function Reached.                               *)
(***************************************************************************)
EXTENDS Rlt, WellFoundedInduction, FiniteSetTheorems, TLAPS

(***************************************************************************)
(* Remainders and quotients.                                               *)
(***************************************************************************)
LEMMA DivMod ==
  \A a \in Int, W \in Nat \ {0} : a % W \in 0 .. W - 1 /\ \E q \in Int : a = (W * q) + (a % W)
  <1> SUFFICES ASSUME NEW a \in Int, NEW W \in Nat \ {0}
               PROVE a % W \in 0 .. W - 1 /\ \E q \in Int : a = (W * q) + (a % W)
    BY Zenon
  <1>1. a % W \in 0 .. W - 1
    OBVIOUS
  <1>2. (a \div W) \in Int /\ a = (W * (a \div W)) + (a % W)
    OBVIOUS
  <1>3. QED
    BY <1>1, <1>2, Zenon

LEMMA NoMultiple == \A W \in Nat \ {0}, c \in Int : (-W < W * c /\ W * c < W) => c = 0
  <1> SUFFICES ASSUME NEW W \in Nat \ {0}, NEW c \in Int, -W < W * c, W * c < W PROVE c = 0
    OBVIOUS
  <1>1. CASE c >= 1
    <2>1. W * c = W + W * (c - 1) /\ W * (c - 1) >= 0
      BY <1>1
    <2>2. QED
      BY <2>1
  <1>2. CASE c <= -1
    <2>1. W * c = -W - W * (-1 - c) /\ W * (-1 - c) >= 0
      BY <1>2
    <2>2. QED
      BY <2>1
  <1>3. QED
    BY <1>1, <1>2

\* The remainder is the only number of its range that differs by a multiple.
LEMMA Remainder ==
  \A W \in Nat \ {0}, a \in Int, q \in Int : \A r \in 0 .. W - 1 : a = (W * q) + r => a % W = r
  <1> SUFFICES ASSUME NEW W \in Nat \ {0}, NEW a \in Int, NEW q \in Int, NEW r \in 0 .. W - 1,
                      a = (W * q) + r
               PROVE a % W = r
    OBVIOUS
  <1>1. PICK p \in Int : a = (W * p) + (a % W)
    BY DivMod, Zenon
  <1>2. a % W \in 0 .. W - 1
    BY DivMod
  <1>3. W * (q - p) = (W * q) - (W * p)
    OBVIOUS
  <1>4. W * q \in Int /\ W * p \in Int
    OBVIOUS
  <1>5. W * (q - p) = (a % W) - r
    BY <1>1, <1>2, <1>3, <1>4
  <1>6. q - p = 0
    BY <1>2, <1>5, NoMultiple
  <1> QED
    BY <1>2, <1>5, <1>6

LEMMA SmallRemainder == \A W \in Nat \ {0} : \A r \in 0 .. W - 1 : r % W = r
  <1> SUFFICES ASSUME NEW W \in Nat \ {0}, NEW r \in 0 .. W - 1 PROVE r % W = r
    OBVIOUS
  <1>1. r = (W * 0) + r
    OBVIOUS
  <1> QED
    BY <1>1, Remainder

\* What is taken from one term and added to another leaves the remainder of the sum.
LEMMA RemainderShift ==
  \A W \in Nat \ {0} : \A a, h, p \in Int : (((a - h) % W) + (p + h)) % W = (a + p) % W
  <1> SUFFICES ASSUME NEW W \in Nat \ {0}, NEW a \in Int, NEW h \in Int, NEW p \in Int
               PROVE (((a - h) % W) + (p + h)) % W = (a + p) % W
    BY Zenon
  <1> DEFINE x == (a - h) % W
             y == (a + p) % W
  <1>1. PICK q \in Int : a - h = (W * q) + x
    BY DivMod, a - h \in Int, Zenon
  <1>2. PICK r \in Int : a + p = (W * r) + y
    BY DivMod, a + p \in Int, Zenon
  <1>3. x \in Int /\ y \in 0 .. W - 1
    BY DivMod
  <1>4. W * (r - q) = (W * r) - (W * q) /\ W * r \in Int /\ W * q \in Int
    OBVIOUS
  <1> HIDE DEF x, y
  <1>5. x + (p + h) = (W * (r - q)) + y
    BY <1>1, <1>2, <1>3, <1>4
  <1>6. r - q \in Int /\ x + (p + h) \in Int
    BY <1>3
  <1>7. (x + (p + h)) % W = y
    BY <1>3, <1>5, <1>6, Remainder, Zenon
  <1> QED
    BY <1>7 DEF x, y

\* The remainder of the successor.
LEMMA RemainderSucc ==
  \A W \in Nat \ {0} : \A a \in Int : (a % W) + 1 < W => (a + 1) % W = (a % W) + 1
  <1> SUFFICES ASSUME NEW W \in Nat \ {0}, NEW a \in Int, (a % W) + 1 < W
               PROVE (a + 1) % W = (a % W) + 1
    BY Zenon
  <1> DEFINE x == a % W
  <1>1. PICK q \in Int : a = (W * q) + x
    BY DivMod, Zenon
  <1>2. x \in 0 .. W - 1 /\ x + 1 \in 0 .. W - 1
    BY DivMod
  <1>3. W * q \in Int
    OBVIOUS
  <1> HIDE DEF x
  <1>4. a + 1 = (W * q) + (x + 1) /\ a + 1 \in Int
    BY <1>1, <1>2, <1>3
  <1>5. (a + 1) % W = x + 1
    BY <1>2, <1>4, Remainder, Zenon
  <1> QED
    BY <1>5 DEF x

\* Quotients are ordered as the dividends are.
LEMMA Quotient ==
  \A c \in Nat \ {0} : \A a, q \in Int : \A r \in 0 .. c - 1 : a = (c * q) + r => a \div c = q
  <1> SUFFICES ASSUME NEW c \in Nat \ {0}, NEW a \in Int, NEW q \in Int, NEW r \in 0 .. c - 1,
                      a = (c * q) + r
               PROVE a \div c = q
    BY Zenon
  <1> DEFINE p == a \div c
  <1>1. p \in Int /\ a = (c * p) + (a % c) /\ a % c \in 0 .. c - 1
    OBVIOUS
  <1>2. c * (q - p) = (c * q) - (c * p) /\ c * q \in Int /\ c * p \in Int
    BY <1>1
  <1> HIDE DEF p
  <1>3. c * (q - p) = (a % c) - r
    BY <1>1, <1>2
  <1>4. q - p = 0
    BY <1>1, <1>3, NoMultiple
  <1> QED
    BY <1>1, <1>4 DEF p

LEMMA Quotients ==
  \A c \in Nat \ {0} : \A a \in Nat :
     /\ a \div c \in Nat /\ a % c \in 0 .. c - 1 /\ a = (c * (a \div c)) + (a % c)
     /\ (a % c) + 1 < c => (a + 1) % c = (a % c) + 1 /\ (a + 1) \div c = a \div c
     /\ (a % c) + 1 = c => (a + 1) % c = 0 /\ (a + 1) \div c = (a \div c) + 1
  <1> SUFFICES ASSUME NEW c \in Nat \ {0}, NEW a \in Nat
               PROVE /\ a \div c \in Nat /\ a % c \in 0 .. c - 1 /\ a = (c * (a \div c)) + (a % c)
                     /\ (a % c) + 1 < c => (a + 1) % c = (a % c) + 1 /\ (a + 1) \div c = a \div c
                     /\ (a % c) + 1 = c => (a + 1) % c = 0 /\ (a + 1) \div c = (a \div c) + 1
    BY Zenon
  <1> DEFINE q == a \div c
             r == a % c
  <1>1. q \in Int /\ a = (c * q) + r /\ r \in 0 .. c - 1 /\ c * q \in Int
    OBVIOUS
  <1>2. q >= 0
    <2> SUFFICES ASSUME q <= -1 PROVE FALSE
      BY <1>1
    <2>1. c * q = -c - c * (-1 - q) /\ c * (-1 - q) >= 0
      BY <1>1
    <2> QED
      BY <1>1, <2>1
  <1> HIDE DEF q, r
  <1>3. ASSUME r + 1 < c PROVE (a + 1) % c = r + 1 /\ (a + 1) \div c = q
    <2>1. a + 1 = (c * q) + (r + 1) /\ a + 1 \in Int /\ r + 1 \in 0 .. c - 1
      BY <1>1, <1>3
    <2> QED
      BY <1>1, <2>1, Remainder, Quotient, Zenon
  <1>4. ASSUME r + 1 = c PROVE (a + 1) % c = 0 /\ (a + 1) \div c = q + 1
    <2>1. c * (q + 1) = (c * q) + c
      BY <1>1
    <2>2. a + 1 = (c * (q + 1)) + 0 /\ a + 1 \in Int /\ 0 \in 0 .. c - 1 /\ q + 1 \in Int
      BY <1>1, <1>4, <2>1
    <2> QED
      BY <2>2, Remainder, Quotient, Zenon
  <1> QED
    BY <1>1, <1>2, <1>3, <1>4 DEF q, r

LEMMA QuotientOrder ==
  \A c \in Nat \ {0} : \A a, b \in Nat : a <= b => a \div c <= b \div c
  <1> SUFFICES ASSUME NEW c \in Nat \ {0}, NEW a \in Nat, NEW b \in Nat, a <= b
               PROVE a \div c <= b \div c
    BY Zenon
  <1> DEFINE p == a \div c
             q == b \div c
             r == a % c
             s == b % c
  <1>1. /\ p \in Nat /\ r \in 0 .. c - 1 /\ a = (c * p) + r
        /\ q \in Nat /\ s \in 0 .. c - 1 /\ b = (c * q) + s
    BY Quotients, Zenon
  <1> HIDE DEF p, q, r, s
  <1>2. SUFFICES ASSUME p - q >= 1 PROVE FALSE
    BY <1>1 DEF p, q
  <1>3. c * p = (c * q) + c + c * (p - q - 1) /\ c * (p - q - 1) >= 0
    BY <1>1, <1>2
  <1>4. c * p \in Int /\ c * q \in Int
    BY <1>1
  <1> QED
    BY <1>1, <1>3, <1>4

\* The share of a backend is at least one slot.
LEMMA ShareBounds == \A c \in Nat \ {0} : \A a \in Nat : c <= a => a \div c \in 1 .. a
  <1> SUFFICES ASSUME NEW c \in Nat \ {0}, NEW a \in Nat, c <= a PROVE a \div c \in 1 .. a
    BY Zenon
  <1> DEFINE q == a \div c
             r == a % c
  <1>1. q \in Nat /\ r \in 0 .. c - 1 /\ a = (c * q) + r
    BY Quotients, Zenon
  <1> HIDE DEF q, r
  <1>2. q >= 1
    <2> SUFFICES ASSUME q = 0 PROVE FALSE
      BY <1>1
    <2> QED
      BY <1>1
  <1>3. c * q = q + (c - 1) * q /\ (c - 1) * q >= 0
    BY <1>1
  <1> QED
    BY <1>1, <1>2, <1>3 DEF q

LEMMA NatLeast == \A T \in SUBSET Nat : T # {} => \E x \in T : \A y \in T : x <= y
  <1> SUFFICES ASSUME NEW T \in SUBSET Nat, T # {}
               PROVE \E x \in T : \A y \in T : x <= y
    OBVIOUS
  <1>1. \E x \in T : \A y \in T : ~(<<y, x>> \in OpToRel(<, Nat))
    BY NatLessThanWellFounded, WFMin, Zenon
  <1>2. PICK x \in T : \A y \in T : ~(<<y, x>> \in OpToRel(<, Nat))
    BY <1>1, Zenon
  <1>3. OpToRel(<, Nat) = {ss \in Nat \X Nat : ss[1] < ss[2]}
    BY Zenon DEF OpToRel
  <1>4. ASSUME NEW y \in T PROVE x <= y
    <2>1. ~(<<y, x>> \in {ss \in Nat \X Nat : ss[1] < ss[2]})
      BY <1>2, <1>3, Zenon
    <2>2. QED
      BY <2>1
  <1> QED
    BY <1>4

LEMMA LeastOf == \A T \in SUBSET Nat : T # {} => Min(T) \in T /\ \A y \in T : Min(T) <= y
  BY NatLeast, Zenon DEF Min

\* The slots that a table has given to a backend.
PlacedIn(free, table, b) == {s \in Slots \ free : table[s] = b}

\* One table after another, with slots given to backend a.
Gives(table, after, hits, a) == \A s \in Slots : after[s] = IF s \in hits THEN a ELSE table[s]

LEMMA SlotsFinite ==
  /\ IsFiniteSet(Slots) /\ Cardinality(Slots) = m
  /\ \A T \in SUBSET Slots : IsFiniteSet(T) /\ Cardinality(T) \in 0 .. m
  <1>1. IsFiniteSet(Slots) /\ Cardinality(Slots) = m
    <2>1. 0 \in Int /\ m - 1 \in Int /\ ~(0 > m - 1) /\ m - 1 - 0 + 1 = m
      BY RltAssumption
    <2> QED
      BY <2>1, FS_Interval, Zenon DEF Slots
  <1>2. ASSUME NEW T \in SUBSET Slots PROVE IsFiniteSet(T) /\ Cardinality(T) \in 0 .. m
    <2>1. IsFiniteSet(T) /\ Cardinality(T) <= m
      BY <1>1, FS_Subset, Zenon
    <2>2. Cardinality(T) \in Nat
      BY <2>1, FS_CardinalityType, Zenon
    <2> QED
      BY <2>1, <2>2, RltAssumption
  <1> QED
    BY <1>1, <1>2, Zenon

\* A backend takes free slots: it has them all, and the others have what they had.
Taken(free, table, after, hits, a) ==
  /\ PlacedIn(free \ hits, after, a) = PlacedIn(free, table, a) \cup hits
  /\ Cardinality(PlacedIn(free \ hits, after, a))
       = Cardinality(PlacedIn(free, table, a)) + Cardinality(hits)
  /\ \A b : b # a => PlacedIn(free \ hits, after, b) = PlacedIn(free, table, b)

LEMMA TakenSlots ==
  \A free \in SUBSET Slots : \A hits \in SUBSET free : \A table, after, a :
     Gives(table, after, hits, a) => Taken(free, table, after, hits, a)
  <1> SUFFICES ASSUME NEW free \in SUBSET Slots, NEW hits \in SUBSET free, NEW table, NEW after, NEW a,
                      Gives(table, after, hits, a)
               PROVE Taken(free, table, after, hits, a)
    BY Zenon
  <1> DEFINE P == PlacedIn(free, table, a)
  <1>1. PlacedIn(free \ hits, after, a) = P \cup hits
    BY DEF PlacedIn, Gives
  <1>2. P \in SUBSET Slots /\ hits \in SUBSET Slots /\ P \cap hits = {}
    BY DEF PlacedIn
  <1>3. \A b : b # a => PlacedIn(free \ hits, after, b) = PlacedIn(free, table, b)
    BY DEF PlacedIn, Gives
  <1> HIDE DEF P
  <1>4. /\ IsFiniteSet(P) /\ IsFiniteSet(hits)
        /\ Cardinality(P) \in 0 .. m /\ Cardinality(hits) \in 0 .. m
    BY <1>2, SlotsFinite, Zenon
  <1>5. Cardinality(P \cup hits) = Cardinality(P) + Cardinality(hits) - Cardinality({})
    BY <1>2, <1>4, FS_Union
  <1>6. Cardinality(P \cup hits) = Cardinality(P) + Cardinality(hits)
    BY <1>4, <1>5, FS_EmptySet, RltAssumption
  <1> QED
    BY <1>1, <1>3, <1>6, Zenon DEF P, Taken

LEMMA SlotRemainder == \A a \in Int : a % m \in Slots
  BY DivMod, RltAssumption, Zenon DEF Slots

\* A backend that walks on from any slot comes to a free one.
LEMMA FreeSlot ==
  \A free \in SUBSET Slots : free # {} =>
     \A s \in Slots : (s + Min({d \in 1 .. m : (s + d) % m \in free})) % m \in free
  <1> SUFFICES ASSUME NEW free \in SUBSET Slots, NEW u \in free, NEW s \in Slots
               PROVE (s + Min({d \in 1 .. m : (s + d) % m \in free})) % m \in free
    BY Zenon
  <1> DEFINE D == {d \in 1 .. m : (s + d) % m \in free}
  <1>1. D # {}
    <2>1. u \in 0 .. m - 1 /\ s \in 0 .. m - 1
      BY Zenon DEF Slots
    <2>2. CASE u > s
      <3>1. u - s \in 1 .. m /\ s + (u - s) = u
        BY <2>1, <2>2, RltAssumption
      <3>2. u % m = u
        BY <2>1, SmallRemainder, RltAssumption
      <3>3. u - s \in D
        BY <3>1, <3>2
      <3> QED
        BY <3>3
    <2>3. CASE ~(u > s)
      <3>1. u + m - s \in 1 .. m /\ s + (u + m - s) = u + m /\ u + m \in Int /\ u + m = (m * 1) + u
        BY <2>1, <2>3, RltAssumption
      <3>2. (u + m) % m = u
        BY <2>1, <3>1, Remainder, RltAssumption
      <3>3. u + m - s \in D
        BY <3>1, <3>2
      <3> QED
        BY <3>3
    <2> QED
      BY <2>2, <2>3
  <1>2. D \in SUBSET Nat
    BY RltAssumption
  <1>3. Min(D) \in D
    BY <1>1, <1>2, LeastOf, Zenon
  <1> QED
    BY <1>3, ZenonT(30)

Backends == 0 .. n - 1

\* The slot a robust algorithm starts a backend at.
Home(b) == coord[b][0] % m

\* What a backend has had.
Had(b) == Cardinality(Placed(b)) + Lost(b)

Types ==
    /\ alg \in {"ReverseCoordinates", "RobustFib", "RobustSimple", "NaiveFib", "Simple"}
    /\ n \in 1 .. MaxBackends
    /\ coord \in [Backends -> [0 .. nCoordinates - 1 -> Coordinates]]
    /\ pc \in IF alg = "ReverseCoordinates" THEN {"place", "fill", "done"}
              ELSE IF Robust THEN {"seed", "walk", "deal", "done"} ELSE {"stripe", "done"}
    /\ i \in 0 .. n
    /\ pc \in {"place", "seed", "walk", "stripe"} => i < n
    /\ j \in Nat /\ k \in Nat
    /\ M \in [Backends -> Slots]
    /\ unset \subseteq Slots
    /\ out \in [Slots -> Backends]
    /\ distribution \in [Backends -> Nat]

FillInv ==
    alg = "ReverseCoordinates" /\ pc \in {"fill", "done"} =>
        \E r \in 0 .. m : \A b \in Backends :
            /\ Dealt(b) = IF b < i THEN r + 1 ELSE r
            /\ Dealt(b) + Cardinality(unset) <= m

SeedInv ==
    pc = "seed" =>
        /\ j = 0 /\ k = 0
        /\ \A s \in Slots \ unset : out[s] < i
        /\ \A b \in Backends :
            IF b < i
            THEN /\ distribution[b] = (m \div n) - 1
                 /\ Home(b) \notin unset
                 /\ Placed(b) = IF out[Home(b)] = b THEN {Home(b)} ELSE {}
            ELSE distribution[b] = m \div n

\* In round j of RobustFib, the backends before i have had their chunk, and i has had k slots of it.
Rounds(b) ==
    IF b < i THEN Reached[j + 1] ELSE IF b = i THEN Reached[j] + k ELSE Reached[j]

WalkInv ==
    /\ Robust /\ pc # "seed" => \A b \in Backends : Home(b) \notin unset
    /\ pc = "walk" => \A b \in Backends : distribution[b] + Had(b) = m \div n
    /\ pc = "walk" /\ alg = "RobustFib" =>
        /\ j \in 0 .. Len(fib)
        /\ IF j = Len(fib) THEN i = 0 /\ k = 0 ELSE k < fib[j + 1]
        /\ \A b \in Backends : distribution[b] = 0 \/ Had(b) = Rounds(b)
    /\ pc = "walk" /\ alg = "RobustSimple" => k = 0
    /\ pc = "deal" => k <= i
    /\ Robust /\ pc \in {"deal", "done"} => \A b \in Backends : Had(b) >= Share

StripeInv ==
    alg \in {"NaiveFib", "Simple"} =>
        \E t \in 0 .. m :
            /\ unset = t .. m - 1
            /\ \A s \in 0 .. t - 1 : out[s] = s % n
            /\ pc = "done" => t = m
            /\ pc = "stripe" /\ alg = "NaiveFib" =>
                /\ i = t % n /\ j = 0 /\ k = 0
                /\ \A b \in Backends :
                     distribution[b] = (m \div n) + 1 - (t \div n) - (IF b < t % n THEN 1 ELSE 0)

RInv == Types /\ QuotaAccounted /\ FillInv /\ SeedInv /\ WalkInv /\ StripeInv

LEMMA RltTypes ==
  ASSUME Types
  PROVE /\ m \in Nat \ {0} /\ n \in Nat \ {0} /\ n <= m /\ Width \in Nat \ {0} /\ m < Width
        /\ m \div n \in 1 .. m
        /\ Backends \subseteq Nat /\ Slots \subseteq Nat /\ 0 \in Backends /\ 0 \in Slots
        /\ i \in Nat /\ i <= n
        /\ \A b \in Backends : Home(b) \in Slots
        /\ \A b \in Backends : distribution[b] \in Nat
        /\ \A T \in SUBSET Slots : IsFiniteSet(T) /\ Cardinality(T) \in 0 .. m
  <1>1. m \in Nat \ {0} /\ n \in Nat \ {0} /\ n <= m /\ Width \in Nat \ {0} /\ m < Width
    BY RltAssumption DEF Types
  <1>2. m \div n \in 1 .. m
    BY <1>1, ShareBounds
  <1>3. Backends \subseteq Nat /\ Slots \subseteq Nat /\ 0 \in Backends /\ 0 \in Slots
    BY <1>1 DEF Backends, Slots
  <1>4. i \in Nat /\ i <= n
    <2>1. i \in 0 .. n
      BY Zenon DEF Types
    <2> QED
      BY <1>1, <2>1
  <1>5. ASSUME NEW b \in Backends PROVE Home(b) \in Slots
    <2>1. 0 \in 0 .. nCoordinates - 1
      BY RltAssumption
    <2>4. coord[b] \in [0 .. nCoordinates - 1 -> Coordinates]
      BY Zenon DEF Types
    <2>2. coord[b][0] \in Coordinates
      BY <2>1, <2>4, Zenon
    <2>5. coord[b][0] \in Nat
      BY <2>2, RltAssumption, Zenon
    <2>3. coord[b][0] \in Int
      BY <2>5
    <2> QED
      BY <2>3, SlotRemainder, Zenon DEF Home
  <1>6. \A b \in Backends : distribution[b] \in Nat
    BY Zenon DEF Types
  <1> QED
    BY <1>1, <1>2, <1>3, <1>4, <1>5, <1>6, SlotsFinite, Zenon

\* TakenSlots for a step.
LEMMA TakeStep ==
  unset \in SUBSET Slots =>
    \A hits \in SUBSET unset : \A a :
       unset' = unset \ hits /\ Gives(out, out', hits, a)
       => \A b : /\ b = a => /\ Placed(b)' = Placed(b) \cup hits
                              /\ Cardinality(Placed(b)') = Cardinality(Placed(b)) + Cardinality(hits)
                 /\ b # a => Placed(b)' = Placed(b)
  <1> SUFFICES ASSUME unset \in SUBSET Slots, NEW hits \in SUBSET unset, NEW a, unset' = unset \ hits,
                      Gives(out, out', hits, a), NEW b
               PROVE /\ b = a => /\ Placed(b)' = Placed(b) \cup hits
                                 /\ Cardinality(Placed(b)') = Cardinality(Placed(b)) + Cardinality(hits)
                     /\ b # a => Placed(b)' = Placed(b)
    BY Zenon
  <1>1. Placed(b) = PlacedIn(unset, out, b) /\ Placed(b)' = PlacedIn(unset', out', b)
    BY Zenon DEF Placed, PlacedIn
  <1>2. /\ PlacedIn(unset \ hits, out', a) = PlacedIn(unset, out, a) \cup hits
        /\ Cardinality(PlacedIn(unset \ hits, out', a))
             = Cardinality(PlacedIn(unset, out, a)) + Cardinality(hits)
        /\ \A c : c # a => PlacedIn(unset \ hits, out', c) = PlacedIn(unset, out, c)
    <2>1. Taken(unset, out, out', hits, a)
      BY TakenSlots, Zenon
    <2> QED
      BY <2>1, Zenon DEF Taken
  <1> QED
    BY <1>1, <1>2, Zenon

LEMMA PlacedTypes ==
  \A b : Placed(b) \in SUBSET Slots /\ IsFiniteSet(Placed(b)) /\ Cardinality(Placed(b)) \in 0 .. m
  <1>1. \A b : Placed(b) \in SUBSET Slots
    BY Zenon DEF Placed
  <1> QED
    BY <1>1, SlotsFinite, Zenon

LEMMA InitRInv == RltInit => RInv
  <1> SUFFICES ASSUME RltInit PROVE RInv
    OBVIOUS
  <1> DEFINE q == m \div n
  <1>1. n \in 1 .. MaxBackends /\ n \in Nat \ {0} /\ n <= m /\ m \in Nat \ {0} /\ Width \in Nat \ {0} /\ m < Width
    BY RltAssumption DEF RltInit
  <1>2. q \in 1 .. m
    BY <1>1, ShareBounds
  <1>3. 0 \in Backends /\ 0 \in Slots /\ Backends = 0 .. n - 1
    BY <1>1 DEF Backends, Slots
  <1> HIDE DEF q
  <1>4. Types
    <2>1. i \in 0 .. n /\ i < n /\ j \in Nat /\ k \in Nat
      BY <1>1 DEF RltInit
    <2>2. M \in [Backends -> Slots] /\ out \in [Slots -> Backends] /\ unset \subseteq Slots
      BY <1>3, Zenon DEF RltInit
    <2>3. distribution \in [Backends -> Nat]
      <3>1. q + 1 \in Nat /\ q + 0 \in Nat
        BY <1>2
      <3> QED
        BY <3>1, <1>3, Zenon DEF RltInit, q
    <2>4. pc \in IF alg = "ReverseCoordinates" THEN {"place", "fill", "done"}
                 ELSE IF Robust THEN {"seed", "walk", "deal", "done"} ELSE {"stripe", "done"}
      BY Zenon DEF RltInit
    <2>5. /\ alg \in {"ReverseCoordinates", "RobustFib", "RobustSimple", "NaiveFib", "Simple"}
          /\ coord \in [Backends -> [0 .. nCoordinates - 1 -> Coordinates]]
      BY <1>3, Zenon DEF RltInit
    <2> QED
      BY <1>1, <2>1, <2>2, <2>3, <2>4, <2>5, Zenon DEF Types
  <1>5. \A b : Placed(b) = {} /\ Cardinality(Placed(b)) = 0
    BY FS_EmptySet, Zenon DEF Placed, RltInit
  <1>6. \A b \in Backends : distribution[b] = IF alg = "NaiveFib" THEN q + 1 ELSE q
    BY <1>2, <1>3 DEF RltInit, q
  <1>7. QuotaAccounted
    <2> SUFFICES ASSUME pc = "place", NEW b \in Backends
                 PROVE (distribution[b] + Cardinality(Placed(b)) + Lost(b)) % Width = q
      <3>1. pc # "walk"
        BY Zenon DEF RltInit
      <3> QED
        BY <3>1, <1>3, Zenon DEF QuotaAccounted, q
    <2>1. alg = "ReverseCoordinates"
      BY Zenon DEF RltInit
    <2>2. Lost(b) = 0
      BY <2>1, Zenon DEF Lost, Robust
    <2>3. distribution[b] + Cardinality(Placed(b)) + Lost(b) = q
      BY <2>1, <2>2, <1>2, <1>5, <1>6
    <2> QED
      BY <2>3, <1>1, <1>2, SmallRemainder
  <1>8. FillInv
    BY Zenon DEF FillInv, RltInit
  <1>9. SeedInv
    <2> SUFFICES ASSUME pc = "seed", NEW b \in Backends PROVE ~(b < i) /\ distribution[b] = q
      BY Zenon DEF SeedInv, RltInit, q
    <2>1. alg # "NaiveFib"
      BY Zenon DEF RltInit, Robust
    <2> QED
      BY <2>1, <1>3, <1>6 DEF RltInit
  <1>10. WalkInv
    <2>1. pc \in {"place", "seed", "stripe"} /\ (Robust => pc = "seed")
      BY Zenon DEF RltInit, Robust
    <2> QED
      BY <2>1, Zenon DEF WalkInv
  <1>11. StripeInv
    <2> SUFFICES ASSUME alg \in {"NaiveFib", "Simple"} PROVE StripeInv
      BY Zenon DEF StripeInv
    <2> DEFINE t == 0
    <2>1. t \in 0 .. m /\ unset = t .. m - 1 /\ \A s \in 0 .. t - 1 : out[s] = s % n
      BY <1>1 DEF RltInit, Slots
    <2>2. pc # "done"
      BY Zenon DEF RltInit
    <2>3. 0 % n = 0 /\ 0 \div n = 0
      BY <1>1
    <2>4. i = t % n /\ j = 0 /\ k = 0
      BY <2>3 DEF RltInit
    <2>5. ASSUME alg = "NaiveFib", NEW b \in Backends
          PROVE distribution[b] = (m \div n) + 1 - (t \div n) - (IF b < t % n THEN 1 ELSE 0)
      BY <1>2, <1>3, <1>6, <2>3, <2>5 DEF q
    <2> QED
      BY <2>1, <2>2, <2>4, <2>5, Zenon DEF StripeInv
  <1> QED
    BY <1>4, <1>7, <1>8, <1>9, <1>10, <1>11, Zenon DEF RInv

(***************************************************************************)
(* ReverseCoordinatesLookupTable.                                          *)
(***************************************************************************)

\* For an algorithm that does not start backends at a slot of their own, nothing is lost.
LEMMA NothingLost == ~Robust => \A b : Lost(b) = 0
  BY Zenon DEF Lost

LEMMA AdvanceSteps ==
  ASSUME Types, pc = "place", NEW d, Advance(d)
  PROVE /\ i' \in 0 .. n /\ i' < n /\ j' \in Nat
        /\ (pc' = "place" \/ (pc' = "fill" /\ i' = 0))
  <1>1. n \in Nat \ {0} /\ i \in Nat /\ i <= n
    BY RltTypes
  <1>2. i < n /\ j \in Nat
    BY Zenon DEF Types
  <1>3. \/ j' = j + 1 /\ i' = i /\ pc' = pc
        \/ i < n - 1 /\ i' = i + 1 /\ j' = 0 /\ pc' = pc
        \/ i' = 0 /\ j' = 0 /\ (pc' = pc \/ pc' = "fill")
    BY Zenon DEF Advance
  <1> QED
    BY <1>1, <1>2, <1>3

LEMMA PlaceStep == RInv /\ Place => RInv'
  <1> SUFFICES ASSUME RInv, Place PROVE RInv'
    OBVIOUS
  <1> DEFINE hits == IF distribution[i] < 1 THEN {} ELSE Multiples(coord[i][j] % prime)
             q == m \div n
             D(b) == Cardinality(Placed(b))
  <1>1. /\ Types /\ QuotaAccounted /\ pc = "place"
        /\ out' = [s \in Slots |-> IF s \in hits THEN i ELSE out[s]]
        /\ unset' = unset \ hits
        /\ distribution' = [distribution EXCEPT ![i] = (@ - Cardinality(hits)) % Width]
        /\ Advance(distribution')
        /\ UNCHANGED <<input, k, M>>
    BY Zenon DEF Place, RInv
  <1>2. hits \in SUBSET unset
    BY Zenon DEF Multiples
  <1> HIDE DEF hits
  <1>3. alg = "ReverseCoordinates" /\ ~Robust
    BY <1>1, Zenon DEF Types, Robust
  <1>4. alg' = alg /\ n' = n /\ coord' = coord /\ Backends' = Backends /\ ~Robust' /\ k' = k /\ M' = M
    BY <1>1, <1>3 DEF input, Robust, Backends
  <1>5. i' \in 0 .. n /\ i' < n /\ j' \in Nat /\ (pc' = "place" \/ (pc' = "fill" /\ i' = 0))
    BY <1>1, AdvanceSteps, Zenon
  <1>6. /\ unset \in SUBSET Slots /\ out \in [Slots -> Backends] /\ distribution \in [Backends -> Nat]
        /\ i \in Backends
    <2>1. i < n
      BY <1>1, Zenon DEF Types
    <2>2. i \in Backends
      BY <1>1, <2>1, RltTypes DEF Backends
    <2> QED
      BY <1>1, <2>2, Zenon DEF Types
  <1>7. \A b : (b = i => D(b)' = D(b) + Cardinality(hits)) /\ (b # i => D(b)' = D(b))
    <2>1. Gives(out, out', hits, i)
      BY <1>1, Zenon DEF Gives
    <2>2. \A b : /\ b = i => Cardinality(Placed(b)') = Cardinality(Placed(b)) + Cardinality(hits)
                 /\ b # i => Placed(b)' = Placed(b)
      BY <1>1, <1>2, <1>6, <2>1, TakeStep
    <2> QED
      BY <2>2, Zenon
  <1>8. /\ Width \in Nat \ {0} /\ q \in 1 .. m /\ m < Width /\ m \in Nat
        /\ Cardinality(hits) \in 0 .. m /\ \A b \in Backends : distribution[b] \in Nat
    <2>1. hits \in SUBSET Slots
      BY <1>2, <1>6, Zenon
    <2> QED
      BY <1>1, <2>1, RltTypes
  <1>9. \A b : D(b) \in 0 .. m
    BY PlacedTypes, Zenon
  <1>10. Types'
    <2>1. out' \in [Slots -> Backends]
      BY <1>1, <1>6, Zenon
    <2>2. distribution' \in [Backends -> Nat]
      <3>1. distribution[i] - Cardinality(hits) \in Int
        BY <1>6, <1>8
      <3>2. (distribution[i] - Cardinality(hits)) % Width \in Nat
        BY <3>1, <1>8
      <3> QED
        BY <3>2, <1>1, <1>6
    <2>3. unset' \subseteq Slots
      BY <1>1, <1>6, Zenon
    <2>4. /\ alg \in {"ReverseCoordinates", "RobustFib", "RobustSimple", "NaiveFib", "Simple"}
          /\ n \in 1 .. MaxBackends /\ coord \in [Backends -> [0 .. nCoordinates - 1 -> Coordinates]]
          /\ M \in [Backends -> Slots] /\ k \in Nat
      BY <1>1, Zenon DEF Types
    <2> QED
      BY <1>3, <1>4, <1>5, <2>1, <2>2, <2>3, <2>4, Zenon DEF Types
  <1> HIDE DEF D, q
  <1>11. ASSUME NEW b \in Backends PROVE (distribution'[b] + D(b)') % Width = q
    <2>1. (distribution[b] + D(b)) % Width = q
      <3>1. (distribution[b] + Cardinality(Placed(b)) + Lost(b)) % Width = q /\ Lost(b) = 0
        BY <1>1, <1>3, NothingLost, Zenon DEF QuotaAccounted, Backends, q
      <3>2. distribution[b] + Cardinality(Placed(b)) + 0 = distribution[b] + D(b)
        BY <1>8, <1>9 DEF D
      <3> QED
        BY <3>1, <3>2, Zenon
    <2>2. CASE b = i
      <3>1. distribution'[b] = (distribution[b] - Cardinality(hits)) % Width
        BY <2>2, <1>1, <1>6
      <3>2. D(b)' = D(b) + Cardinality(hits)
        BY <2>2, <1>7, Zenon
      <3>3. distribution[b] \in Int /\ D(b) \in Int /\ Cardinality(hits) \in Int
        BY <1>8, <1>9
      <3>4. (distribution'[b] + D(b)') % Width = (distribution[b] + D(b)) % Width
        BY <3>1, <3>2, <3>3, <1>8, RemainderShift
      <3> QED
        BY <2>1, <3>4, Zenon
    <2>3. CASE b # i
      BY <2>1, <2>3, <1>1, <1>6, <1>7, Zenon
    <2> QED
      BY <2>2, <2>3, Zenon
  <1>12. QuotaAccounted'
    <2> SUFFICES ASSUME NEW b \in Backends
                 PROVE (distribution'[b] + Cardinality(Placed(b)') + Lost(b)') % Width = q
      BY <1>4, Zenon DEF QuotaAccounted, Backends, q
    <2>1. Lost(b)' = 0
      BY <1>4, Zenon DEF Lost
    <2>2. distribution'[b] \in Nat /\ D(b)' \in Nat
      <3>1. distribution'[b] \in Nat
        BY <1>4, <1>10, Zenon DEF Types
      <3>2. D(b)' \in Nat
        BY <1>7, <1>8, <1>9
      <3> QED
        BY <3>1, <3>2, Zenon
    <2>3. distribution'[b] + D(b)' + 0 = distribution'[b] + D(b)'
      BY <2>2
    <2> QED
      BY <1>11, <2>1, <2>3, Zenon DEF D
  <1>13. FillInv'
    <2> SUFFICES ASSUME pc' = "fill", NEW b \in Backends
                 PROVE Dealt(b)' = 0 /\ ~(b < 0) /\ Dealt(b)' + Cardinality(unset') <= m
      <3>1. pc' = "place" \/ i' = 0
        BY <1>5, Zenon
      <3>2. 0 \in 0 .. m
        BY <1>8
      <3> QED
        BY <1>4, <1>5, <3>1, <3>2, Zenon DEF FillInv
    <2> DEFINE x == distribution'[b]
               y == D(b)'
    <2>1. (x + y) % Width = q /\ x \in Nat /\ y \in Nat
      <3>1. x \in Nat
        BY <1>4, <1>10, Zenon DEF Types
      <3>2. y \in Nat
        BY <1>7, <1>8, <1>9
      <3> QED
        BY <1>11, <3>1, <3>2, Zenon
    <2>2. Dealt(b)' = (y + x - q) % Width
      BY <1>4, Zenon DEF Dealt, D, q
    <2> HIDE DEF x, y
    <2>3. PICK r \in Int : x + y = (Width * r) + q
      BY <2>1, <1>8, DivMod, x + y \in Int, Zenon
    <2>4. y + x - q = (Width * r) + 0 /\ y + x - q \in Int /\ 0 \in 0 .. Width - 1
      <3>1. Width * r \in Int
        BY <1>8
      <3> QED
        BY <2>1, <2>3, <3>1, <1>8
    <2>5. Dealt(b)' = 0
      BY <2>2, <2>4, <1>8, Remainder, Zenon
    <2>6. Cardinality(unset') \in 0 .. m
      BY <1>1, <1>6, SlotsFinite, Zenon
    <2>7. b \in Nat
      BY <1>1, RltTypes, Zenon
    <2> QED
      BY <2>5, <2>6, <2>7, <1>8
  <1>14. SeedInv' /\ WalkInv' /\ StripeInv'
    BY <1>3, <1>4, <1>5, Zenon DEF SeedInv, WalkInv, StripeInv, Robust
  <1> QED
    BY <1>10, <1>12, <1>13, <1>14, Zenon DEF RInv

LEMMA DealtTypes ==
  Types => \A b \in Backends : /\ Dealt(b) \in Nat
                               /\ Cardinality(Placed(b)) + distribution[b] - m \div n \in Int
  <1> SUFFICES ASSUME Types, NEW b \in Backends
               PROVE /\ Dealt(b) \in Nat
                     /\ Cardinality(Placed(b)) + distribution[b] - m \div n \in Int
    BY Zenon
  <1>1. Cardinality(Placed(b)) \in 0 .. m
    BY PlacedTypes, Zenon
  <1>2. distribution[b] \in Nat /\ m \in Nat /\ m \div n \in 1 .. m /\ Width \in Nat \ {0}
    BY RltTypes
  <1>3. Cardinality(Placed(b)) + distribution[b] - m \div n \in Int
    BY <1>1, <1>2
  <1> DEFINE x == Cardinality(Placed(b)) + distribution[b] - m \div n
  <1> HIDE DEF x
  <1>4. x \in Int
    BY <1>3 DEF x
  <1>5. x % Width \in Nat
    BY <1>2, <1>4
  <1> QED
    BY <1>3, <1>5, Zenon DEF Dealt, x

LEMMA FillStep == RInv /\ Fill => RInv'
  <1> SUFFICES ASSUME RInv, Fill PROVE RInv'
    OBVIOUS
  <1>1. Types /\ FillInv /\ pc = "fill" /\ i' = NextTurn + 1
        /\ UNCHANGED <<input, pc, prime, j, k, M, distribution>>
    BY Zenon DEF Fill, RInv
  <1>2. PICK s \in unset : out' = [out EXCEPT ![s] = NextTurn] /\ unset' = unset \ {s}
    BY Zenon DEF Fill
  <1>3. alg = "ReverseCoordinates" /\ ~Robust
    BY <1>1, Zenon DEF Types, Robust
  <1>4. alg' = alg /\ n' = n /\ coord' = coord /\ Backends' = Backends /\ ~Robust' /\ pc' = pc
        /\ j' = j /\ k' = k /\ M' = M /\ distribution' = distribution
    BY <1>1, <1>3 DEF input, Robust, Backends
  <1>5. /\ n \in Nat \ {0} /\ m \in Nat \ {0} /\ Width \in Nat \ {0} /\ m < Width /\ i \in Nat /\ i <= n
    BY <1>1, RltTypes
  <1> DEFINE turn == NextTurn
  <1>6. /\ turn \in 0 .. n - 1 /\ turn \in Backends /\ i' = turn + 1 /\ i' \in 0 .. n
        /\ (turn = i \/ (i = n /\ turn = 0))
    BY <1>1, <1>5 DEF NextTurn, Backends
  <1>7. unset \in SUBSET Slots /\ out \in [Slots -> Backends] /\ s \in Slots
    BY <1>1, Zenon DEF Types
  <1> HIDE DEF turn
  <1>8. out' = [out EXCEPT ![s] = turn]
    BY <1>2, Zenon DEF turn
  <1>9. Types'
    <2>1. out' \in [Slots -> Backends]
      BY <1>6, <1>7, <1>8
    <2>2. unset' \subseteq Slots
      BY <1>2, <1>7, Zenon
    <2>3. /\ alg \in {"ReverseCoordinates", "RobustFib", "RobustSimple", "NaiveFib", "Simple"}
          /\ n \in 1 .. MaxBackends /\ coord \in [Backends -> [0 .. nCoordinates - 1 -> Coordinates]]
          /\ M \in [Backends -> Slots] /\ k \in Nat /\ j \in Nat /\ distribution \in [Backends -> Nat]
      BY <1>1, Zenon DEF Types
    <2> QED
      BY <1>1, <1>3, <1>4, <1>6, <2>1, <2>2, <2>3, Zenon DEF Types
  <1>10. \A b : /\ b = turn => Cardinality(Placed(b)') = Cardinality(Placed(b)) + 1
                /\ b # turn => Placed(b)' = Placed(b)
    <2>1. Gives(out, out', {s}, turn)
      BY <1>7, <1>8 DEF Gives
    <2>2. {s} \in SUBSET unset /\ Cardinality({s}) = 1
      BY FS_Singleton, Zenon
    <2> QED
      BY <1>2, <1>7, <2>1, <2>2, TakeStep, ZenonT(30)
  <1>11. Cardinality(unset) \in 0 .. m /\ Cardinality(unset') = Cardinality(unset) - 1 /\ Cardinality(unset') \in 0 .. m
    <2>1. IsFiniteSet(unset) /\ Cardinality(unset) \in 0 .. m /\ Cardinality(unset') \in 0 .. m
      BY <1>2, <1>7, SlotsFinite, Zenon
    <2>2. Cardinality(unset \ {s}) = Cardinality(unset) - 1
      BY <2>1, FS_RemoveElement
    <2> QED
      BY <1>2, <2>1, <2>2, Zenon
  <1>12. PICK r \in 0 .. m : \A b \in Backends : /\ Dealt(b) = IF b < i THEN r + 1 ELSE r
                                                 /\ Dealt(b) + Cardinality(unset) <= m
    BY <1>1, <1>3, Zenon DEF FillInv
  <1>13. \A b \in Backends : b # turn => Dealt(b)' = Dealt(b)
    BY <1>4, <1>10, Zenon DEF Dealt
  <1>14. \A b \in Backends : b = turn => Dealt(b)' = Dealt(b) + 1
    <2> SUFFICES ASSUME NEW b \in Backends, b = turn PROVE Dealt(b)' = Dealt(b) + 1
      BY Zenon
    <2> DEFINE x == Cardinality(Placed(b)) + distribution[b] - m \div n
    <2>1. /\ x \in Int /\ Cardinality(Placed(b)) \in Int /\ distribution[b] \in Int /\ m \div n \in Int
      <3>1. Cardinality(Placed(b)) \in 0 .. m
        BY PlacedTypes, Zenon
      <3>2. distribution[b] \in Nat /\ m \div n \in 1 .. m
        BY <1>1, RltTypes
      <3> QED
        BY <1>5, <3>1, <3>2
    <2>2. Dealt(b) = x % Width
      BY Zenon DEF Dealt
    <2>3. Dealt(b)' = (Cardinality(Placed(b)') + distribution[b] - m \div n) % Width
      BY <1>4, Zenon DEF Dealt
    <2>4. Cardinality(Placed(b)') + distribution[b] - m \div n = x + 1
      BY <1>10, <2>1
    <2> HIDE DEF x
    <2>5. Dealt(b) \in Nat
      BY <1>1, DealtTypes, Zenon
    <2>6. Dealt(b) + Cardinality(unset) <= m
      BY <1>12, Zenon
    <2>7. (x % Width) + 1 < Width
      BY <1>5, <1>11, <2>2, <2>5, <2>6
    <2> QED
      BY <2>1, <2>2, <2>3, <2>4, <2>7, <1>5, RemainderSucc, Zenon
  <1>15. FillInv'
    <2> DEFINE turns == IF i = n THEN r + 1 ELSE r
    <2>1. turns \in 0 .. m
      <3>1. 0 \in Backends
        BY <1>1, RltTypes
      <3>2. i = n => Dealt(0) = r + 1 /\ r + 1 + Cardinality(unset) <= m
        BY <1>5, <1>12, <3>1
      <3> QED
        BY <1>5, <1>11, <3>2
    <2>2. ASSUME NEW b \in Backends
          PROVE Dealt(b)' = (IF b < i' THEN turns + 1 ELSE turns) /\ Dealt(b)' + Cardinality(unset') <= m
      <3>1. Dealt(b) = (IF b < i THEN r + 1 ELSE r) /\ Dealt(b) + Cardinality(unset) <= m
        BY <1>12, Zenon
      <3>2. b \in Nat /\ b < n
        BY <1>5 DEF Backends
      <3>3. (b # turn => Dealt(b)' = Dealt(b)) /\ (b = turn => Dealt(b)' = Dealt(b) + 1)
        BY <1>13, <1>14, Zenon
      <3>4. Dealt(b)' = IF b < i' THEN turns + 1 ELSE turns
        BY <1>5, <1>6, <3>1, <3>2, <3>3
      <3>5. Dealt(b)' + Cardinality(unset') <= m
        BY <1>5, <1>11, <3>1, <3>3
      <3> QED
        BY <3>4, <3>5
    <2> HIDE DEF turns
    <2> QED
      BY <1>4, <2>1, <2>2, Zenon DEF FillInv
  <1>16. QuotaAccounted' /\ SeedInv' /\ WalkInv' /\ StripeInv'
    BY <1>1, <1>3, <1>4, Zenon DEF QuotaAccounted, SeedInv, WalkInv, StripeInv, Robust
  <1> QED
    BY <1>9, <1>15, <1>16, Zenon DEF RInv

LEMMA ReturnStep == RInv /\ Return => RInv'
  <1> SUFFICES ASSUME RInv, Return PROVE RInv'
    OBVIOUS
  <1>1. Types /\ FillInv /\ pc = "fill" /\ pc' = "done"
        /\ UNCHANGED <<input, prime, i, j, k, M, unset, out, distribution>>
    BY Zenon DEF Return, RInv
  <1>2. alg = "ReverseCoordinates" /\ ~Robust
    BY <1>1, Zenon DEF Types, Robust
  <1>3. /\ alg' = alg /\ n' = n /\ coord' = coord /\ Backends' = Backends /\ ~Robust' /\ i' = i
        /\ j' = j /\ k' = k /\ M' = M /\ unset' = unset /\ out' = out /\ distribution' = distribution
    BY <1>1, <1>2 DEF input, Robust, Backends
  <1>4. Types'
    BY <1>1, <1>2, <1>3, Zenon DEF Types
  <1>5. \A b : Dealt(b)' = Dealt(b)
    BY <1>3, Zenon DEF Dealt, Placed
  <1>6. FillInv'
    BY <1>1, <1>2, <1>3, <1>5, Zenon DEF FillInv
  <1>7. QuotaAccounted' /\ SeedInv' /\ WalkInv' /\ StripeInv'
    BY <1>1, <1>2, <1>3, Zenon DEF QuotaAccounted, SeedInv, WalkInv, StripeInv, Robust
  <1> QED
    BY <1>4, <1>6, <1>7, Zenon DEF RInv

(***************************************************************************)
(* RobustFibLookupTable and RobustSimpleLookupTable.  What RobustFib gives *)
(* a backend round by round.                                               *)
(***************************************************************************)
ReachedAre ==
  <<1, 2, 3, 5, 8, 13, 21, 34, 55, 89, 144, 233, 377, 610, 987, 1597, 2584, 4171, 6755, 10936>>

LEMMA FibLength == Len(fib) = 19
  BY DEF fib

LEMMA FibSteps ==
  \A x \in 1 .. 19 : /\ fib[x] \in Nat \ {0} /\ ReachedAre[x] \in Nat
                     /\ ReachedAre[x + 1] = ReachedAre[x] + fib[x]
  <1> SUFFICES ASSUME NEW x \in 1 .. 19
               PROVE /\ fib[x] \in Nat \ {0} /\ ReachedAre[x] \in Nat
                     /\ ReachedAre[x + 1] = ReachedAre[x] + fib[x]
    OBVIOUS
  <1>1. x \in {1, 2, 3, 4, 5, 6, 7, 8, 9, 10, 11, 12, 13, 14, 15, 16, 17, 18, 19}
    OBVIOUS
  <1> QED
    BY <1>1 DEF fib, ReachedAre

LEMMA ReachedEquation ==
  Reached = [rounds \in 0 .. Len(fib) |-> IF rounds = 0 THEN 1 ELSE Reached[rounds - 1] + fib[rounds]]
  <1> DEFINE Step(f) == [rounds \in 0 .. Len(fib) |-> IF rounds = 0 THEN 1 ELSE f[rounds - 1] + fib[rounds]]
             F == [rounds \in 0 .. Len(fib) |-> ReachedAre[rounds + 1]]
  <1>1. Reached = CHOOSE f : f = Step(f)
    BY Zenon DEF Reached
  <1>2. F = Step(F)
    <2>1. ASSUME NEW x \in 0 .. Len(fib) PROVE F[x] = IF x = 0 THEN 1 ELSE F[x - 1] + fib[x]
      <3>1. CASE x = 0
        <4>1. ReachedAre[1] = 1
          BY DEF ReachedAre
        <4> QED
          BY <3>1, <4>1
      <3>2. CASE x # 0
        <4>1. x \in 1 .. 19 /\ x - 1 \in 0 .. Len(fib) /\ x - 1 + 1 = x
          BY <3>2, FibLength
        <4>2. F[x - 1] = ReachedAre[x]
          BY <4>1
        <4>3. F[x] = ReachedAre[x + 1]
          BY Zenon
        <4> QED
          BY <3>2, <4>1, <4>2, <4>3, FibSteps, ZenonT(30)
      <3> QED
        BY <3>1, <3>2
    <2> QED
      BY <2>1, Zenon
  <1> HIDE DEF F, Step
  <1>3. Reached = Step(Reached)
    BY <1>1, <1>2, Zenon
  <1> QED
    BY <1>3, Zenon DEF Step

LEMMA ReachedSteps ==
  /\ Reached[0] = 1
  /\ \A x \in 0 .. 18 : fib[x + 1] \in Nat \ {0} /\ Reached[x + 1] = Reached[x] + fib[x + 1]
  /\ \A x \in 0 .. 19 : Reached[x] \in Nat
  <1>1. 0 \in 0 .. Len(fib) /\ \A x \in 0 .. 18 : x + 1 \in 0 .. Len(fib) /\ x + 1 # 0 /\ x + 1 - 1 = x /\ x + 1 \in 1 .. 19
    BY FibLength
  <1>2. Reached[0] = 1
    BY <1>1, ReachedEquation, Zenon
  <1>3. ASSUME NEW x \in 0 .. 18
        PROVE fib[x + 1] \in Nat \ {0} /\ Reached[x + 1] = Reached[x] + fib[x + 1]
    <2>4. \A r \in 0 .. Len(fib) : r # 0 => Reached[r] = Reached[r - 1] + fib[r]
      BY ReachedEquation, Zenon
    <2>5. x + 1 \in 0 .. Len(fib) /\ x + 1 # 0
      BY <1>1, Zenon
    <2>1. Reached[x + 1] = Reached[x + 1 - 1] + fib[x + 1]
      BY <2>4, <2>5
    <2>2. x + 1 - 1 = x /\ x + 1 \in 1 .. 19
      BY <1>1, Zenon
    <2>3. fib[x + 1] \in Nat \ {0}
      BY <2>2, FibSteps, Zenon
    <2> QED
      BY <2>1, <2>2, <2>3, Zenon
  <1>4. \A x \in 0 .. 19 : Reached[x] \in Nat
    <2> DEFINE T == {x \in 0 .. 19 : Reached[x] \notin Nat}
    <2> SUFFICES ASSUME T # {} PROVE FALSE
      OBVIOUS
    <2>1. PICK x \in T : \A y \in T : x <= y
      <3>1. T \in SUBSET Nat
        OBVIOUS
      <3> QED
        BY <3>1, NatLeast, Zenon
    <2>2. x # 0
      BY <1>2
    <2>3. x - 1 \in 0 .. 18 /\ x - 1 + 1 = x /\ x - 1 \notin T
      BY <2>1, <2>2
    <2>4. Reached[x - 1] \in Nat
      BY <2>3
    <2>5. fib[x - 1 + 1] \in Nat \ {0} /\ Reached[x - 1 + 1] = Reached[x - 1] + fib[x - 1 + 1]
      BY <1>3, <2>3
    <2>6. Reached[x] \in Nat
      BY <2>3, <2>4, <2>5
    <2> QED
      BY <2>6
  <1> QED
    BY <1>2, <1>3, <1>4, Zenon

\* What Take does, for a slot that may not be free.
TakeResult(b, s) ==
  /\ out' \in [Slots -> Backends] /\ out'[s] = b
  /\ \A x \in Slots : x # s => out'[x] = out[x]
  /\ unset' = unset \ {s} /\ unset' \subseteq Slots
  /\ M' \in [Backends -> Slots]
  /\ distribution' \in [Backends -> Nat] /\ distribution'[b] = distribution[b] - 1
  /\ \A x \in Backends : x # b => distribution'[x] = distribution[x]

LEMMA TakeEffect ==
  Types => \A b \in Backends, s \in Slots : distribution[b] \in 1 .. m /\ Take(b, s) => TakeResult(b, s)
  <1> SUFFICES ASSUME Types, NEW b \in Backends, NEW s \in Slots, distribution[b] \in 1 .. m, Take(b, s)
               PROVE TakeResult(b, s)
    BY Zenon
  <1>1. /\ out \in [Slots -> Backends] /\ unset \subseteq Slots /\ M \in [Backends -> Slots]
        /\ distribution \in [Backends -> Nat]
    BY Zenon DEF Types
  <1>2. /\ out' = [out EXCEPT ![s] = b] /\ unset' = unset \ {s} /\ M' = [M EXCEPT ![b] = s]
        /\ distribution' = [distribution EXCEPT ![b] = (@ - 1) % Width]
    BY Zenon DEF Take
  <1>3. (distribution[b] - 1) % Width = distribution[b] - 1
    <2>1. distribution[b] - 1 \in 0 .. Width - 1 /\ Width \in Nat \ {0}
      BY RltAssumption
    <2> QED
      BY <2>1, SmallRemainder, Zenon
  <1>4. distribution[b] - 1 \in Nat
    BY RltAssumption
  <1>5. out' \in [Slots -> Backends] /\ out'[s] = b /\ \A x \in Slots : x # s => out'[x] = out[x]
    BY <1>1, <1>2
  <1>6. unset' \subseteq Slots /\ M' \in [Backends -> Slots]
    BY <1>1, <1>2
  <1>7. /\ distribution' \in [Backends -> Nat] /\ distribution'[b] = distribution[b] - 1
        /\ \A x \in Backends : x # b => distribution'[x] = distribution[x]
    BY <1>1, <1>2, <1>3, <1>4
  <1> QED
    BY <1>2, <1>5, <1>6, <1>7, Zenon DEF TakeResult

LEMMA NextBackend ==
  \A c \in Nat \ {0} : \A a \in 0 .. c - 1 : (a + 1) % c = IF a = c - 1 THEN 0 ELSE a + 1
  <1> SUFFICES ASSUME NEW c \in Nat \ {0}, NEW a \in 0 .. c - 1
               PROVE (a + 1) % c = IF a = c - 1 THEN 0 ELSE a + 1
    BY Zenon
  <1>1. a % c = a
    BY SmallRemainder, Zenon
  <1>2. a \in Nat
    OBVIOUS
  <1>3. /\ (a % c) + 1 < c => (a + 1) % c = (a % c) + 1
        /\ (a % c) + 1 = c => (a + 1) % c = 0
    BY <1>2, Quotients, Zenon
  <1> QED
    BY <1>1, <1>3

LEMMA SeedStep == RInv /\ Seed => RInv'
  <1> SUFFICES ASSUME RInv, Seed PROVE RInv'
    OBVIOUS
  <1> DEFINE home == coord[i][0] % m
             q == m \div n
  <1>1. /\ Types /\ SeedInv /\ pc = "seed" /\ Take(i, home) /\ i' = (i + 1) % n
        /\ pc' = (IF i = n - 1 THEN "walk" ELSE "seed")
        /\ UNCHANGED <<input, prime, j, k>>
    BY Zenon DEF Seed, RInv
  <1>2. Robust /\ (alg = "RobustFib" \/ alg = "RobustSimple")
    BY <1>1, Zenon DEF Types, Robust
  <1>3. /\ alg' = alg /\ n' = n /\ coord' = coord /\ Backends' = Backends /\ Robust' /\ j' = j /\ k' = k
        /\ \A b : Home(b)' = Home(b)
    BY <1>1, <1>2 DEF input, Robust, Backends, Home
  <1>4. /\ n \in Nat \ {0} /\ m \in Nat \ {0} /\ i \in 0 .. n - 1 /\ i \in Backends
        /\ home = Home(i) /\ home \in Slots /\ q \in 1 .. m /\ m < Width /\ Width \in Nat \ {0}
    <2>1. i < n
      BY <1>1, Zenon DEF Types
    <2>2. i \in Backends
      BY <1>1, <2>1, RltTypes DEF Backends
    <2> QED
      BY <1>1, <2>1, <2>2, RltTypes DEF Home, Backends
  <1>5. /\ j = 0 /\ k = 0
        /\ \A s \in Slots \ unset : out[s] < i
        /\ \A b \in Backends : b < i => /\ distribution[b] = q - 1 /\ Home(b) \notin unset
                                        /\ Placed(b) = IF out[Home(b)] = b THEN {Home(b)} ELSE {}
        /\ \A b \in Backends : ~(b < i) => distribution[b] = q
    BY <1>1, Zenon DEF SeedInv
  <1> HIDE DEF home, q
  <1>6. ~(i < i) /\ distribution[i] = q
    BY <1>4, <1>5
  <1>7. /\ out' \in [Slots -> Backends] /\ out'[home] = i
        /\ \A x \in Slots : x # home => out'[x] = out[x]
        /\ unset' = unset \ {home} /\ unset' \subseteq Slots
        /\ M' \in [Backends -> Slots]
        /\ distribution' \in [Backends -> Nat] /\ distribution'[i] = q - 1
        /\ \A x \in Backends : x # i => distribution'[x] = distribution[x]
    <2>1. TakeResult(i, home)
      BY <1>1, <1>4, <1>6, TakeEffect, Zenon
    <2> QED
      BY <1>6, <2>1, Zenon DEF TakeResult
  <1>8. i' = (IF i = n - 1 THEN 0 ELSE i + 1) /\ i' \in 0 .. n /\ i' < n
    <2>1. i' = IF i = n - 1 THEN 0 ELSE i + 1
      BY <1>1, <1>4, NextBackend, Zenon
    <2> QED
      BY <1>4, <2>1
  <1>9. Types'
    <2>1. pc' \in {"seed", "walk"}
      BY <1>1, Zenon
    <2>2. /\ alg \in {"ReverseCoordinates", "RobustFib", "RobustSimple", "NaiveFib", "Simple"}
          /\ n \in 1 .. MaxBackends /\ coord \in [Backends -> [0 .. nCoordinates - 1 -> Coordinates]]
          /\ k \in Nat /\ j \in Nat
      BY <1>1, Zenon DEF Types
    <2> QED
      BY <1>2, <1>3, <1>7, <1>8, <2>1, <2>2, Zenon DEF Types
  <1>10. \A b \in Backends : b \in Nat /\ b < n /\ Home(b) \in Slots
    BY <1>1, <1>4, RltTypes DEF Backends
  <1>11. unset \subseteq Slots
    BY <1>1, Zenon DEF Types
  <1>12. \A s \in Slots \ unset' : out'[s] < i + 1
    <2> SUFFICES ASSUME NEW s \in Slots \ unset' PROVE out'[s] < i + 1
      OBVIOUS
    <2>1. CASE s = home
      BY <2>1, <1>4, <1>7
    <2>2. CASE s # home
      <3>1. s \in Slots \ unset /\ out'[s] = out[s]
        BY <2>2, <1>7
      <3>2. out[s] < i /\ out[s] \in Backends
        BY <3>1, <1>1, <1>5, Zenon DEF Types
      <3>3. out[s] \in Nat
        BY <3>2, <1>10
      <3> QED
        BY <3>1, <3>2, <3>3, <1>4
    <2> QED
      BY <2>1, <2>2
  <1>13. ASSUME NEW b \in Backends, b <= i
         PROVE /\ distribution'[b] = q - 1 /\ Home(b) \notin unset'
               /\ Placed(b)' = IF out'[Home(b)] = b THEN {Home(b)} ELSE {}
    <2>1. Placed(b)' = {s \in Slots \ unset' : out'[s] = b}
      BY Zenon DEF Placed
    <2>2. CASE b = i
      <3>1. \A s \in Slots \ unset' : s # home => out'[s] # i
        <4> SUFFICES ASSUME NEW s \in Slots \ unset', s # home PROVE out'[s] # i
          OBVIOUS
        <4>1. s \in Slots \ unset /\ out'[s] = out[s]
          BY <1>7
        <4>2. out[s] < i /\ out[s] \in Backends
          BY <4>1, <1>1, <1>5, Zenon DEF Types
        <4>3. out[s] \in Nat
          BY <4>2, <1>10
        <4> QED
          BY <4>1, <4>2, <4>3, <1>4
      <3>2. home \in Slots \ unset'
        BY <1>4, <1>7
      <3>3. {s \in Slots \ unset' : out'[s] = i} = {home}
        BY <3>1, <3>2, <1>7
      <3> QED
        BY <2>1, <2>2, <3>2, <3>3, <1>4, <1>7, Zenon
    <2>3. CASE b # i
      <3>1. b < i
        BY <2>3, <1>4, <1>10, <1>13
      <3>2. /\ distribution[b] = q - 1 /\ Home(b) \notin unset
            /\ Placed(b) = IF out[Home(b)] = b THEN {Home(b)} ELSE {}
        BY <3>1, <1>5, Zenon
      <3>3. distribution'[b] = q - 1 /\ Home(b) \notin unset'
        BY <2>3, <3>2, <1>7, Zenon
      <3>4. Placed(b)' = Placed(b) \ {home}
        BY <2>1, <2>3, <1>7 DEF Placed
      <3>5. CASE Home(b) = home
        <4>1. out'[Home(b)] # b
          BY <2>3, <3>5, <1>7, Zenon
        <4>2. Placed(b) \ {home} = {}
          BY <3>2, <3>5
        <4> QED
          BY <3>3, <3>4, <4>1, <4>2, Zenon
      <3>6. CASE Home(b) # home
        <4>1. out'[Home(b)] = out[Home(b)]
          BY <3>6, <1>7, <1>10, Zenon
        <4>2. Placed(b) \ {home} = Placed(b)
          BY <3>2, <3>6
        <4> QED
          BY <3>2, <3>3, <3>4, <4>1, <4>2, Zenon
      <3> QED
        BY <3>5, <3>6, Zenon
    <2> QED
      BY <2>2, <2>3, Zenon
  <1>14. FillInv' /\ StripeInv'
    BY <1>2, <1>3, Zenon DEF FillInv, StripeInv
  <1>15. CASE i # n - 1
    <2>1. pc' = "seed" /\ i' = i + 1
      BY <1>1, <1>8, <1>15, Zenon
    <2>2. QuotaAccounted' /\ WalkInv'
      BY <2>1, Zenon DEF QuotaAccounted, WalkInv
    <2>3. ASSUME NEW b \in Backends
          PROVE /\ b < i' => /\ distribution'[b] = q - 1 /\ Home(b) \notin unset'
                             /\ Placed(b)' = IF out'[Home(b)] = b THEN {Home(b)} ELSE {}
                /\ ~(b < i') => distribution'[b] = q
      <3>1. CASE b <= i
        <4>1. b < i'
          BY <3>1, <2>1, <1>4, <1>10
        <4> QED
          BY <3>1, <4>1, <1>13, Zenon
      <3>2. CASE ~(b <= i)
        <4>1. ~(b < i') /\ ~(b < i) /\ b # i
          BY <3>2, <2>1, <1>4, <1>10
        <4> QED
          BY <4>1, <1>5, <1>7, Zenon
      <3> QED
        BY <3>1, <3>2, Zenon
    <2>4. \A s \in Slots \ unset' : out'[s] < i'
      BY <1>12, <2>1, Zenon
    <2>5. SeedInv'
      BY <1>3, <1>5, <2>3, <2>4, Zenon DEF SeedInv, q
    <2> QED
      BY <1>9, <1>14, <2>2, <2>5, Zenon DEF RInv
  <1>16. CASE i = n - 1
    <2>1. pc' = "walk" /\ i' = 0
      BY <1>1, <1>8, <1>16, Zenon
    <2>2. SeedInv'
      BY <2>1, Zenon DEF SeedInv
    <2>3. ASSUME NEW b \in Backends
          PROVE /\ distribution'[b] = q - 1 /\ Home(b) \notin unset'
                /\ Cardinality(Placed(b)') \in 0 .. 1 /\ Lost(b)' \in 0 .. 1
                /\ Cardinality(Placed(b)') + Lost(b)' = 1
      <3>1. b <= i
        BY <1>4, <1>10, <1>16
      <3>2. /\ distribution'[b] = q - 1 /\ Home(b) \notin unset'
            /\ Placed(b)' = IF out'[Home(b)] = b THEN {Home(b)} ELSE {}
        BY <3>1, <1>13, Zenon
      <3>3. Lost(b)' = IF out'[Home(b)] # b THEN 1 ELSE 0
        BY <1>3, Zenon DEF Lost, Home
      <3>4. Cardinality(Placed(b)') = IF out'[Home(b)] = b THEN 1 ELSE 0
        BY <3>2, FS_EmptySet, FS_Singleton, Zenon
      <3> QED
        BY <3>2, <3>3, <3>4
    <2>4. QuotaAccounted'
      <3> SUFFICES ASSUME NEW b \in Backends
                   PROVE (distribution'[b] + Cardinality(Placed(b)') + Lost(b)') % Width = q
        BY <1>3, Zenon DEF QuotaAccounted, Backends, q
      <3>1. distribution'[b] + Cardinality(Placed(b)') + Lost(b)' = q
        BY <2>3, <1>4
      <3>2. q \in 0 .. Width - 1
        BY <1>4
      <3> QED
        BY <3>1, <3>2, <1>4, SmallRemainder, Zenon
    <2>5. \A b \in Backends : Had(b)' = 1 /\ distribution'[b] + Had(b)' = q
      <3> SUFFICES ASSUME NEW b \in Backends PROVE Had(b)' = 1 /\ distribution'[b] + Had(b)' = q
        OBVIOUS
      <3>1. Had(b)' = 1
        BY <2>3, Zenon DEF Had
      <3> QED
        BY <3>1, <2>3, <1>4
    <2>6. alg = "RobustFib" =>
            /\ j' \in 0 .. Len(fib) /\ j' # Len(fib) /\ k' < fib[j' + 1]
            /\ \A b \in Backends : Rounds(b)' = 1
      <3>1. j' = 0 /\ k' = 0 /\ Reached[0] = 1 /\ fib[0 + 1] \in Nat \ {0} /\ Len(fib) = 19
        <4>1. 0 \in 0 .. 18
          OBVIOUS
        <4> QED
          BY <4>1, <1>3, <1>5, ReachedSteps, FibLength, Zenon
      <3>2. ASSUME NEW b \in Backends PROVE Rounds(b)' = 1
        <4>1. ~(b < i')
          BY <2>1, <1>10
        <4>2. Rounds(b)' = IF b = i' THEN Reached[j'] + k' ELSE Reached[j']
          BY <4>1, Zenon DEF Rounds
        <4> QED
          BY <3>1, <4>2
      <3>3. j' \in 0 .. Len(fib) /\ j' # Len(fib) /\ k' < fib[j' + 1]
        BY <3>1
      <3> QED
        BY <3>2, <3>3, Zenon
    <2>7. WalkInv'
      BY <1>2, <1>3, <1>5, <2>1, <2>3, <2>5, <2>6, Zenon DEF WalkInv, q
    <2> QED
      BY <1>9, <1>14, <2>2, <2>4, <2>7, Zenon DEF RInv
  <1> QED
    BY <1>15, <1>16, Zenon

LEMMA HadTypes == \A b : Had(b) \in Nat /\ Cardinality(Placed(b)) \in Nat /\ Lost(b) \in Nat
  <1> SUFFICES ASSUME NEW b
               PROVE Had(b) \in Nat /\ Cardinality(Placed(b)) \in Nat /\ Lost(b) \in Nat
    OBVIOUS
  <1>1. Cardinality(Placed(b)) \in 0 .. m
    BY PlacedTypes, Zenon
  <1>2. Lost(b) = 0 \/ Lost(b) = 1
    BY Zenon DEF Lost
  <1> QED
    BY <1>1, <1>2, RltAssumption DEF Had

\* A free slot goes to a backend: it has had one more, and nobody's first slot is lost.
LEMMA FreeTaken ==
  ASSUME Types, Robust, UNCHANGED <<alg, coord, n>>, \A b \in Backends : Home(b) \notin unset,
         NEW a \in Backends, NEW s \in unset,
         out'[s] = a, \A x \in Slots : x # s => out'[x] = out[x], unset' = unset \ {s}
  PROVE /\ \A b \in Backends : /\ b = a => Had(b)' = Had(b) + 1
                               /\ b # a => Had(b)' = Had(b)
        /\ \A b \in Backends : Home(b)' \notin unset'
  <1>1. unset \in SUBSET Slots /\ \A b \in Backends : Home(b) \in Slots
    BY RltTypes, Zenon DEF Types
  <1>2. \A b : Home(b)' = Home(b)
    BY Zenon DEF Home
  <1>3. Robust'
    BY Zenon DEF Robust
  <1>4. \A b : /\ b = a => Cardinality(Placed(b)') = Cardinality(Placed(b)) + 1
               /\ b # a => Placed(b)' = Placed(b)
    <2>1. Gives(out, out', {s}, a)
      BY <1>1 DEF Gives
    <2>2. {s} \in SUBSET unset /\ Cardinality({s}) = 1
      BY FS_Singleton, Zenon
    <2> QED
      BY <1>1, <2>1, <2>2, TakeStep, ZenonT(30)
  <1>5. \A b \in Backends : Lost(b)' = Lost(b)
    <2> SUFFICES ASSUME NEW b \in Backends PROVE Lost(b)' = Lost(b)
      OBVIOUS
    <2>1. out'[Home(b)] = out[Home(b)]
      BY <1>1, Zenon
    <2>2. Lost(b) = (IF out[Home(b)] # b THEN 1 ELSE 0) /\ Lost(b)' = (IF out'[Home(b)] # b THEN 1 ELSE 0)
      BY <1>2, <1>3, Zenon DEF Lost, Home
    <2> QED
      BY <2>1, <2>2, Zenon
  <1>6. ASSUME NEW b \in Backends
        PROVE (b = a => Had(b)' = Had(b) + 1) /\ (b # a => Had(b)' = Had(b))
    <2>1. Had(b) = Cardinality(Placed(b)) + Lost(b) /\ Had(b)' = Cardinality(Placed(b)') + Lost(b)
      BY <1>5, Zenon DEF Had
    <2>2. Cardinality(Placed(b)) \in Nat /\ Lost(b) \in Nat
      BY HadTypes
    <2>3. CASE b = a
      <3>1. Cardinality(Placed(b)') = Cardinality(Placed(b)) + 1
        BY <2>3, <1>4, Zenon
      <3> QED
        BY <2>1, <2>2, <2>3, <3>1, SMTT(30)
    <2>4. CASE b # a
      BY <2>1, <2>4, <1>4, Zenon
    <2> QED
      BY <2>3, <2>4, Zenon
  <1>7. \A b \in Backends : Home(b)' \notin unset'
    BY <1>2, Zenon
  <1> QED
    BY <1>6, <1>7, Zenon

\* What a backend's turn in Walk changes: nothing, or it has one slot more.
WalkResult ==
  /\ out' \in [Slots -> Backends] /\ unset' \subseteq Slots /\ M' \in [Backends -> Slots]
  /\ distribution' \in [Backends -> Nat]
  /\ \A b \in Backends : Home(b)' \notin unset'
  /\ \A b \in Backends : b # i => distribution'[b] = distribution[b] /\ Had(b)' = Had(b)
  /\ \A b \in Backends : b = i =>
       \/ distribution[b] = 0 /\ distribution'[b] = 0 /\ Had(b)' = Had(b)
       \/ /\ distribution[b] > 0 /\ distribution'[b] = distribution[b] - 1
          /\ Had(b)' = Had(b) + 1

LEMMA WalkTakes ==
  RInv /\ Walk => WalkResult
  <1> SUFFICES ASSUME RInv, Walk PROVE WalkResult
    OBVIOUS
  <1>1. /\ Types /\ WalkInv /\ pc = "walk" /\ UNCHANGED <<input, pc, prime>>
        /\ IF distribution[i] < 1 THEN UNCHANGED <<out, unset, M, distribution>>
           ELSE unset # {} /\ Take(i, NextFree(M[i]))
    BY Zenon DEF Walk, RInv
  <1>2. Robust /\ UNCHANGED <<alg, coord, n>>
    BY <1>1, Zenon DEF Types, Robust, input
  <1>3. /\ \A b \in Backends : Home(b) \notin unset
        /\ \A b \in Backends : distribution[b] + Had(b) = m \div n
    BY <1>1, <1>2, Zenon DEF WalkInv
  <1>4. i \in Backends
    <2>1. i < n
      BY <1>1, Zenon DEF Types
    <2> QED
      BY <1>1, <2>1, RltTypes DEF Backends
  <1>5. /\ out \in [Slots -> Backends] /\ unset \subseteq Slots /\ M \in [Backends -> Slots]
        /\ distribution \in [Backends -> Nat] /\ distribution[i] \in Nat
    BY <1>1, <1>4, Zenon DEF Types
  <1>6. CASE distribution[i] < 1
    <2>1. distribution[i] = 0
      BY <1>5, <1>6
    <2>2. unset' = unset /\ out' = out /\ M' = M /\ distribution' = distribution
      BY <1>1, <1>6, Zenon
    <2>3. \A b : Had(b)' = Had(b) /\ Home(b)' = Home(b)
      BY <1>2, <2>2, Zenon DEF Had, Home, Lost, Placed, Robust
    <2> QED
      BY <1>3, <1>5, <2>1, <2>2, <2>3, Zenon DEF WalkResult
  <1>7. CASE ~(distribution[i] < 1)
    <2> DEFINE s == NextFree(M[i])
    <2>1. unset # {} /\ Take(i, s)
      BY <1>1, <1>7, Zenon
    <2>2. s \in unset
      BY <2>1, <1>4, <1>5, FreeSlot, Zenon DEF NextFree
    <2> HIDE DEF s
    <2>3. distribution[i] \in 1 .. m /\ distribution[i] > 0
      <3>1. Had(i) \in Nat /\ m \div n \in 1 .. m /\ m \in Nat
        BY <1>1, HadTypes, RltTypes
      <3>2. distribution[i] + Had(i) = m \div n
        BY <1>3, <1>4, Zenon
      <3> QED
        BY <1>5, <1>7, <3>1, <3>2
    <2>4. TakeResult(i, s)
      BY <1>1, <1>4, <1>5, <2>1, <2>2, <2>3, TakeEffect, Zenon
    <2>5. /\ \A b \in Backends : (b = i => Had(b)' = Had(b) + 1) /\ (b # i => Had(b)' = Had(b))
          /\ \A b \in Backends : Home(b)' \notin unset'
      <3>1. out'[s] = i /\ (\A x \in Slots : x # s => out'[x] = out[x]) /\ unset' = unset \ {s}
        BY <2>4, Zenon DEF TakeResult
      <3> QED
        BY <3>1, <1>1, <1>2, <1>3, <1>4, <2>2, FreeTaken, ZenonT(30)
    <2> QED
      BY <2>3, <2>4, <2>5, Zenon DEF WalkResult, TakeResult
  <1> QED
    BY <1>6, <1>7, Zenon

\* The turn passes within the round, or to the next one.
LEMMA WalkTurn ==
  RInv /\ Walk =>
    /\ alg' = alg /\ n' = n /\ coord' = coord /\ pc = "walk" /\ pc' = pc /\ Robust
    /\ n \in Nat \ {0} /\ i \in 0 .. n - 1 /\ i' \in 0 .. n - 1 /\ j \in Nat /\ k \in Nat /\ j' \in Nat /\ k' \in Nat
    /\ \/ distribution'[i] > 0 /\ k + 1 < Chunk /\ k' = k + 1 /\ i' = i /\ j' = j
       \/ /\ ~(distribution'[i] > 0 /\ k + 1 < Chunk) /\ k' = 0
          /\ i # n - 1 => i' = i + 1 /\ j' = j
          /\ i = n - 1 => i' = 0 /\ j' = IF alg = "RobustFib" THEN j + 1 ELSE j
  <1> SUFFICES ASSUME RInv, Walk
               PROVE /\ alg' = alg /\ n' = n /\ coord' = coord /\ pc = "walk" /\ pc' = pc /\ Robust
                     /\ n \in Nat \ {0} /\ i \in 0 .. n - 1 /\ i' \in 0 .. n - 1
                     /\ j \in Nat /\ k \in Nat /\ j' \in Nat /\ k' \in Nat
                     /\ \/ distribution'[i] > 0 /\ k + 1 < Chunk /\ k' = k + 1 /\ i' = i /\ j' = j
                        \/ /\ ~(distribution'[i] > 0 /\ k + 1 < Chunk) /\ k' = 0
                           /\ i # n - 1 => i' = i + 1 /\ j' = j
                           /\ i = n - 1 => i' = 0 /\ j' = IF alg = "RobustFib" THEN j + 1 ELSE j
    BY Zenon
  <1>1. /\ Types /\ pc = "walk" /\ UNCHANGED <<input, pc, prime>>
        /\ IF distribution'[i] > 0 /\ k + 1 < Chunk
           THEN k' = k + 1 /\ UNCHANGED <<i, j>>
           ELSE k' = 0 /\ i' = (i + 1) % n /\ j' = IF i = n - 1 /\ alg = "RobustFib" THEN j + 1 ELSE j
    BY Zenon DEF Walk, RInv
  <1>2. alg' = alg /\ n' = n /\ coord' = coord /\ pc' = pc /\ Robust
    BY <1>1, Zenon DEF Types, Robust, input
  <1>3. n \in Nat \ {0} /\ i \in 0 .. n - 1 /\ j \in Nat /\ k \in Nat
    <2>1. i < n /\ j \in Nat /\ k \in Nat
      BY <1>1, Zenon DEF Types
    <2> QED
      BY <1>1, <2>1, RltTypes
  <1>4. (i + 1) % n = IF i = n - 1 THEN 0 ELSE i + 1
    BY <1>3, NextBackend, Zenon
  <1>5. CASE distribution'[i] > 0 /\ k + 1 < Chunk
    <2>1. k' = k + 1 /\ i' = i /\ j' = j
      BY <1>1, <1>5, Zenon
    <2>2. i' \in 0 .. n - 1 /\ j' \in Nat /\ k' \in Nat
      BY <1>3, <2>1
    <2> QED
      BY <1>1, <1>2, <1>3, <1>5, <2>1, <2>2, Zenon
  <1>6. CASE ~(distribution'[i] > 0 /\ k + 1 < Chunk)
    <2>1. k' = 0 /\ i' = (IF i = n - 1 THEN 0 ELSE i + 1)
          /\ j' = IF i = n - 1 /\ alg = "RobustFib" THEN j + 1 ELSE j
      BY <1>1, <1>4, <1>6, Zenon
    <2>2. i' \in 0 .. n - 1 /\ j' \in Nat /\ k' \in Nat
      BY <1>3, <2>1
    <2>3. /\ i # n - 1 => i' = i + 1 /\ j' = j
          /\ i = n - 1 => i' = 0 /\ j' = IF alg = "RobustFib" THEN j + 1 ELSE j
      BY <2>1, Zenon
    <2> QED
      BY <1>1, <1>2, <1>3, <1>6, <2>1, <2>2, <2>3, Zenon
  <1> QED
    BY <1>5, <1>6, Zenon

\* A turn of RobustFib keeps to the rounds.
LEMMA FibTurn ==
  ASSUME RInv, Walk, alg = "RobustFib"
  PROVE /\ j' \in 0 .. Len(fib)
        /\ j' = Len(fib) => i' = 0 /\ k' = 0
        /\ j' # Len(fib) => k' < fib[j' + 1]
        /\ \A b \in Backends : distribution'[b] = 0 \/ Had(b)' = Rounds(b)'
  <1> DEFINE F == fib[j + 1]
             A == Reached[j]
             B == Reached[j + 1]
  <1>1. Types /\ WalkInv /\ pc = "walk" /\ ~WalkOver
    BY Zenon DEF RInv, Walk
  <1>2. j \in 0 .. Len(fib) /\ j # Len(fib) /\ k < F
    BY <1>1, Zenon DEF WalkInv, WalkOver
  <1>3. j \in 0 .. 18 /\ j \in 0 .. 19 /\ j + 1 \in 0 .. 19 /\ Len(fib) = 19
    BY <1>2, FibLength
  <1>4. F \in Nat \ {0} /\ A \in Nat /\ B \in Nat /\ B = A + F
    BY <1>3, ReachedSteps, Zenon
  <1> HIDE DEF F, A, B
  <1>5. Chunk = F
    BY Zenon DEF Chunk, F
  <1>6. /\ n \in Nat \ {0} /\ i \in 0 .. n - 1 /\ i' \in 0 .. n - 1 /\ k \in Nat /\ k' \in Nat
        /\ \/ distribution'[i] > 0 /\ k + 1 < F /\ k' = k + 1 /\ i' = i /\ j' = j
           \/ /\ ~(distribution'[i] > 0 /\ k + 1 < F) /\ k' = 0
              /\ i # n - 1 => i' = i + 1 /\ j' = j
              /\ i = n - 1 => i' = 0 /\ j' = j + 1
    BY <1>5, WalkTurn, Zenon
  <1>7. WalkResult
    BY WalkTakes, Zenon
  <1>8. j' \in 0 .. Len(fib) /\ (j' = Len(fib) => i' = 0 /\ k' = 0)
    BY <1>3, <1>6
  <1>9. j' # Len(fib) => k' < fib[j' + 1]
    <2>1. CASE j' = j
      <3>1. k' < F
        BY <1>2, <1>4, <1>6
      <3> QED
        BY <2>1, <3>1, Zenon DEF F
    <2>2. CASE j' # j
      <3>1. k' = 0 /\ (j' # Len(fib) => j' \in 0 .. 18)
        BY <2>2, <1>3, <1>6
      <3>2. j' # Len(fib) => fib[j' + 1] \in Nat \ {0}
        BY <3>1, ReachedSteps, Zenon
      <3> QED
        BY <3>1, <3>2
    <2> QED
      BY <2>1, <2>2, Zenon
  <1>10. ASSUME NEW b \in Backends, distribution'[b] # 0 PROVE Had(b)' = Rounds(b)'
    <2> DEFINE had == Had(b)
               has == Had(b)'
               amount == distribution[b]
               left == distribution'[b]
    <2>1. /\ b \in 0 .. n - 1 /\ had \in Nat /\ amount \in Nat /\ left \in Nat
      <3>1. amount \in Nat
        BY <1>1, Zenon DEF Types
      <3>2. left \in Nat
        BY <1>7, Zenon DEF WalkResult
      <3> QED
        BY <3>1, <3>2, HadTypes, Zenon DEF Backends
    <2>2. amount = 0 \/ had = (IF b < i THEN B ELSE IF b = i THEN A + k ELSE A)
      BY <1>1, Zenon DEF WalkInv, Rounds, A, B
    <2>3. /\ b # i => left = amount /\ has = had
          /\ b = i => (amount = 0 /\ left = 0) \/ (amount > 0 /\ left = amount - 1 /\ has = had + 1)
      BY <1>7, Zenon DEF WalkResult
    <2>4. Had(b)' = has /\ left # 0 /\ (b = i => left = distribution'[i])
      BY <1>10, Zenon
    <2>5. CASE j' = j
      <3>1. Rounds(b)' = IF b < i' THEN B ELSE IF b = i' THEN A + k' ELSE A
        BY <2>5, Zenon DEF Rounds, A, B
      <3> HIDE DEF had, has, amount, left
      <3>2. CASE b < i
        BY <1>3, <1>4, <1>6, <2>1, <2>2, <2>3, <2>4, <2>5, <3>1, <3>2, SMTT(30)
      <3>3. CASE b = i
        BY <1>2, <1>3, <1>4, <1>6, <2>1, <2>2, <2>3, <2>4, <2>5, <3>1, <3>3, SMTT(30)
      <3>4. CASE b > i
        BY <1>3, <1>4, <1>6, <2>1, <2>2, <2>3, <2>4, <2>5, <3>1, <3>4, SMTT(30)
      <3> QED
        BY <3>2, <3>3, <3>4, <1>6, <2>1
    <2>6. CASE j' # j
      <3>1. i = n - 1 /\ i' = 0 /\ k' = 0 /\ j' = j + 1 /\ ~(distribution'[i] > 0 /\ k + 1 < F)
        BY <1>3, <1>6, <2>6
      <3>2. ~(b < i')
        BY <2>1, <3>1
      <3>3. Rounds(b)' = IF b = i' THEN B + k' ELSE B
        BY <3>1, <3>2, Zenon DEF Rounds, B
      <3> HIDE DEF had, has, amount, left
      <3>4. has = B
        <4>1. CASE b = i
          BY <1>2, <1>4, <1>6, <2>1, <2>2, <2>3, <2>4, <3>1, <4>1, SMTT(30)
        <4>2. CASE b # i
          BY <1>4, <1>6, <2>1, <2>2, <2>3, <2>4, <3>1, <4>2
        <4> QED
          BY <4>1, <4>2, Zenon
      <3> QED
        BY <1>4, <2>4, <3>1, <3>3, <3>4
    <2> QED
      BY <2>5, <2>6, Zenon
  <1> QED
    BY <1>8, <1>9, <1>10, Zenon

LEMMA WalkStep == RInv /\ Walk => RInv'
  <1> SUFFICES ASSUME RInv, Walk PROVE RInv'
    OBVIOUS
  <1> DEFINE q == m \div n
  <1>1. Types /\ WalkInv /\ WalkResult
    BY WalkTakes, Zenon DEF RInv
  <1>2. /\ alg' = alg /\ n' = n /\ coord' = coord /\ pc' = "walk" /\ pc = "walk" /\ Robust
        /\ n \in Nat \ {0} /\ i \in 0 .. n - 1 /\ i' \in 0 .. n - 1 /\ k \in Nat /\ j' \in Nat /\ k' \in Nat
        /\ (k' = 0 \/ (k' = k + 1 /\ k + 1 < Chunk))
    BY WalkTurn, Zenon
  <1>3. Backends' = Backends /\ Robust' /\ q' = q
    BY <1>2 DEF Backends, Robust
  <1>4. i' \in 0 .. n /\ i' < n
    BY <1>2
  <1>5. Types'
    <2>1. /\ alg \in {"ReverseCoordinates", "RobustFib", "RobustSimple", "NaiveFib", "Simple"}
          /\ n \in 1 .. MaxBackends /\ coord \in [Backends -> [0 .. nCoordinates - 1 -> Coordinates]]
          /\ pc \in IF alg = "ReverseCoordinates" THEN {"place", "fill", "done"}
                    ELSE IF Robust THEN {"seed", "walk", "deal", "done"} ELSE {"stripe", "done"}
      BY <1>1, Zenon DEF Types
    <2> QED
      BY <1>1, <1>2, <1>3, <1>4, <2>1, Zenon DEF Types, WalkResult
  <1>6. q \in 1 .. m /\ m < Width /\ Width \in Nat \ {0} /\ m \in Nat
    BY <1>1, RltTypes
  <1> HIDE DEF q
  <1>7. ASSUME NEW b \in Backends PROVE distribution'[b] + Had(b)' = q /\ distribution'[b] \in Nat
    <2>1. distribution[b] + Had(b) = q /\ distribution[b] \in Nat
      BY <1>1, <1>2, Zenon DEF WalkInv, Types, q
    <2>2. Had(b) \in Nat /\ distribution'[b] \in Nat
      BY <1>1, HadTypes, Zenon DEF WalkResult
    <2>3. /\ b # i => distribution'[b] = distribution[b] /\ Had(b)' = Had(b)
          /\ b = i => \/ distribution[b] = 0 /\ distribution'[b] = 0 /\ Had(b)' = Had(b)
                      \/ /\ distribution[b] > 0 /\ distribution'[b] = distribution[b] - 1
                         /\ Had(b)' = Had(b) + 1
      BY <1>1, Zenon DEF WalkResult
    <2> QED
      BY <2>1, <2>2, <2>3, SMTT(30)
  <1>8. QuotaAccounted'
    <2> SUFFICES ASSUME NEW b \in Backends
                 PROVE (distribution'[b] + Cardinality(Placed(b)') + Lost(b)') % Width = q
      BY <1>2, <1>3, Zenon DEF QuotaAccounted, Backends, q
    <2>1. Cardinality(Placed(b)') \in Nat /\ Lost(b)' \in Nat
      <3>1. Placed(b)' \in SUBSET Slots
        BY Zenon DEF Placed
      <3>2. Cardinality(Placed(b)') \in 0 .. m
        BY <3>1, SlotsFinite, Zenon
      <3>3. Lost(b)' = 0 \/ Lost(b)' = 1
        BY Zenon DEF Lost
      <3> QED
        BY <1>6, <3>2, <3>3
    <2>2. Had(b)' = Cardinality(Placed(b)') + Lost(b)'
      BY Zenon DEF Had
    <2>3. distribution'[b] + Cardinality(Placed(b)') + Lost(b)' = q
      BY <1>7, <2>1, <2>2
    <2>4. q \in 0 .. Width - 1
      BY <1>6
    <2> QED
      BY <2>3, <2>4, <1>6, SmallRemainder, Zenon
  <1>9. WalkInv'
    <2>1. alg = "RobustFib" => /\ j' \in 0 .. Len(fib)
                               /\ j' = Len(fib) => i' = 0 /\ k' = 0
                               /\ j' # Len(fib) => k' < fib[j' + 1]
                               /\ \A b \in Backends : distribution'[b] = 0 \/ Had(b)' = Rounds(b)'
      BY FibTurn, Zenon
    <2>2. alg = "RobustSimple" => k' = 0
      <3>1. alg = "RobustSimple" => Chunk = 1
        BY Zenon DEF Chunk
      <3> QED
        BY <3>1, <1>2
    <2>3. \A b \in Backends : Home(b)' \notin unset'
      BY <1>1, Zenon DEF WalkResult
    <2>4. \A b \in Backends : distribution'[b] + Had(b)' = (m \div n)'
      BY <1>3, <1>7, Zenon DEF q
    <2> QED
      BY <1>2, <1>3, <2>1, <2>2, <2>3, <2>4, Zenon DEF WalkInv
  <1>10. FillInv' /\ SeedInv' /\ StripeInv'
    BY <1>2, <1>3, Zenon DEF FillInv, SeedInv, StripeInv, Robust
  <1> QED
    BY <1>5, <1>8, <1>9, <1>10, Zenon DEF RInv

LEMMA LesserShare ==
  \A a, b \in Nat : Min({a, b}) <= a /\ Min({a, b}) <= b
  <1> SUFFICES ASSUME NEW a \in Nat, NEW b \in Nat PROVE Min({a, b}) <= a /\ Min({a, b}) <= b
    OBVIOUS
  <1>1. {a, b} \in SUBSET Nat /\ {a, b} # {} /\ a \in {a, b} /\ b \in {a, b}
    OBVIOUS
  <1> QED
    BY <1>1, LeastOf, Zenon

LEMMA ShareType == Types => Share \in Nat
  <1> SUFFICES ASSUME Types PROVE Share \in Nat
    OBVIOUS
  <1>1. m \div n \in Nat
    BY RltTypes
  <1>2. Reached[Len(fib)] \in Nat
    <2>1. Len(fib) \in 0 .. 19
      BY FibLength
    <2> QED
      BY <2>1, ReachedSteps, Zenon
  <1>3. Min({m \div n, Reached[Len(fib)]}) \in {m \div n, Reached[Len(fib)]}
    <2>1. {m \div n, Reached[Len(fib)]} \in SUBSET Nat /\ {m \div n, Reached[Len(fib)]} # {}
      BY <1>1, <1>2, Zenon
    <2> QED
      BY <2>1, LeastOf, Zenon
  <1> QED
    BY <1>1, <1>2, <1>3, Zenon DEF Share

LEMMA WalkEndStep == RInv /\ WalkEnd => RInv'
  <1> SUFFICES ASSUME RInv, WalkEnd PROVE RInv'
    OBVIOUS
  <1> DEFINE q == m \div n
  <1>1. /\ Types /\ WalkInv /\ pc = "walk" /\ WalkOver /\ pc' = "deal" /\ i' = 0 /\ k' = 0
        /\ UNCHANGED <<input, prime, j, M, unset, out, distribution>>
    BY Zenon DEF WalkEnd, RInv
  <1>2. Robust /\ (alg = "RobustFib" \/ alg = "RobustSimple")
    BY <1>1, Zenon DEF Types, Robust
  <1>3. /\ alg' = alg /\ n' = n /\ coord' = coord /\ Backends' = Backends /\ Robust'
        /\ j' = j /\ M' = M /\ unset' = unset /\ out' = out /\ distribution' = distribution
    BY <1>1, <1>2 DEF input, Robust, Backends
  <1>4. \A b : Had(b)' = Had(b) /\ Home(b)' = Home(b)
    BY <1>3, Zenon DEF Had, Home, Lost, Placed, Robust
  <1>5. n \in Nat \ {0} /\ q \in 1 .. m /\ m \in Nat /\ \A b \in Backends : b \in Nat
    BY <1>1, RltTypes
  <1>6. 0 \in 0 .. n /\ 0 \in Nat /\ 0 <= 0
    BY <1>5
  <1>7. Types'
    <2>1. /\ alg \in {"ReverseCoordinates", "RobustFib", "RobustSimple", "NaiveFib", "Simple"}
          /\ n \in 1 .. MaxBackends /\ coord \in [Backends -> [0 .. nCoordinates - 1 -> Coordinates]]
          /\ M \in [Backends -> Slots] /\ j \in Nat /\ distribution \in [Backends -> Nat]
          /\ unset \subseteq Slots /\ out \in [Slots -> Backends]
      BY <1>1, Zenon DEF Types
    <2> QED
      BY <1>1, <1>2, <1>3, <1>6, <2>1, Zenon DEF Types
  <1> HIDE DEF q
  <1>8. ASSUME NEW b \in Backends PROVE Had(b) >= Share
    <2>1. distribution[b] + Had(b) = q /\ distribution[b] \in Nat /\ Had(b) \in Nat
      BY <1>1, HadTypes, Zenon DEF WalkInv, Types, q
    <2>2. Reached[Len(fib)] \in Nat
      <3>1. Len(fib) \in 0 .. 19
        BY FibLength
      <3> QED
        BY <3>1, ReachedSteps, Zenon
    <2>3. Share = IF alg = "RobustFib" THEN Min({q, Reached[Len(fib)]}) ELSE q
      BY Zenon DEF Share, q
    <2>4. Min({q, Reached[Len(fib)]}) <= q /\ Min({q, Reached[Len(fib)]}) <= Reached[Len(fib)]
      BY <1>5, <2>2, LesserShare
    <2>5. CASE distribution[b] = 0
      BY <2>1, <2>3, <2>4, <2>5, <1>5
    <2>6. CASE distribution[b] # 0
      <3>1. isNotFullyDistributed(distribution)
        <4>1. distribution[b] > 0 /\ b \in DOMAIN distribution
          BY <1>1, <2>1, <2>6 DEF Types
        <4> QED
          BY <4>1, Zenon DEF isNotFullyDistributed
      <3>2. alg = "RobustFib" /\ j = Len(fib)
        BY <1>1, <3>1, Zenon DEF WalkOver
      <3>3. i = 0 /\ k = 0 /\ Had(b) = Rounds(b)
        BY <1>1, <2>6, <3>2, Zenon DEF WalkInv
      <3>4. ~(b < i)
        BY <1>5, <3>3
      <3>5. Rounds(b) = IF b = i THEN Reached[j] + k ELSE Reached[j]
        BY <3>4, Zenon DEF Rounds
      <3>6. Had(b) = Reached[Len(fib)]
        BY <2>2, <3>2, <3>3, <3>5
      <3> QED
        BY <2>2, <2>3, <2>4, <3>2, <3>6, Zenon
    <2> QED
      BY <2>5, <2>6, Zenon
  <1>9. Share' = Share
    BY <1>3, Zenon DEF Share
  <1>10. WalkInv'
    <2>1. \A b \in Backends : Home(b) \notin unset
      BY <1>1, <1>2, Zenon DEF WalkInv
    <2> QED
      BY <1>1, <1>3, <1>4, <1>6, <1>8, <1>9, <2>1, Zenon DEF WalkInv
  <1>11. QuotaAccounted' /\ FillInv' /\ SeedInv' /\ StripeInv'
    BY <1>1, <1>2, <1>3, Zenon DEF QuotaAccounted, FillInv, SeedInv, StripeInv
  <1> QED
    BY <1>7, <1>10, <1>11, Zenon DEF RInv

LEMMA DealStep == RInv /\ Deal => RInv'
  <1> SUFFICES ASSUME RInv, Deal PROVE RInv'
    OBVIOUS
  <1>1. /\ Types /\ WalkInv /\ pc = "deal" /\ i < n /\ i' = i + 1
        /\ IF i \in unset THEN out' = [out EXCEPT ![i] = k] /\ unset' = unset \ {i} /\ k' = k + 1
           ELSE UNCHANGED <<out, unset, k>>
        /\ UNCHANGED <<input, pc, prime, j, M, distribution>>
    BY Zenon DEF Deal, RInv
  <1>2. Robust /\ (alg = "RobustFib" \/ alg = "RobustSimple")
    BY <1>1, Zenon DEF Types, Robust
  <1>3. /\ alg' = alg /\ n' = n /\ coord' = coord /\ Backends' = Backends /\ Robust' /\ pc' = "deal"
        /\ j' = j /\ M' = M /\ distribution' = distribution
    BY <1>1, <1>2 DEF input, Robust, Backends
  <1>4. /\ k <= i /\ k \in Nat
        /\ \A b \in Backends : Home(b) \notin unset /\ Had(b) >= Share
    BY <1>1, <1>2, Zenon DEF WalkInv, Types
  <1>5. n \in Nat \ {0} /\ i \in Nat /\ i' \in 0 .. n /\ k \in Backends
    BY <1>1, <1>4, RltTypes DEF Backends
  <1>6. unset \in SUBSET Slots /\ out \in [Slots -> Backends]
    BY <1>1, Zenon DEF Types
  <1>7. /\ out' \in [Slots -> Backends] /\ unset' \subseteq Slots /\ k' \in Nat /\ k' <= i'
        /\ \A b \in Backends : Home(b)' \notin unset'
        /\ \A b \in Backends : Had(b)' = Had(b) \/ Had(b)' = Had(b) + 1
    <2>1. CASE i \in unset
      <3>1. out' = [out EXCEPT ![i] = k] /\ unset' = unset \ {i} /\ k' = k + 1
        BY <1>1, <2>1, Zenon
      <3>2. /\ out' \in [Slots -> Backends] /\ out'[i] = k
            /\ \A x \in Slots : x # i => out'[x] = out[x]
        BY <1>5, <1>6, <2>1, <3>1
      <3>3. /\ \A b \in Backends : (b = k => Had(b)' = Had(b) + 1) /\ (b # k => Had(b)' = Had(b))
            /\ \A b \in Backends : Home(b)' \notin unset'
        <4>1. UNCHANGED <<alg, coord, n>> /\ \A b \in Backends : Home(b) \notin unset
          BY <1>3, <1>4, Zenon
        <4> QED
          BY <4>1, <1>1, <1>2, <1>5, <2>1, <3>1, <3>2, FreeTaken, ZenonT(30)
      <3>4. k' \in Nat /\ k' <= i'
        BY <1>1, <1>4, <1>5, <3>1
      <3>5. unset' \subseteq Slots
        BY <1>6, <3>1, Zenon
      <3> QED
        BY <3>2, <3>3, <3>4, <3>5, Zenon
    <2>2. CASE i \notin unset
      <3>1. out' = out /\ unset' = unset /\ k' = k
        BY <1>1, <2>2, Zenon
      <3>2. \A b : Had(b)' = Had(b) /\ Home(b)' = Home(b)
        BY <1>3, <3>1, Zenon DEF Had, Home, Lost, Placed, Robust
      <3>3. k <= i + 1
        BY <1>4, <1>5
      <3> QED
        BY <1>1, <1>4, <1>6, <3>1, <3>2, <3>3, Zenon
    <2> QED
      BY <2>1, <2>2, Zenon
  <1>8. Types'
    <2>1. /\ alg \in {"ReverseCoordinates", "RobustFib", "RobustSimple", "NaiveFib", "Simple"}
          /\ n \in 1 .. MaxBackends /\ coord \in [Backends -> [0 .. nCoordinates - 1 -> Coordinates]]
          /\ M \in [Backends -> Slots] /\ j \in Nat /\ distribution \in [Backends -> Nat]
      BY <1>1, Zenon DEF Types
    <2> QED
      BY <1>2, <1>3, <1>5, <1>7, <2>1, Zenon DEF Types
  <1>9. Share' = Share
    BY <1>3, Zenon DEF Share
  <1>10. ASSUME NEW b \in Backends PROVE Had(b)' >= Share
    <2>1. Had(b) >= Share /\ (Had(b)' = Had(b) \/ Had(b)' = Had(b) + 1) /\ Had(b) \in Nat
      BY <1>4, <1>7, HadTypes, Zenon
    <2>2. Share \in Int
      BY <1>1, ShareType
    <2> QED
      BY <2>1, <2>2
  <1>11. WalkInv'
    BY <1>3, <1>7, <1>9, <1>10, Zenon DEF WalkInv
  <1>12. QuotaAccounted' /\ FillInv' /\ SeedInv' /\ StripeInv'
    BY <1>2, <1>3, Zenon DEF QuotaAccounted, FillInv, SeedInv, StripeInv
  <1> QED
    BY <1>8, <1>11, <1>12, Zenon DEF RInv

LEMMA DealEndStep == RInv /\ DealEnd => RInv'
  <1> SUFFICES ASSUME RInv, DealEnd PROVE RInv'
    OBVIOUS
  <1>1. /\ Types /\ WalkInv /\ pc = "deal" /\ pc' = "done"
        /\ UNCHANGED <<input, prime, i, j, k, M, unset, out, distribution>>
    BY Zenon DEF DealEnd, RInv
  <1>2. Robust /\ (alg = "RobustFib" \/ alg = "RobustSimple")
    BY <1>1, Zenon DEF Types, Robust
  <1>3. /\ alg' = alg /\ n' = n /\ coord' = coord /\ Backends' = Backends /\ Robust' /\ i' = i
        /\ j' = j /\ k' = k /\ M' = M /\ unset' = unset /\ out' = out /\ distribution' = distribution
    BY <1>1, <1>2 DEF input, Robust, Backends
  <1>4. \A b : Had(b)' = Had(b) /\ Home(b)' = Home(b)
    BY <1>3, Zenon DEF Had, Home, Lost, Placed, Robust
  <1>5. Share' = Share
    BY <1>3, Zenon DEF Share
  <1>6. Types'
    BY <1>1, <1>2, <1>3, Zenon DEF Types
  <1>7. WalkInv'
    BY <1>1, <1>2, <1>3, <1>4, <1>5, Zenon DEF WalkInv
  <1>8. QuotaAccounted' /\ FillInv' /\ SeedInv' /\ StripeInv'
    BY <1>1, <1>2, <1>3, Zenon DEF QuotaAccounted, FillInv, SeedInv, StripeInv
  <1> QED
    BY <1>6, <1>7, <1>8, Zenon DEF RInv

(***************************************************************************)
(* NaiveFibLookupTable and SimpleLookupTable.                              *)
(***************************************************************************)

\* The slots from t on are free, and the one before them goes to backend t % n.
Striped(free, table, num, t) == free = t .. m - 1 /\ \A s \in 0 .. t - 1 : table[s] = s % num

LEMMA StripeSlot ==
  ASSUME Types, NEW t \in 0 .. m, Striped(unset, out, n, t), unset # {},
         out' = [out EXCEPT ![Min(unset)] = t % n], unset' = unset \ {Min(unset)}, n' = n
  PROVE /\ Min(unset) = t /\ t \in 0 .. m - 1 /\ t \in Slots /\ t + 1 \in 0 .. m
        /\ Striped(unset', out', n, t + 1)
        /\ out' \in [Slots -> Backends] /\ unset' \subseteq Slots
  <1>1. m \in Nat \ {0} /\ n \in Nat \ {0} /\ unset = t .. m - 1 /\ out \in [Slots -> Backends]
    BY RltTypes, Zenon DEF Types, Striped
  <1>2. t \in 0 .. m - 1 /\ t \in Slots /\ t + 1 \in 0 .. m /\ t \in unset /\ unset \in SUBSET Nat
    BY <1>1 DEF Slots
  <1>3. Min(unset) = t
    <2>1. Min(unset) \in unset /\ Min(unset) <= t
      BY <1>2, LeastOf, Zenon
    <2> QED
      BY <1>1, <2>1
  <1>4. t % n \in Backends
    BY <1>1, <1>2, Quotients, Zenon DEF Backends
  <1>5. out' = [out EXCEPT ![t] = t % n] /\ unset' = unset \ {t}
    BY <1>3, Zenon
  <1>6. unset' = t + 1 .. m - 1 /\ unset' \subseteq Slots
    BY <1>1, <1>2, <1>5 DEF Slots
  <1>7. \A s \in 0 .. t : out'[s] = s % n
    <2> SUFFICES ASSUME NEW s \in 0 .. t PROVE out'[s] = s % n
      OBVIOUS
    <2>1. CASE s = t
      BY <1>1, <1>2, <1>5, <2>1, ZenonT(30)
    <2>2. CASE s # t
      <3>1. s \in 0 .. t - 1 /\ s \in Slots
        BY <1>1, <1>2, <2>2 DEF Slots
      <3>2. out[s] = s % n
        BY <3>1, Zenon DEF Striped
      <3> QED
        BY <1>1, <1>5, <2>2, <3>1, <3>2
    <2> QED
      BY <2>1, <2>2
  <1>8. out' \in [Slots -> Backends]
    BY <1>1, <1>2, <1>4, <1>5, ZenonT(30)
  <1>9. 0 .. (t + 1) - 1 = 0 .. t
    BY <1>2
  <1>10. Striped(unset', out', n, t + 1)
    BY <1>6, <1>7, <1>9, Zenon DEF Striped
  <1> QED
    BY <1>2, <1>3, <1>6, <1>8, <1>10, Zenon

LEMMA StripeFibStep == RInv /\ StripeFib => RInv'
  <1> SUFFICES ASSUME RInv, StripeFib PROVE RInv'
    OBVIOUS
  <1> DEFINE q == m \div n
             Due(t, b) == q + 1 - (t \div n) - (IF b < t % n THEN 1 ELSE 0)
  <1>1. /\ Types /\ StripeInv /\ pc = "stripe" /\ alg = "NaiveFib" /\ unset # {}
        /\ out' = [out EXCEPT ![Min(unset)] = i] /\ unset' = unset \ {Min(unset)}
        /\ distribution' = [distribution EXCEPT ![i] = (@ - 1) % Width]
        /\ IF distribution'[i] > 0 /\ k + 1 < fib[j + 1] THEN k' = k + 1 /\ UNCHANGED <<i, j>>
           ELSE /\ k' = 0
                /\ IF i + 1 < n THEN i' = i + 1 /\ UNCHANGED j
                   ELSE j' = NextFib /\ i' = IF distribution'[0] < 1 THEN 1 % n ELSE 0
        /\ UNCHANGED <<input, pc, prime, M>>
    BY Zenon DEF StripeFib, RInv
  <1>2. alg' = alg /\ n' = n /\ coord' = coord /\ pc' = "stripe" /\ M' = M /\ Backends' = Backends /\ ~Robust /\ ~Robust'
    BY <1>1 DEF input, Robust, Backends
  <1>3. PICK t \in 0 .. m : /\ Striped(unset, out, n, t) /\ i = t % n /\ j = 0 /\ k = 0
                            /\ \A b \in Backends : distribution[b] = Due(t, b)
    BY <1>1, Zenon DEF StripeInv, Striped
  <1>4. /\ m \in Nat \ {0} /\ n \in Nat \ {0} /\ q \in 1 .. m /\ m < Width /\ Width \in Nat \ {0}
        /\ Backends = 0 .. n - 1
    BY <1>1, RltTypes, ZenonT(30) DEF Backends
  <1>5. /\ Min(unset) = t /\ t \in 0 .. m - 1 /\ t + 1 \in 0 .. m
        /\ Striped(unset', out', n, t + 1)
        /\ out' \in [Slots -> Backends] /\ unset' \subseteq Slots
    BY <1>1, <1>2, <1>3, StripeSlot, ZenonT(30)
  <1>6. /\ t \div n \in Nat /\ t % n \in 0 .. n - 1
        /\ (t % n) + 1 < n => (t + 1) % n = (t % n) + 1 /\ (t + 1) \div n = t \div n
        /\ (t % n) + 1 = n => (t + 1) % n = 0 /\ (t + 1) \div n = (t \div n) + 1
    <2>1. t \in Nat
      BY <1>5
    <2> QED
      BY <1>4, <2>1, Quotients, Zenon
  <1>7. t \div n <= q /\ (t + 1) \div n <= q
    <2>1. t \in Nat /\ t + 1 \in Nat /\ m \in Nat /\ t <= m /\ t + 1 <= m
      BY <1>4, <1>5
    <2> QED
      BY <1>4, <2>1, QuotientOrder, Zenon
  <1> DEFINE r == t % n
             p == t \div n
             r1 == (t + 1) % n
             p1 == (t + 1) \div n
  <1>8. /\ p \in Nat /\ r \in 0 .. n - 1 /\ p <= q /\ p1 <= q /\ i = r
        /\ r + 1 < n => r1 = r + 1 /\ p1 = p
        /\ r + 1 = n => r1 = 0 /\ p1 = p + 1
        /\ \A b \in Backends : distribution[b] = q + 1 - p - (IF b < r THEN 1 ELSE 0)
    BY <1>3, <1>6, <1>7, Zenon
  <1>9. \A b \in Backends : Due(t + 1, b) = q + 1 - p1 - (IF b < r1 THEN 1 ELSE 0)
    OBVIOUS
  <1> HIDE DEF r, p, r1, p1, q, Due
  <1>10. distribution[i] = q + 1 - p /\ i \in Backends
    BY <1>4, <1>8
  <1>11. (distribution[i] - 1) % Width = q - p
    <2>1. distribution[i] - 1 = q - p /\ q - p \in 0 .. Width - 1
      BY <1>4, <1>8, <1>10
    <2> QED
      BY <1>4, <2>1, SmallRemainder, SMTT(30)
  <1>12. /\ distribution' \in [Backends -> Nat] /\ distribution'[i] = q - p
         /\ \A b \in Backends : b # i => distribution'[b] = distribution[b]
    <2>1. distribution \in [Backends -> Nat]
      BY <1>1, Zenon DEF Types
    <2>2. q - p \in Nat
      BY <1>4, <1>8
    <2>3. distribution' = [distribution EXCEPT ![i] = q - p]
      BY <1>1, <1>11, Zenon
    <2> QED
      BY <2>1, <2>2, <2>3, <1>10
  <1>13. ASSUME NEW b \in Backends PROVE distribution'[b] = Due(t + 1, b)
    <2>1. /\ Due(t + 1, b) = q + 1 - p1 - (IF b < r1 THEN 1 ELSE 0)
          /\ distribution[b] = q + 1 - p - (IF b < r THEN 1 ELSE 0)
          /\ b = r => distribution'[b] = q - p
          /\ b # r => distribution'[b] = distribution[b]
          /\ b \in 0 .. n - 1
      BY <1>4, <1>8, <1>9, <1>12, Zenon
    <2>2. /\ p \in Nat /\ r \in 0 .. n - 1 /\ q \in Int /\ n \in Nat
          /\ r + 1 < n => r1 = r + 1 /\ p1 = p
          /\ r + 1 = n => r1 = 0 /\ p1 = p + 1
      BY <1>4, <1>8
    <2>3. CASE r + 1 < n
      BY <2>1, <2>2, <2>3, SMTT(30)
    <2>4. CASE r + 1 = n
      BY <2>1, <2>2, <2>4
    <2> QED
      BY <2>2, <2>3, <2>4
  <1>14. i' = r1 /\ j' = 0 /\ k' = 0 /\ i' \in 0 .. n /\ i' < n
    <2>1. fib[0 + 1] = 1 /\ Len(fib) = 19
      BY FibLength DEF fib
    <2>2. ~(k + 1 < fib[j + 1])
      BY <1>3, <2>1
    <2>3. /\ k' = 0
          /\ IF i + 1 < n THEN i' = i + 1 /\ UNCHANGED j
             ELSE j' = NextFib /\ i' = IF distribution'[0] < 1 THEN 1 % n ELSE 0
      BY <1>1, <2>2, Zenon
    <2>4. CASE i + 1 < n
      <3>1. k' = 0 /\ i' = i + 1 /\ j' = 0
        BY <1>3, <2>3, <2>4, Zenon
      <3>2. i = r /\ r \in 0 .. n - 1 /\ n \in Nat /\ (r + 1 < n => r1 = r + 1)
        BY <1>4, <1>8, Zenon
      <3> QED
        BY <2>4, <3>1, <3>2
    <2>5. CASE ~(i + 1 < n)
      <3>1. NextFib = 0
        BY <1>3, <2>1 DEF NextFib
      <3>2. r + 1 = n /\ 0 \in Backends
        BY <1>4, <1>8, <2>5
      <3>3. distribution'[0] = q + 1 - p1 - (IF 0 < r1 THEN 1 ELSE 0)
        BY <3>2, <1>9, <1>13, Zenon
      <3>4. ~(distribution'[0] < 1)
        BY <3>2, <3>3, <1>4, <1>8
      <3> QED
        BY <1>4, <1>8, <2>3, <2>5, <3>1, <3>2, <3>4, SMTT(30)
    <2> QED
      BY <2>4, <2>5, Zenon
  <1>15. Types'
    <2>1. /\ n \in 1 .. MaxBackends /\ coord \in [Backends -> [0 .. nCoordinates - 1 -> Coordinates]]
          /\ M \in [Backends -> Slots] /\ 0 \in Nat
      BY <1>1, Zenon DEF Types
    <2>2. alg' = "NaiveFib" /\ pc' = "stripe"
      BY <1>1, <1>2, Zenon
    <2> QED
      BY <1>2, <1>5, <1>12, <1>14, <2>1, <2>2, Zenon DEF Types
  <1>16. StripeInv'
    <2>1. unset' = t + 1 .. m - 1 /\ \A s \in 0 .. (t + 1) - 1 : out'[s] = s % n'
      BY <1>2, <1>5, Zenon DEF Striped
    <2>2. \A b \in Backends' : distribution'[b]
             = (m \div n') + 1 - ((t + 1) \div n') - (IF b < (t + 1) % n' THEN 1 ELSE 0)
      BY <1>2, <1>13, Zenon DEF Due, q
    <2>3. t + 1 \in 0 .. m /\ pc' # "done" /\ i' = (t + 1) % n' /\ j' = 0 /\ k' = 0
      BY <1>2, <1>5, <1>14, Zenon DEF r1
    <2> QED
      BY <2>1, <2>2, <2>3, Zenon DEF StripeInv
  <1>17. QuotaAccounted' /\ FillInv' /\ SeedInv' /\ WalkInv'
    BY <1>1, <1>2, Zenon DEF QuotaAccounted, FillInv, SeedInv, WalkInv
  <1> QED
    BY <1>15, <1>16, <1>17, Zenon DEF RInv

LEMMA StripeSimpleStep == RInv /\ StripeSimple => RInv'
  <1> SUFFICES ASSUME RInv, StripeSimple PROVE RInv'
    OBVIOUS
  <1>1. /\ Types /\ StripeInv /\ pc = "stripe" /\ alg = "Simple" /\ unset # {}
        /\ out' = [out EXCEPT ![Min(unset)] = Min(unset) % n] /\ unset' = unset \ {Min(unset)}
        /\ UNCHANGED <<input, pc, prime, i, j, k, M, distribution>>
    BY Zenon DEF StripeSimple, RInv
  <1>2. /\ alg' = alg /\ n' = n /\ coord' = coord /\ pc' = "stripe" /\ Backends' = Backends /\ ~Robust /\ ~Robust'
        /\ i' = i /\ j' = j /\ k' = k /\ M' = M /\ distribution' = distribution
    BY <1>1 DEF input, Robust, Backends
  <1>3. PICK t \in 0 .. m : Striped(unset, out, n, t)
    BY <1>1, Zenon DEF StripeInv, Striped
  <1>4. Min(unset) = t
    <2>1. unset = t .. m - 1 /\ m \in Nat
      BY <1>1, <1>3, RltTypes, Zenon DEF Striped
    <2>2. unset \in SUBSET Nat /\ t \in unset
      BY <1>1, <2>1
    <2>3. Min(unset) \in unset /\ Min(unset) <= t
      BY <2>2, LeastOf, Zenon
    <2> QED
      BY <2>1, <2>3
  <1>5. /\ t + 1 \in 0 .. m /\ Striped(unset', out', n, t + 1)
        /\ out' \in [Slots -> Backends] /\ unset' \subseteq Slots
    <2>1. out' = [out EXCEPT ![Min(unset)] = t % n]
      BY <1>1, <1>4, Zenon
    <2> QED
      BY <1>1, <1>2, <1>3, <2>1, StripeSlot, ZenonT(30)
  <1>6. Types'
    BY <1>1, <1>2, <1>5, Zenon DEF Types
  <1>7. StripeInv'
    <2>1. unset' = t + 1 .. m - 1 /\ \A s \in 0 .. (t + 1) - 1 : out'[s] = s % n'
      BY <1>2, <1>5, Zenon DEF Striped
    <2>2. t + 1 \in 0 .. m /\ pc' # "done" /\ alg' # "NaiveFib"
      BY <1>1, <1>2, <1>5, Zenon
    <2> QED
      BY <2>1, <2>2, Zenon DEF StripeInv
  <1>8. QuotaAccounted' /\ FillInv' /\ SeedInv' /\ WalkInv'
    BY <1>1, <1>2, Zenon DEF QuotaAccounted, FillInv, SeedInv, WalkInv
  <1> QED
    BY <1>6, <1>7, <1>8, Zenon DEF RInv

LEMMA StripeEndStep == RInv /\ StripeEnd => RInv'
  <1> SUFFICES ASSUME RInv, StripeEnd PROVE RInv'
    OBVIOUS
  <1>1. /\ Types /\ StripeInv /\ pc = "stripe" /\ unset = {} /\ pc' = "done"
        /\ UNCHANGED <<input, prime, i, j, k, M, unset, out, distribution>>
    BY Zenon DEF StripeEnd, RInv
  <1>2. alg \in {"NaiveFib", "Simple"} /\ ~Robust
    BY <1>1, Zenon DEF Types, Robust
  <1>3. /\ alg' = alg /\ n' = n /\ coord' = coord /\ Backends' = Backends /\ ~Robust' /\ i' = i
        /\ j' = j /\ k' = k /\ M' = M /\ unset' = unset /\ out' = out /\ distribution' = distribution
    BY <1>1, <1>2 DEF input, Robust, Backends
  <1>4. PICK t \in 0 .. m : unset = t .. m - 1 /\ \A s \in 0 .. t - 1 : out[s] = s % n
    BY <1>1, <1>2, Zenon DEF StripeInv
  <1>5. t = m
    <2>1. m \in Nat
      BY <1>1, RltTypes
    <2> QED
      BY <1>1, <1>4, <2>1
  <1>6. Types'
    BY <1>1, <1>2, <1>3, Zenon DEF Types
  <1>7. StripeInv'
    BY <1>1, <1>2, <1>3, <1>4, <1>5, Zenon DEF StripeInv
  <1>8. QuotaAccounted' /\ FillInv' /\ SeedInv' /\ WalkInv'
    BY <1>1, <1>2, <1>3, Zenon DEF QuotaAccounted, FillInv, SeedInv, WalkInv
  <1> QED
    BY <1>6, <1>7, <1>8, Zenon DEF RInv

(***************************************************************************)
(* The invariant.                                                          *)
(***************************************************************************)
LEMMA RltStutter == RInv /\ UNCHANGED rltVars => RInv'
  <1> SUFFICES ASSUME RInv, UNCHANGED rltVars PROVE RInv'
    OBVIOUS
  <1>1. /\ alg' = alg /\ n' = n /\ coord' = coord /\ pc' = pc /\ i' = i /\ j' = j /\ k' = k /\ M' = M
        /\ unset' = unset /\ out' = out /\ distribution' = distribution
    BY DEF rltVars, input
  <1>2. Backends' = Backends /\ Robust' = Robust /\ Share' = Share
    BY <1>1, Zenon DEF Backends, Robust, Share
  <1>3. \A b : /\ Placed(b)' = Placed(b) /\ Lost(b)' = Lost(b) /\ Home(b)' = Home(b)
               /\ Rounds(b)' = Rounds(b)
    BY <1>1, <1>2, Zenon DEF Placed, Lost, Home, Rounds
  <1>4. \A b : Had(b)' = Had(b) /\ Dealt(b)' = Dealt(b)
    BY <1>1, <1>3, Zenon DEF Had, Dealt
  <1>5. Types'
    BY <1>1, <1>2, Zenon DEF RInv, Types
  <1>6. QuotaAccounted' /\ FillInv' /\ StripeInv'
    <2>1. QuotaAccounted /\ FillInv /\ StripeInv
      BY Zenon DEF RInv
    <2>2. QuotaAccounted'
      BY <2>1, <1>1, <1>3, Zenon DEF QuotaAccounted
    <2>3. FillInv'
      BY <2>1, <1>1, <1>2, <1>4, Zenon DEF FillInv
    <2>4. StripeInv'
      BY <2>1, <1>1, <1>2, Zenon DEF StripeInv
    <2> QED
      BY <2>2, <2>3, <2>4
  <1>7. SeedInv' /\ WalkInv'
    <2>1. SeedInv /\ WalkInv
      BY Zenon DEF RInv
    <2>2. SeedInv'
      BY <2>1, <1>1, <1>2, <1>3, Zenon DEF SeedInv
    <2>3. WalkInv'
      BY <2>1, <1>1, <1>2, <1>3, <1>4, Zenon DEF WalkInv
    <2> QED
      BY <2>2, <2>3
  <1> QED
    BY <1>5, <1>6, <1>7, Zenon DEF RInv

LEMMA NextRInv == RInv /\ [RltNext]_rltVars => RInv'
  <1> SUFFICES ASSUME RInv, [RltNext]_rltVars PROVE RInv'
    OBVIOUS
  <1>1. \/ Place \/ Fill \/ Return \/ Seed \/ Walk \/ WalkEnd \/ Deal \/ DealEnd
        \/ StripeFib \/ StripeSimple \/ StripeEnd \/ UNCHANGED rltVars
    BY Zenon DEF RltNext
  <1> QED
    BY <1>1, PlaceStep, FillStep, ReturnStep, SeedStep, WalkStep, WalkEndStep, DealStep, DealEndStep,
       StripeFibStep, StripeSimpleStep, StripeEndStep, RltStutter, Zenon

(* In every state of every computation of a lookup table, each loop keeps  *)
(* to its account: the quotas of ReverseCoordinatesLookupTable and of the  *)
(* robust algorithms, the turns in which what is left is dealt out, the    *)
(* rounds of RobustFib, and the stripes of NaiveFib and Simple.            *)
THEOREM RltInvariant == RltSpec => []RInv
  <1>1. RltInit => RInv
    BY InitRInv
  <1>2. RInv /\ [RltNext]_rltVars => RInv'
    BY NextRInv
  <1> QED
    BY <1>1, <1>2, PTL DEF RltSpec

(* While primes are tried, or backends walk, a backend's distribution is   *)
(* its quota less what it has had, modulo 2^32, for tables of any length   *)
(* and any coordinates.                                                    *)
THEOREM QuotaIsAccounted == RltSpec => []QuotaAccounted
  <1>1. RInv => QuotaAccounted
    BY Zenon DEF RInv
  <1> QED
    BY <1>1, RltInvariant, PTL

\* The multiples of n, moved by b, are the slots of backend b in a striped table.
LEMMA StripeShare ==
  \A c \in Nat \ {0} : \A len \in Nat : \A b \in 0 .. c - 1 :
     Cardinality({s \in 0 .. len - 1 : s % c = b}) >= len \div c
  <1> SUFFICES ASSUME NEW c \in Nat \ {0}, NEW len \in Nat, NEW b \in 0 .. c - 1
               PROVE Cardinality({s \in 0 .. len - 1 : s % c = b}) >= len \div c
    BY Zenon
  <1> DEFINE q == len \div c
             T == {s \in 0 .. len - 1 : s % c = b}
             S == 0 .. q - 1
             f == [x \in S |-> (c * x) + b]
  <1>1. q \in Nat /\ len = (c * q) + (len % c) /\ len % c \in 0 .. c - 1
    BY Quotients, Zenon
  <1> HIDE DEF q
  <1>2. ASSUME NEW x \in S PROVE (c * x) + b \in T /\ ((c * x) + b) \div c = x
    <2>1. x \in Int /\ c * x \in Int /\ (c * x) + b \in Int
      BY <1>1
    <2>2. ((c * x) + b) % c = b /\ ((c * x) + b) \div c = x
      BY <2>1, Remainder, Quotient, Zenon
    <2>3. c * q = (c * x) + c + c * (q - x - 1) /\ c * (q - x - 1) >= 0 /\ c * x >= 0 /\ c * q \in Int
      BY <1>1, <2>1
    <2>4. (c * x) + b \in 0 .. len - 1
      BY <1>1, <2>1, <2>3
    <2> QED
      BY <2>2, <2>4
  <1>3. f \in Injection(S, T)
    <2>1. f \in [S -> T]
      BY <1>2, Zenon
    <2>2. ASSUME NEW x \in S, NEW y \in S, f[x] = f[y] PROVE x = y
      <3>1. (c * x) + b = (c * y) + b
        BY <2>2, Zenon
      <3> QED
        BY <3>1, <1>2, Zenon
    <2>3. DOMAIN f = S
      BY Zenon
    <2> HIDE DEF f
    <2>4. IsInjective(f)
      BY <2>2, <2>3, Zenon DEF IsInjective
    <2> QED
      BY <2>1, <2>4, Zenon DEF Injection
  <1>4. IsFiniteSet(T)
    <2>1. IsFiniteSet(0 .. len - 1) /\ T \in SUBSET (0 .. len - 1)
      <3>1. 0 \in Int /\ len - 1 \in Int
        OBVIOUS
      <3> QED
        BY <3>1, FS_Interval, Zenon
    <2> QED
      BY <2>1, FS_Subset, Zenon
  <1> HIDE DEF f, S, T
  <1>5. Cardinality(S) <= Cardinality(T)
    BY <1>3, <1>4, FS_Injection, Zenon
  <1>6. Cardinality(S) = q
    <2>1. 0 \in Int /\ q - 1 \in Int
      BY <1>1
    <2>2. Cardinality(S) = IF 0 > q - 1 THEN 0 ELSE (q - 1) - 0 + 1
      BY <2>1, FS_Interval DEF S
    <2> QED
      BY <1>1, <2>2
  <1>7. Cardinality(T) \in Nat
    BY <1>4, FS_CardinalityType, Zenon
  <1>8. Cardinality(T) >= q
    BY <1>1, <1>5, <1>6, <1>7
  <1> QED
    BY <1>8 DEF T, q

LEMMA SharesFollow == RInv => SharesKept
  <1> SUFFICES ASSUME RInv PROVE SharesKept
    OBVIOUS
  <1>1. Types /\ FillInv /\ WalkInv /\ StripeInv
    BY Zenon DEF RInv
  <1>2. out \in [Slots -> Backends] /\ Backends = 0 .. n - 1
    BY <1>1, Zenon DEF Types, Backends
  <1>3. n \in Nat \ {0} /\ m \in Nat \ {0} /\ m \div n \in 1 .. m /\ Slots = 0 .. m - 1 /\ i \in Nat
    BY <1>1, RltTypes DEF Slots
  <1>4. ASSUME alg = "ReverseCoordinates", pc \in {"fill", "done"},
               NEW a \in Backends, NEW b \in Backends, a < b
        PROVE Dealt(a) - Dealt(b) \in {0, 1}
    <2>1. PICK r \in 0 .. m : \A x \in Backends : Dealt(x) = IF x < i THEN r + 1 ELSE r
      BY <1>1, <1>4, Zenon DEF FillInv
    <2>2. Dealt(a) = (IF a < i THEN r + 1 ELSE r) /\ Dealt(b) = (IF b < i THEN r + 1 ELSE r)
      BY <2>1, Zenon
    <2>3. a \in Nat /\ b \in Nat
      BY <1>2, <1>3
    <2> QED
      BY <1>3, <1>4, <2>2, <2>3
  <1>5. ASSUME alg # "ReverseCoordinates", pc = "done", NEW b \in Backends
        PROVE Cardinality({s \in Slots : out[s] = b}) >= Share - Lost(b)
    <2> DEFINE T == {s \in Slots : out[s] = b}
    <2>1. T \in SUBSET Slots /\ Placed(b) \in SUBSET T
      BY Zenon DEF Placed
    <2>2. IsFiniteSet(T) /\ Cardinality(T) \in 0 .. m
      BY <2>1, SlotsFinite, Zenon
    <2>3. CASE Robust
      <3>1. Had(b) >= Share
        BY <1>1, <1>5, <2>3, Zenon DEF WalkInv
      <3> HIDE DEF T
      <3>2. Cardinality(Placed(b)) <= Cardinality(T)
        BY <2>1, <2>2, FS_Subset, Zenon
      <3>3. Cardinality(Placed(b)) \in Nat /\ Lost(b) \in Nat /\ Share \in Nat
        BY <1>1, HadTypes, ShareType, Zenon
      <3>4. Cardinality(T) >= Share - Lost(b)
        BY <1>3, <2>2, <3>1, <3>2, <3>3 DEF Had
      <3> QED
        BY <3>4 DEF T
    <2>4. CASE ~Robust
      <3>1. alg \in {"NaiveFib", "Simple"}
        BY <1>1, <1>5, <2>4, Zenon DEF Types, Robust
      <3>2. Lost(b) = 0 /\ Share = m \div n
        BY <2>4, <3>1, NothingLost, Zenon DEF Share
      <3>3. \A s \in 0 .. m - 1 : out[s] = s % n
        BY <1>1, <1>5, <3>1, Zenon DEF StripeInv
      <3>4. T = {s \in 0 .. m - 1 : s % n = b}
        BY <1>3, <3>3, ZenonT(30)
      <3>5. Cardinality({s \in 0 .. m - 1 : s % n = b}) >= m \div n
        <4>1. n \in Nat \ {0} /\ m \in Nat /\ b \in 0 .. n - 1
          BY <1>2, <1>3, Zenon
        <4> QED
          BY <4>1, StripeShare, Zenon
      <3>7. Cardinality(T) >= m \div n
        BY <3>4, <3>5, Zenon
      <3>6. (m \div n) - 0 = m \div n
        BY <1>3
      <3> QED
        BY <3>2, <3>6, <3>7, Zenon
    <2> QED
      BY <2>3, <2>4, Zenon
  <1> QED
    BY <1>2, <1>4, <1>5, Zenon DEF SharesKept

(* Every algorithm fills the table with available backends and keeps the   *)
(* shares, for tables of any length, any number of backends and any        *)
(* coordinates, in whatever order Go deals out the remaining slots.        *)
THEOREM EveryShareKept == RltSpec => []SharesKept
  BY RltInvariant, SharesFollow, PTL

===============================================================================
