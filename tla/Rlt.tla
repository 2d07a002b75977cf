--------------------------------- MODULE Rlt ---------------------------------
(***************************************************************************)
(* The algorithms of internal/adapter/rlt/rlt.go that fill a lookup table. *)
(*                                                                         *)
(* ReverseCoordinates is the one in use: for each prime, each backend and  *)
(* each of its coordinates, the backend takes the free slots at multiples  *)
(* of coordinate % prime; what is left is dealt out in turn, in the order  *)
(* in which Go iterates over a map, that is in any order.                  *)
(*                                                                         *)
(* In RobustFib and RobustSimple every backend starts at the slot of its   *)
(* first coordinate and walks on to free slots, in chunks or one by one.   *)
(* NaiveFib and Simple give out the slots from first to last.              *)
(*                                                                         *)
(* One step is the work for one coordinate, or one slot.  uint32 wraps at  *)
(* Width.                                                                  *)
(***************************************************************************)
EXTENDS Integers, Sequences, FiniteSets, FiniteSetsExt

CONSTANTS m,             \* length of the lookup table
          MaxBackends,   \* bound: number of available backends
          nCoordinates,  \* coordinates of a backend, 4 in the code
          Coordinates,   \* values of a coordinate
          Width          \* numbers are modulo Width, 2^32 in the code

ASSUME RltAssumption ==
    /\ m \in Nat \ {0} /\ MaxBackends \in 1 .. m /\ nCoordinates \in Nat \ {0}
    /\ Coordinates \subseteq Nat
    /\ Width \in Nat /\ Width > m

VARIABLES
    alg,           \* the algorithm
    n,             \* number of available backends
    coord,         \* their coordinates
    pc,            \* "place", "fill", "seed", "walk", "deal", "stripe" or "done"
    prime, i, j, k,  \* loop variables
    M,             \* the slot a backend took last, for the robust algorithms
    unset,         \* slots without a backend
    out,           \* the lookup table
    distribution   \* slots a backend may still take

input == <<alg, n, coord>>
rltVars == <<input, pc, prime, i, j, k, M, unset, out, distribution>>

Slots == 0 .. m - 1

primes == {2, 3, 5, 7, 13, 17, 19, 31, 61, 89, 107, 127, 521, 607, 1279, 2203, 2281, 3217, 4253,
           4423, 9689, 9941, 11213, 19937, 21701, 23209, 44497}

fib == <<1, 1, 2, 3, 5, 8, 13, 21, 34, 55, 89, 144, 233, 377, 610, 987, 1587, 2584, 4181>>

\* Mutant: nextPrime may return the prime it is given.
SmallerPrimesOrEqual(p) == {q \in primes : q <= p}

SmallerPrimes(p) == {q \in primes : q < p}

\* 0 stands for the second result, false.
nextPrime(p) == IF SmallerPrimes(p) = {} THEN 0 ELSE Max(SmallerPrimes(p))

isNotFullyDistributed(d) == \E b \in DOMAIN d : d[b] > 0

Robust == alg \in {"RobustFib", "RobustSimple"}

\* The coordinates that an algorithm does not read are 0.
RltInit ==
    /\ alg \in {"ReverseCoordinates", "RobustFib", "RobustSimple", "NaiveFib", "Simple"}
    /\ n \in 1 .. MaxBackends
    /\ coord \in [0 .. n - 1 -> [0 .. nCoordinates - 1 -> Coordinates]]
    /\ \A b \in 0 .. n - 1 : \A c \in 0 .. nCoordinates - 1 :
         coord[b][c] = 0 \/ alg = "ReverseCoordinates" \/ (Robust /\ c = 0)
    /\ pc = IF alg = "ReverseCoordinates" THEN "place" ELSE IF Robust THEN "seed" ELSE "stripe"
    /\ prime = m /\ i = 0 /\ j = 0 /\ k = 0
    /\ M = [b \in 0 .. n - 1 |-> 0]
    /\ unset = Slots
    /\ out = [s \in Slots |-> 0]
    /\ distribution = [b \in 0 .. n - 1 |-> (m \div n) + (IF alg = "NaiveFib" THEN 1 ELSE 0)]

\* The slots that backend i takes with mod as its coordinate.
Multiples(mod) == {l * mod : l \in 1 .. m \div prime} \cap unset

\* The loops over backends and coordinates go on, or the next prime is due.
Advance(d) ==
    IF j < nCoordinates - 1 THEN j' = j + 1 /\ UNCHANGED <<i, prime, pc>>
    ELSE IF i < n - 1 THEN i' = i + 1 /\ j' = 0 /\ UNCHANGED <<prime, pc>>
    ELSE /\ i' = 0 /\ j' = 0
         /\ IF nextPrime(prime) # 0 /\ isNotFullyDistributed(d)
            THEN prime' = nextPrime(prime) /\ UNCHANGED pc
            ELSE pc' = "fill" /\ UNCHANGED prime

\* Mutant: the quota is charged once per coordinate.
PlaceChargingOnce ==
    /\ pc = "place"
    /\ LET hits == IF distribution[i] < 1 THEN {} ELSE Multiples(coord[i][j] % prime)
       IN /\ out' = [s \in Slots |-> IF s \in hits THEN i ELSE out[s]]
          /\ unset' = unset \ hits
          /\ distribution' = [distribution EXCEPT ![i] = (@ - (IF hits = {} THEN 0 ELSE 1)) % Width]
    /\ Advance(distribution')
    /\ UNCHANGED <<input, k, M>>

\* The quota is checked once per coordinate and charged once per slot.
Place ==
    /\ pc = "place"
    /\ LET hits == IF distribution[i] < 1 THEN {} ELSE Multiples(coord[i][j] % prime)
       IN /\ out' = [s \in Slots |-> IF s \in hits THEN i ELSE out[s]]
          /\ unset' = unset \ hits
          /\ distribution' = [distribution EXCEPT ![i] = (@ - Cardinality(hits)) % Width]
    /\ Advance(distribution')
    /\ UNCHANGED <<input, k, M>>

NextTurn == IF i > n - 1 THEN 0 ELSE i

\* Mutant: the turn does not pass on.
FillOneBackend ==
    /\ pc = "fill"
    /\ \E s \in unset :
        /\ out' = [out EXCEPT ![s] = NextTurn]
        /\ unset' = unset \ {s}
    /\ i' = NextTurn
    /\ UNCHANGED <<input, pc, prime, j, k, M, distribution>>

Fill ==
    /\ pc = "fill"
    /\ \E s \in unset :
        /\ out' = [out EXCEPT ![s] = NextTurn]
        /\ unset' = unset \ {s}
    /\ i' = NextTurn + 1
    /\ UNCHANGED <<input, pc, prime, j, k, M, distribution>>

Return ==
    /\ pc = "fill"
    /\ unset = {}
    /\ pc' = "done"
    /\ UNCHANGED <<input, prime, i, j, k, M, unset, out, distribution>>

(***************************************************************************)
(* RobustFibLookupTable and RobustSimpleLookupTable.                       *)
(***************************************************************************)

\* Backend b takes slot s, from whoever has it, and is charged for it.
Take(b, s) ==
    /\ out' = [out EXCEPT ![s] = b]
    /\ unset' = unset \ {s}
    /\ M' = [M EXCEPT ![b] = s]
    /\ distribution' = [distribution EXCEPT ![b] = (@ - 1) % Width]

Seed ==
    /\ pc = "seed"
    /\ Take(i, coord[i][0] % m)
    /\ i' = (i + 1) % n
    /\ pc' = IF i = n - 1 THEN "walk" ELSE pc
    /\ UNCHANGED <<input, prime, j, k>>

\* All backends are banned, or fib is exhausted.
WalkOver == ~isNotFullyDistributed(distribution) \/ (alg = "RobustFib" /\ j = Len(fib))

\* Slots that a backend takes in a round, of which k are taken.
Chunk == IF alg = "RobustFib" THEN fib[j + 1] ELSE 1

NextFree(s) == (s + Min({d \in 1 .. m : (s + d) % m \in unset})) % m

\* The inner loop does not end if there is no free slot.
Walk ==
    /\ pc = "walk" /\ ~WalkOver
    /\ IF distribution[i] < 1 THEN UNCHANGED <<out, unset, M, distribution>>
       ELSE unset # {} /\ Take(i, NextFree(M[i]))
    /\ IF distribution'[i] > 0 /\ k + 1 < Chunk
       THEN k' = k + 1 /\ UNCHANGED <<i, j>>
       ELSE k' = 0 /\ i' = (i + 1) % n /\ j' = IF i = n - 1 /\ alg = "RobustFib" THEN j + 1 ELSE j
    /\ UNCHANGED <<input, pc, prime>>

WalkEnd ==
    /\ pc = "walk" /\ WalkOver
    /\ pc' = "deal" /\ i' = 0 /\ k' = 0
    /\ UNCHANGED <<input, prime, j, M, unset, out, distribution>>

rem == m % n

\* The first n slots are looked at, and the k-th free one goes to backend k.
Deal ==
    /\ pc = "deal" /\ i < n /\ k <= (rem - 1) % Width
    /\ IF i \in unset
       THEN out' = [out EXCEPT ![i] = k] /\ unset' = unset \ {i} /\ k' = k + 1
       ELSE UNCHANGED <<out, unset, k>>
    /\ i' = i + 1
    /\ UNCHANGED <<input, pc, prime, j, M, distribution>>

\* Slots that are left are 0 in out.
DealEnd ==
    /\ pc = "deal" /\ (i = n \/ k > (rem - 1) % Width)
    /\ pc' = "done"
    /\ UNCHANGED <<input, prime, i, j, k, M, unset, out, distribution>>

(***************************************************************************)
(* NaiveFibLookupTable and SimpleLookupTable.                              *)
(***************************************************************************)

\* The fib index is reset as long as it is below its limit.
NextFib == IF j + 1 < Len(fib) - 1 THEN 0 ELSE j + 1

\* One slot; distribution[0] = 0 means that backend 0 is banned, which makes it lose its turn.
StripeFib ==
    /\ pc = "stripe" /\ alg = "NaiveFib" /\ unset # {}
    /\ LET slot == Min(unset) IN out' = [out EXCEPT ![slot] = i] /\ unset' = unset \ {slot}
    /\ distribution' = [distribution EXCEPT ![i] = (@ - 1) % Width]
    /\ IF distribution'[i] > 0 /\ k + 1 < fib[j + 1] THEN k' = k + 1 /\ UNCHANGED <<i, j>>
       ELSE /\ k' = 0
            /\ IF i + 1 < n THEN i' = i + 1 /\ UNCHANGED j
               ELSE j' = NextFib /\ i' = IF distribution'[0] < 1 THEN 1 % n ELSE 0
    /\ UNCHANGED <<input, pc, prime, M>>

StripeSimple ==
    /\ pc = "stripe" /\ alg = "Simple" /\ unset # {}
    /\ LET slot == Min(unset) IN out' = [out EXCEPT ![slot] = slot % n] /\ unset' = unset \ {slot}
    /\ UNCHANGED <<input, pc, prime, i, j, k, M, distribution>>

StripeEnd ==
    /\ pc = "stripe" /\ unset = {}
    /\ pc' = "done"
    /\ UNCHANGED <<input, prime, i, j, k, M, unset, out, distribution>>

RltNext ==
    \/ Place \/ Fill \/ Return
    \/ Seed \/ Walk \/ WalkEnd \/ Deal \/ DealEnd
    \/ StripeFib \/ StripeSimple \/ StripeEnd

RltSpec == RltInit /\ [][RltNext]_rltVars /\ WF_rltVars(RltNext)

(***************************************************************************)
(* Properties.                                                             *)
(***************************************************************************)
Placed(b) == {s \in Slots \ unset : out[s] = b}

\* A robust algorithm has given the backend's first slot to a later one with the same coordinate.
Lost(b) == IF Robust /\ out[coord[b][0] % m] # b THEN 1 ELSE 0

(* While primes are tried, or backends walk, distribution[b] is the quota  *)
(* m / n less what the backend has had, modulo 2^32: no slot is charged    *)
(* twice or not at all.                                                    *)
QuotaAccounted ==
    pc \in {"place", "walk"} =>
        \A b \in 0 .. n - 1 : (distribution[b] + Cardinality(Placed(b)) + Lost(b)) % Width = m \div n

\* Slots that ReverseCoordinatesLookupTable has dealt out to a backend.
Dealt(b) == (Cardinality(Placed(b)) + distribution[b] - m \div n) % Width

\* What a backend has had after so many rounds of RobustFib: its first slot, and the chunks.
Reached[rounds \in 0 .. Len(fib)] == IF rounds = 0 THEN 1 ELSE Reached[rounds - 1] + fib[rounds]

\* RobustFib ends with fib.
Share == IF alg = "RobustFib" THEN Min({m \div n, Reached[Len(fib)]}) ELSE m \div n

(* Every slot holds the index of an available backend, and the shares are  *)
(* kept.  Although Go chooses the order in which                           *)
(* ReverseCoordinatesLookupTable deals out the remaining slots, how many   *)
(* of them a backend gets does not depend on it: backends have equal       *)
(* numbers of them, or the first ones have one more.  The other algorithms *)
(* give every backend its share of the table (RobustFib no more than its   *)
(* chunks add up to), less the first slot if that was lost.                *)
SharesKept ==
    /\ out \in [Slots -> 0 .. n - 1]
    /\ alg = "ReverseCoordinates" /\ pc \in {"fill", "done"} =>
        \A a, b \in 0 .. n - 1 : a < b => Dealt(a) - Dealt(b) \in {0, 1}
    /\ alg # "ReverseCoordinates" /\ pc = "done" =>
        \A b \in 0 .. n - 1 : Cardinality({s \in Slots : out[s] = b}) >= Share - Lost(b)

(* Every computation ends: primes get smaller and slots fewer, and a       *)
(* backend that walks finds a free slot as long as it has a quota.         *)
Terminates == <>(pc = "done")

=============================================================================
