--------------------------- MODULE WatcherMuxProofs ---------------------------
(***************************************************************************)
(* For every set of watchers and of dispatchers, every capacity and every  *)
(* number of values: the order in which a watcher sees the values of a     *)
(* dispatcher, and what may panic.                                         *)
(*                                                                         *)
(* The argument.  The order is kept because the value a dispatcher has in  *)
(* hand is younger than all of its values in the streams of the watchers   *)
(* it still has to serve.                                                  *)
(***************************************************************************)
EXTENDS WatcherMux, SequenceTheorems, TLAPS

\* The value in hand is the dispatcher's own and its youngest.
Youngest ==
    \A d \in Dispatchers : \A w \in dispatcher[d].todo :
        /\ dispatcher[d].value \in 1 .. Len(by) /\ by[dispatcher[d].value] = d
        /\ \A a \in DOMAIN Stream(w) : by[Stream(w)[a]] = d => Stream(w)[a] < dispatcher[d].value

IInv == TypeOK /\ Youngest /\ InOrder /\ OnlySendsPanic

LEMMA InitIInv == Init => IInv
  <1> SUFFICES ASSUME Init PROVE IInv
    OBVIOUS
  <1>1. by = <<>> /\ Len(by) = 0 /\ by \in Seq(Dispatchers)
    BY DEF Init
  <1>2. TypeOK
    <2>1. \A w \in Watchers : ch[w] = <<>> /\ received[w] = <<>>
      BY DEF Init
    <2>2. {ch, received} \subseteq [Watchers -> Seq(1 .. Len(by))] /\ \A w \in Watchers : Len(ch[w]) <= Capacity
      <3>1. <<>> \in Seq(1 .. Len(by)) /\ Len(<<>>) = 0
        OBVIOUS
      <3>2. ch = [w \in Watchers |-> <<>>] /\ received = [w \in Watchers |-> <<>>]
        BY DEF Init
      <3>3. ch \in [Watchers -> Seq(1 .. Len(by))] /\ received \in [Watchers -> Seq(1 .. Len(by))]
        BY <3>1, <3>2
      <3> QED
        BY <2>1, <3>1, <3>3, WatcherMuxAssumption
    <2>3. dispatcher \in [Dispatchers -> [value : 0 .. Len(by), todo : SUBSET Watchers]]
      BY <1>1 DEF Init, Idle
    <2>4. {chClosed, cancelled} \subseteq [Watchers -> BOOLEAN] /\ panicked \in BOOLEAN
      BY Zenon DEF Init
    <2>5. /\ watchers \subseteq Watchers /\ state \in [Watchers -> {"none", "watching", "ended"}]
          /\ closing \in [pc : {"no", "closing", "closed"}, todo : SUBSET Watchers]
      BY DEF Init
    <2>6. Len(by) <= MaxValues
      BY <1>1, WatcherMuxAssumption
    <2> QED
      BY <1>1, <2>2, <2>3, <2>4, <2>5, <2>6 DEF TypeOK
  <1>3. Youngest /\ OnlySendsPanic
    BY DEF Init, Youngest, OnlySendsPanic, Idle
  <1>4. InOrder
    <2>1. \A w \in Watchers : DOMAIN Stream(w) = {}
      <3> SUFFICES ASSUME NEW w \in Watchers PROVE DOMAIN Stream(w) = {}
        OBVIOUS
      <3>1. Stream(w) = <<>> \o <<>>
        BY DEF Init, Stream
      <3>2. <<>> \o <<>> = <<>> /\ DOMAIN <<>> = {}
        OBVIOUS
      <3> QED
        BY <3>1, <3>2
    <2> QED
      BY <2>1 DEF InOrder
  <1> QED
    BY <1>2, <1>3, <1>4 DEF IInv

LEMMA StreamType ==
  ASSUME TypeOK, NEW w \in Watchers
  PROVE  Stream(w) \in Seq(1 .. Len(by))
  <1>1. received[w] \in Seq(1 .. Len(by)) /\ ch[w] \in Seq(1 .. Len(by))
    BY DEF TypeOK
  <1> QED
    BY <1>1, ConcatProperties DEF Stream

\* Receiving moves the first element of a channel to the end of what was received.
LEMMA MoveHead ==
  ASSUME NEW S, NEW a \in Seq(S), NEW b \in Seq(S), b # <<>>
  PROVE  Append(a, Head(b)) \o Tail(b) = a \o b
  <1> DEFINE c == Append(a, Head(b))
  <1> DEFINE t == Tail(b)
  <1>1. /\ Head(b) \in S /\ t \in Seq(S) /\ Len(t) = Len(b) - 1 /\ Head(b) = b[1]
        /\ \A i \in 1 .. Len(t) : t[i] = b[i + 1]
    BY HeadTailProperties
  <1>2. /\ c \in Seq(S) /\ Len(c) = Len(a) + 1 /\ c[Len(a) + 1] = Head(b)
        /\ \A i \in 1 .. Len(a) : c[i] = a[i]
    BY <1>1, AppendProperties
  <1>3. Len(a) \in Nat /\ Len(b) \in Nat
    BY LenProperties
  <1> HIDE DEF c, t
  <1>4. /\ c \o t \in Seq(S) /\ Len(c \o t) = Len(c) + Len(t)
        /\ \A i \in 1 .. Len(c) + Len(t) : (c \o t)[i] = IF i <= Len(c) THEN c[i] ELSE t[i - Len(c)]
    BY <1>1, <1>2, ConcatProperties, Zenon
  <1>5. /\ a \o b \in Seq(S) /\ Len(a \o b) = Len(a) + Len(b)
        /\ \A i \in 1 .. Len(a) + Len(b) : (a \o b)[i] = IF i <= Len(a) THEN a[i] ELSE b[i - Len(a)]
    BY ConcatProperties
  <1>6. Len(c \o t) = Len(a \o b)
    BY <1>1, <1>2, <1>3, <1>4, <1>5
  <1>7. ASSUME NEW i \in 1 .. Len(a) + Len(b) PROVE (c \o t)[i] = (a \o b)[i]
    <2>1. CASE i <= Len(a)
      BY <1>1, <1>2, <1>3, <1>4, <1>5, <2>1
    <2>2. CASE i = Len(a) + 1
      BY <1>1, <1>2, <1>3, <1>4, <1>5, <2>2
    <2>3. CASE i > Len(a) + 1
      <3>1. (c \o t)[i] = t[i - Len(c)] /\ (a \o b)[i] = b[i - Len(a)]
        BY <1>1, <1>2, <1>3, <1>4, <1>5, <2>3
      <3>2. i - Len(c) \in 1 .. Len(t) /\ (i - Len(c)) + 1 = i - Len(a)
        BY <1>1, <1>2, <1>3, <2>3
      <3> QED
        BY <1>1, <3>1, <3>2, Zenon
    <2>4. i \in Int /\ Len(a) \in Int
      BY <1>3
    <2>5. i <= Len(a) \/ i = Len(a) + 1 \/ i > Len(a) + 1
      BY <2>4
    <2> QED
      BY <2>1, <2>2, <2>3, <2>5, Zenon
  <1>8. c \o t = a \o b
    BY <1>4, <1>5, <1>6, <1>7, SeqEqual, Zenon
  <1> QED
    BY <1>8, Zenon DEF c, t

\* A value sent is the last one of the stream.
LEMMA AppendLast ==
  ASSUME NEW S, NEW a \in Seq(S), NEW b \in Seq(S), NEW v \in S
  PROVE  /\ a \o Append(b, v) \in Seq(S)
         /\ Len(a \o Append(b, v)) = Len(a \o b) + 1
         /\ \A i \in 1 .. Len(a \o b) : (a \o Append(b, v))[i] = (a \o b)[i]
         /\ (a \o Append(b, v))[Len(a \o b) + 1] = v
  <1> DEFINE c == Append(b, v)
  <1>1. /\ c \in Seq(S) /\ Len(c) = Len(b) + 1 /\ c[Len(b) + 1] = v
        /\ \A i \in 1 .. Len(b) : c[i] = b[i]
    BY AppendProperties
  <1>2. Len(a) \in Nat /\ Len(b) \in Nat
    BY LenProperties
  <1> HIDE DEF c
  <1>3. /\ a \o c \in Seq(S) /\ Len(a \o c) = Len(a) + Len(c)
        /\ \A i \in 1 .. Len(a) + Len(c) : (a \o c)[i] = IF i <= Len(a) THEN a[i] ELSE c[i - Len(a)]
    BY <1>1, ConcatProperties, Zenon
  <1>4. /\ a \o b \in Seq(S) /\ Len(a \o b) = Len(a) + Len(b)
        /\ \A i \in 1 .. Len(a) + Len(b) : (a \o b)[i] = IF i <= Len(a) THEN a[i] ELSE b[i - Len(a)]
    BY ConcatProperties
  <1>5. Len(a \o c) = Len(a \o b) + 1 /\ (a \o c)[Len(a \o b) + 1] = v
    BY <1>1, <1>2, <1>3, <1>4
  <1>6. ASSUME NEW i \in 1 .. Len(a \o b) PROVE (a \o c)[i] = (a \o b)[i]
    <2>1. CASE i <= Len(a)
      BY <1>1, <1>2, <1>3, <1>4, <2>1
    <2>2. CASE i > Len(a)
      <3>1. (a \o c)[i] = c[i - Len(a)] /\ (a \o b)[i] = b[i - Len(a)] /\ i - Len(a) \in 1 .. Len(b)
        BY <1>1, <1>2, <1>3, <1>4, <2>2
      <3> QED
        BY <1>1, <3>1, Zenon
    <2>3. i \in Int /\ Len(a) \in Int
      BY <1>2, <1>4
    <2>4. i <= Len(a) \/ i > Len(a)
      BY <2>3
    <2> QED
      BY <2>1, <2>2, <2>4, Zenon
  <1> QED
    BY <1>3, <1>5, <1>6 DEF c

\* A step that leaves the streams alone, and gives no dispatcher anything new to do.
LEMMA StreamsKept ==
  ASSUME Youngest, InOrder, by' = by,
         \A w \in Watchers : Stream(w)' = Stream(w),
         \A d \in Dispatchers : dispatcher[d].todo \subseteq Watchers,
         \A d \in Dispatchers : \/ dispatcher'[d].todo = {}
                                \/ /\ dispatcher'[d].value = dispatcher[d].value
                                   /\ dispatcher'[d].todo \subseteq dispatcher[d].todo
  PROVE  Youngest' /\ InOrder'
  <1>1. InOrder'
    BY DEF InOrder
  <1>2. Youngest'
    BY DEF Youngest
  <1> QED
    BY <1>1, <1>2

LEMMA ServedFacts ==
  ASSUME TypeOK, NEW d \in Dispatchers, NEW w \in dispatcher[d].todo, dispatcher' = Served(d, w)
  PROVE  /\ dispatcher' \in [Dispatchers -> [value : 0 .. Len(by), todo : SUBSET Watchers]]
         /\ \A e \in Dispatchers \ {d} : dispatcher'[e] = dispatcher[e]
         /\ w \notin dispatcher'[d].todo
         /\ \/ dispatcher'[d].todo = {}
            \/ /\ dispatcher'[d].value = dispatcher[d].value
               /\ dispatcher'[d].todo \subseteq dispatcher[d].todo
  <1> DEFINE todo == dispatcher[d].todo \ {w}
  <1>1. dispatcher \in [Dispatchers -> [value : 0 .. Len(by), todo : SUBSET Watchers]] /\ Len(by) \in Nat
    BY DEF TypeOK
  <1>2. CASE todo = {}
    <2>1. dispatcher' = [dispatcher EXCEPT ![d] = Idle]
      BY <1>2 DEF Served
    <2> QED
      BY <1>1, <2>1 DEF Idle
  <1>3. CASE todo # {}
    <2>1. dispatcher' = [dispatcher EXCEPT ![d] = [dispatcher[d] EXCEPT !.todo = todo]]
      BY <1>1, <1>3, Zenon DEF Served
    <2>2. dispatcher[d] \in [value : 0 .. Len(by), todo : SUBSET Watchers]
      BY <1>1
    <2>3. [dispatcher[d] EXCEPT !.todo = todo] \in [value : 0 .. Len(by), todo : SUBSET Watchers]
      BY <2>2
    <2>4. dispatcher'[d].value = dispatcher[d].value /\ dispatcher'[d].todo = todo
      BY <1>1, <2>1, <2>2
    <2> QED
      BY <1>1, <2>1, <2>3, <2>4
  <1> QED
    BY <1>2, <1>3

(***************************************************************************)
(* The steps.                                                              *)
(***************************************************************************)
quietVars == <<ch, dispatcher, received, by, panicked>>

\* What watchers and Close do apart from receiving.
LEMMA QuietIInv ==
  ASSUME IInv, ~panicked, UNCHANGED quietVars, watchers' \subseteq Watchers,
         {chClosed', cancelled'} \subseteq [Watchers -> BOOLEAN],
         state' \in [Watchers -> {"none", "watching", "ended"}],
         closing' \in [pc : {"no", "closing", "closed"}, todo : SUBSET Watchers]
  PROVE  IInv'
  <1>1. TypeOK'
    BY DEF IInv, TypeOK, quietVars
  <1>2. Youngest' /\ InOrder'
    <2>1. /\ by' = by /\ \A w \in Watchers : Stream(w)' = Stream(w)
          /\ \A d \in Dispatchers : /\ dispatcher'[d].value = dispatcher[d].value
                                    /\ dispatcher'[d].todo = dispatcher[d].todo
                                    /\ dispatcher[d].todo \subseteq Watchers
      BY DEF quietVars, Stream, IInv, TypeOK
    <2> QED
      BY <2>1, StreamsKept DEF IInv
  <1>3. OnlySendsPanic'
    BY DEF OnlySendsPanic, quietVars
  <1> QED
    BY <1>1, <1>2, <1>3 DEF IInv

LEMMA ReceiveIInv ==
  ASSUME NEW w \in Watchers, IInv, ~panicked, Receive(w)
  PROVE  IInv'
  <1>0. /\ ch[w] # <<>> /\ ch[w] \in Seq(1 .. Len(by)) /\ received[w] \in Seq(1 .. Len(by))
        /\ received' = [received EXCEPT ![w] = Append(received[w], Head(ch[w]))]
        /\ ch' = [ch EXCEPT ![w] = Tail(ch[w])]
        /\ UNCHANGED <<watchers, chClosed, cancelled, state, dispatcher, closing, by, panicked>>
    BY DEF Receive, IInv, TypeOK
  <1>1. /\ Head(ch[w]) \in 1 .. Len(by) /\ Tail(ch[w]) \in Seq(1 .. Len(by)) /\ Len(Tail(ch[w])) = Len(ch[w]) - 1
        /\ Append(received[w], Head(ch[w])) \in Seq(1 .. Len(by))
    BY <1>0, HeadTailProperties, AppendProperties, Zenon
  <1>2. TypeOK'
    <2>1. {ch', received'} \subseteq [Watchers -> Seq(1 .. Len(by))]
      BY <1>0, <1>1 DEF IInv, TypeOK
    <2>2. \A v \in Watchers : Len(ch'[v]) <= Capacity
      BY <1>0, <1>1, WatcherMuxAssumption, LenProperties DEF IInv, TypeOK
    <2> QED
      BY <1>0, <2>1, <2>2, Zenon DEF IInv, TypeOK
  <1>3. \A v \in Watchers : Stream(v)' = Stream(v)
    <2>1. Append(received[w], Head(ch[w])) \o Tail(ch[w]) = received[w] \o ch[w]
      BY <1>0, MoveHead, Zenon
    <2>2. received'[w] \o ch'[w] = received[w] \o ch[w]
      BY <1>0, <2>1, Zenon DEF IInv, TypeOK
    <2>3. \A v \in Watchers \ {w} : received'[v] = received[v] /\ ch'[v] = ch[v]
      BY <1>0 DEF IInv, TypeOK
    <2> QED
      BY <2>2, <2>3, Zenon DEF Stream
  <1>4. Youngest' /\ InOrder'
    BY <1>0, <1>3, StreamsKept, Zenon DEF IInv, TypeOK
  <1>5. OnlySendsPanic'
    BY <1>0 DEF OnlySendsPanic
  <1> QED
    BY <1>2, <1>4, <1>5 DEF IInv

LEMMA DispatchIInv ==
  ASSUME NEW d \in Dispatchers, IInv, ~panicked, Dispatch(d)
  PROVE  IInv'
  <1> DEFINE n == Len(by) + 1
  <1>0. /\ by' = Append(by, d) /\ Len(by) < MaxValues
        /\ dispatcher' = [dispatcher EXCEPT ![d] = IF watchers = {} THEN Idle ELSE [value |-> n, todo |-> watchers]]
        /\ UNCHANGED <<watchers, ch, chClosed, cancelled, state, closing, received, panicked>>
    BY DEF Dispatch
  <1>1. /\ by' \in Seq(Dispatchers) /\ Len(by') = n /\ by'[n] = d /\ Len(by) \in Nat
        /\ \A x \in 1 .. Len(by) : by'[x] = by[x]
    BY <1>0, AppendProperties, LenProperties DEF IInv, TypeOK
  <1>2. \A e \in Dispatchers \ {d} : dispatcher'[e] = dispatcher[e]
    BY <1>0 DEF IInv, TypeOK
  <1>3. dispatcher'[d].todo = {} \/ (dispatcher'[d].value = n /\ dispatcher'[d].todo = watchers)
    BY <1>0, Zenon DEF IInv, TypeOK, Idle
  <1>4. TypeOK'
    <2>1. Seq(1 .. Len(by)) \subseteq Seq(1 .. n)
      BY <1>1, SeqMonotonic
    <2>2. {ch', received'} \subseteq [Watchers -> Seq(1 .. n)]
      BY <1>0, <2>1 DEF IInv, TypeOK
    <2>3. dispatcher' \in [Dispatchers -> [value : 0 .. n, todo : SUBSET Watchers]]
      BY <1>0, <1>1 DEF IInv, TypeOK, Idle
    <2>4. Len(by') <= MaxValues
      BY <1>0, <1>1, WatcherMuxAssumption
    <2> QED
      BY <1>0, <1>1, <2>2, <2>3, <2>4, Zenon DEF IInv, TypeOK
  <1>5. ASSUME NEW w \in Watchers
        PROVE  /\ Stream(w)' = Stream(w)
               /\ \A a \in DOMAIN Stream(w) : Stream(w)[a] \in 1 .. Len(by) /\ by'[Stream(w)[a]] = by[Stream(w)[a]]
    <2>1. Stream(w)' = Stream(w)
      BY <1>0 DEF Stream
    <2>2. Stream(w) \in Seq(1 .. Len(by))
      BY StreamType DEF IInv
    <2>3. \A a \in DOMAIN Stream(w) : Stream(w)[a] \in 1 .. Len(by)
      BY <2>2
    <2> QED
      BY <1>1, <2>1, <2>3
  <1>6. InOrder'
    BY <1>5 DEF IInv, InOrder
  <1>7. Youngest'
    <2> SUFFICES ASSUME NEW e \in Dispatchers, NEW w \in dispatcher'[e].todo
                 PROVE  /\ dispatcher'[e].value \in 1 .. n /\ by'[dispatcher'[e].value] = e
                        /\ \A a \in DOMAIN Stream(w) :
                              by'[Stream(w)[a]] = e => Stream(w)[a] < dispatcher'[e].value
      <3>1. \A e \in Dispatchers : dispatcher'[e].todo \subseteq Watchers
        BY <1>4 DEF TypeOK
      <3> QED
        BY <1>1, <1>5, <3>1 DEF Youngest
    <2>0. w \in Watchers
      BY <1>4 DEF TypeOK
    <2>1. CASE e # d
      <3>1. /\ w \in dispatcher[e].todo /\ dispatcher'[e].value = dispatcher[e].value
            /\ dispatcher[e].value \in 1 .. Len(by) /\ by[dispatcher[e].value] = e
            /\ \A a \in DOMAIN Stream(w) : by[Stream(w)[a]] = e => Stream(w)[a] < dispatcher[e].value
        BY <1>2, <2>1 DEF IInv, Youngest
      <3> QED
        BY <1>1, <1>5, <2>0, <3>1
    <2>2. CASE e = d
      <3>1. dispatcher'[e].value = n
        BY <1>3, <2>2
      <3>2. \A a \in DOMAIN Stream(w) : Stream(w)[a] < n
        BY <1>1, <1>5, <2>0
      <3> QED
        BY <1>1, <2>2, <3>1, <3>2
    <2> QED
      BY <2>1, <2>2
  <1>8. OnlySendsPanic'
    BY <1>0 DEF OnlySendsPanic
  <1> QED
    BY <1>4, <1>6, <1>7, <1>8 DEF IInv

LEMMA SkipIInv ==
  ASSUME NEW d \in Dispatchers, NEW w \in Watchers, IInv, ~panicked, Skip(d, w)
  PROVE  IInv'
  <1>0. /\ w \in dispatcher[d].todo /\ dispatcher' = Served(d, w)
        /\ UNCHANGED <<watchers, ch, chClosed, cancelled, state, closing, received, by, panicked>>
    BY DEF Skip
  <1>1. TypeOK'
    BY <1>0, ServedFacts, Zenon DEF IInv, TypeOK
  <1>2. Youngest' /\ InOrder'
    <2>1. \A v \in Watchers : Stream(v)' = Stream(v)
      BY <1>0, Zenon DEF Stream
    <2>2. \A e \in Dispatchers : dispatcher[e].todo \subseteq Watchers
      BY DEF IInv, TypeOK
    <2>3. \A e \in Dispatchers : \/ dispatcher'[e].todo = {}
                                 \/ /\ dispatcher'[e].value = dispatcher[e].value
                                    /\ dispatcher'[e].todo \subseteq dispatcher[e].todo
      BY <1>0, ServedFacts DEF IInv
    <2> QED
      BY <1>0, <2>1, <2>2, <2>3, StreamsKept, Zenon DEF IInv
  <1>3. OnlySendsPanic'
    BY <1>0 DEF OnlySendsPanic
  <1> QED
    BY <1>1, <1>2, <1>3 DEF IInv

\* The value is added to one stream, and its dispatcher does not serve that watcher again.
LEMMA SendIInv ==
  ASSUME NEW d \in Dispatchers, NEW w \in Watchers, IInv, ~panicked, Send(d, w)
  PROVE  IInv'
  <1> DEFINE v == dispatcher[d].value
  <1>0. /\ w \in dispatcher[d].todo
        /\ UNCHANGED <<watchers, chClosed, cancelled, state, closing, received, by>>
    BY DEF Send
  <1>1. CASE chClosed[w]
    <2>1. panicked' = TRUE /\ UNCHANGED <<ch, dispatcher>>
      BY <1>1 DEF Send
    <2>2. TypeOK'
      BY <1>0, <2>1 DEF IInv, TypeOK
    <2>3. Youngest' /\ InOrder'
      <3>1. \A u \in Watchers : Stream(u)' = Stream(u)
        BY <1>0, <2>1 DEF Stream
      <3> QED
        BY <1>0, <2>1, <3>1, StreamsKept DEF IInv, TypeOK
    <2>4. OnlySendsPanic'
      BY <1>0, <1>1, <2>1 DEF OnlySendsPanic
    <2> QED
      BY <2>2, <2>3, <2>4 DEF IInv
  <1>2. CASE ~chClosed[w] /\ Len(ch[w]) < Capacity
    <2>1. /\ ch' = [ch EXCEPT ![w] = Append(ch[w], v)] /\ dispatcher' = Served(d, w)
          /\ panicked' = panicked
      BY <1>2 DEF Send
    <2>2. /\ v \in 1 .. Len(by) /\ by[v] = d /\ Len(by) \in Nat
          /\ ch[w] \in Seq(1 .. Len(by)) /\ received[w] \in Seq(1 .. Len(by))
      BY <1>0 DEF IInv, Youngest, TypeOK
    <2>3. TypeOK'
      <3>1. Append(ch[w], v) \in Seq(1 .. Len(by)) /\ Len(Append(ch[w], v)) = Len(ch[w]) + 1 /\ Len(ch[w]) \in Nat
        BY <2>2, AppendProperties, LenProperties
      <3>2. ch' \in [Watchers -> Seq(1 .. Len(by))]
        BY <2>1, <3>1 DEF IInv, TypeOK
      <3>3. \A u \in Watchers : Len(ch'[u]) <= Capacity
        BY <1>2, <2>1, <3>1, WatcherMuxAssumption DEF IInv, TypeOK
      <3>4. dispatcher' \in [Dispatchers -> [value : 0 .. Len(by), todo : SUBSET Watchers]]
        BY <1>0, <2>1, ServedFacts, Zenon DEF IInv
      <3> QED
        BY <1>0, <2>1, <3>2, <3>3, <3>4, SMTT(30) DEF IInv, TypeOK
    <2> DEFINE old == Stream(w)
    <2> DEFINE new == Stream(w)'
    <2>4. \A u \in Watchers \ {w} : Stream(u)' = Stream(u)
      BY <1>0, <2>1, Zenon DEF Stream, IInv, TypeOK
    <2>5. /\ old \in Seq(1 .. Len(by)) /\ new \in Seq(1 .. Len(by))
          /\ Len(new) = Len(old) + 1 /\ new[Len(old) + 1] = v
          /\ \A i \in 1 .. Len(old) : new[i] = old[i]
      <3>1. old = received[w] \o ch[w] /\ new = received[w] \o Append(ch[w], v)
        BY <1>0, <2>1, Zenon DEF Stream, IInv, TypeOK
      <3>2. old \in Seq(1 .. Len(by))
        BY StreamType DEF IInv
      <3> DEFINE x == received[w]
      <3> DEFINE y == ch[w]
      <3>3. /\ x \o Append(y, v) \in Seq(1 .. Len(by))
            /\ Len(x \o Append(y, v)) = Len(x \o y) + 1 /\ (x \o Append(y, v))[Len(x \o y) + 1] = v
            /\ \A i \in 1 .. Len(x \o y) : (x \o Append(y, v))[i] = (x \o y)[i]
        <4> DEFINE S == 1 .. Len(by)
        <4>1. x \in Seq(S) /\ y \in Seq(S) /\ v \in S
          BY <2>2
        <4>2. /\ x \o Append(y, v) \in Seq(S)
              /\ Len(x \o Append(y, v)) = Len(x \o y) + 1
              /\ \A i \in 1 .. Len(x \o y) : (x \o Append(y, v))[i] = (x \o y)[i]
              /\ (x \o Append(y, v))[Len(x \o y) + 1] = v
          <5> HIDE DEF x, y, v, S
          <5> QED
            BY <4>1, AppendLast
        <4> HIDE DEF x, y, v
        <4> QED
          BY <4>2, Zenon
      <3> HIDE DEF old, new, v
      <3> QED
        BY <3>1, <3>2, <3>3, Zenon
    <2>6. /\ Len(old) \in Nat /\ DOMAIN old = 1 .. Len(old) /\ DOMAIN new = 1 .. Len(old) + 1
          /\ \A i \in 1 .. Len(old) : old[i] \in Nat
      BY <2>5, LenProperties, SMTT(30)
    <2>7. \A a \in 1 .. Len(old) : by[old[a]] = d => old[a] < v
      BY <1>0, <2>6, Zenon DEF IInv, Youngest
    <2> HIDE DEF old, new
    <2>8. ASSUME NEW a \in DOMAIN new, NEW b \in DOMAIN new, a < b, by[new[a]] = by[new[b]]
          PROVE  new[a] < new[b]
      <3>1. a \in 1 .. Len(old) /\ new[a] = old[a]
        BY <2>5, <2>6, <2>8, SMTT(30)
      <3>2. CASE b = Len(old) + 1
        BY <2>2, <2>5, <2>7, <2>8, <3>1, <3>2, Zenon
      <3>3. CASE b \in 1 .. Len(old)
        <4>1. new[b] = old[b] /\ by[old[a]] = by[old[b]]
          BY <2>5, <2>8, <3>1, <3>3, Zenon
        <4>2. old[a] < old[b]
          BY <2>6, <2>8, <3>1, <3>3, <4>1, Zenon DEF old, IInv, InOrder
        <4> QED
          BY <3>1, <4>1, <4>2
      <3>4. b = Len(old) + 1 \/ b \in 1 .. Len(old)
        BY <2>6
      <3> QED
        BY <3>2, <3>3, <3>4
    <2>9. InOrder'
      <3>1. \A a, b \in DOMAIN new : a < b /\ by[new[a]] = by[new[b]] => new[a] < new[b]
        BY <2>8
      <3> SUFFICES ASSUME NEW u \in Watchers, NEW a \in DOMAIN Stream(u)', NEW b \in DOMAIN Stream(u)',
                          a < b, by[Stream(u)'[a]] = by[Stream(u)'[b]]
                   PROVE  Stream(u)'[a] < Stream(u)'[b]
        BY <1>0 DEF InOrder
      <3>2. CASE u = w
        BY <3>1, <3>2 DEF new
      <3>3. CASE u # w
        BY <2>4, <3>3 DEF IInv, InOrder
      <3> QED
        BY <3>2, <3>3
    <2>10. Youngest'
      <3> SUFFICES ASSUME NEW e \in Dispatchers, NEW u \in dispatcher'[e].todo
                   PROVE  /\ dispatcher'[e].value \in 1 .. Len(by) /\ by[dispatcher'[e].value] = e
                          /\ \A a \in DOMAIN Stream(u)' :
                                by[Stream(u)'[a]] = e => Stream(u)'[a] < dispatcher'[e].value
        BY <1>0, Zenon DEF Youngest
      <3>1. /\ u \in dispatcher[e].todo /\ u \in Watchers /\ dispatcher'[e].value = dispatcher[e].value
            /\ e = d => u # w
        BY <1>0, <2>1, ServedFacts, Zenon DEF IInv, TypeOK
      <3>2. /\ dispatcher[e].value \in 1 .. Len(by) /\ by[dispatcher[e].value] = e
            /\ \A a \in DOMAIN Stream(u) : by[Stream(u)[a]] = e => Stream(u)[a] < dispatcher[e].value
        BY <3>1, Zenon DEF IInv, Youngest
      <3>3. CASE u # w
        BY <2>4, <3>1, <3>2, <3>3
      <3>4. CASE u = w
        <4>1. ASSUME NEW a \in DOMAIN new, by[new[a]] = e PROVE new[a] < dispatcher[e].value
          <5>1. a # Len(old) + 1
            BY <2>2, <2>5, <3>1, <3>4, <4>1, Zenon
          <5>2. a \in DOMAIN old /\ new[a] = old[a]
            BY <2>5, <2>6, <5>1
          <5> QED
            BY <3>2, <3>4, <4>1, <5>2, Zenon DEF old
        <4> QED
          BY <3>1, <3>2, <3>4, <4>1, Zenon DEF new
      <3> QED
        BY <3>3, <3>4
    <2>11. OnlySendsPanic'
      BY <2>1 DEF OnlySendsPanic
    <2> QED
      BY <2>3, <2>9, <2>10, <2>11 DEF IInv
  <1>3. CASE ~chClosed[w] /\ ~(Len(ch[w]) < Capacity)
    <2>1. Skip(d, w)
      BY <1>0, <1>3 DEF Send, Skip
    <2> QED
      BY <2>1, SkipIInv
  <1> QED
    BY <1>1, <1>2, <1>3

LEMMA NextIInv == IInv /\ [Next]_vars => IInv'
  <1> SUFFICES ASSUME IInv, [Next]_vars PROVE IInv'
    OBVIOUS
  <1>t. /\ watchers \subseteq Watchers /\ {chClosed, cancelled} \subseteq [Watchers -> BOOLEAN]
        /\ state \in [Watchers -> {"none", "watching", "ended"}]
        /\ closing \in [pc : {"no", "closing", "closed"}, todo : SUBSET Watchers]
    BY DEF IInv, TypeOK
  <1>1. CASE UNCHANGED vars
    <2>1. TypeOK' /\ OnlySendsPanic' /\ \A w : Stream(w)' = Stream(w)
      BY <1>1 DEF vars, IInv, TypeOK, OnlySendsPanic, Stream
    <2>2. Youngest' /\ InOrder'
      BY <1>1, <2>1, StreamsKept, Zenon DEF vars, IInv, TypeOK
    <2> QED
      BY <2>1, <2>2 DEF IInv
  <1>2. ASSUME ~panicked, NEW w \in Watchers, Watch(w) PROVE IInv'
    BY <1>t, <1>2, QuietIInv DEF Watch, quietVars
  <1>3. ASSUME ~panicked, NEW w \in Watchers, Cancel(w) PROVE IInv'
    <2>1. {chClosed', cancelled'} \subseteq [Watchers -> BOOLEAN]
      BY <1>t, <1>3 DEF Cancel
    <2> QED
      BY <1>t, <1>3, <2>1, QuietIInv DEF Cancel, quietVars
  <1>4. ASSUME ~panicked, NEW w \in Watchers, End(w) PROVE IInv'
    BY <1>t, <1>4, QuietIInv DEF End, quietVars
  <1>5. ASSUME ~panicked, NEW w \in Watchers, CloseOne(w) PROVE IInv'
    <2>1. {chClosed', cancelled'} \subseteq [Watchers -> BOOLEAN]
      BY <1>t, <1>5 DEF CloseOne
    <2>2. closing' \in [pc : {"no", "closing", "closed"}, todo : SUBSET Watchers]
      BY <1>t, <1>5 DEF CloseOne
    <2> QED
      BY <1>t, <1>5, <2>1, <2>2, QuietIInv DEF CloseOne, quietVars
  <1>6. CASE ~panicked /\ (CloseBegin \/ CloseEnd)
    <2>1. closing' \in [pc : {"no", "closing", "closed"}, todo : SUBSET Watchers]
      BY <1>t, <1>6 DEF CloseBegin, CloseEnd
    <2> QED
      BY <1>t, <1>6, <2>1, QuietIInv DEF CloseBegin, CloseEnd, quietVars
  <1> QED
    BY <1>1, <1>2, <1>3, <1>4, <1>5, <1>6, ReceiveIInv, DispatchIInv, SkipIInv, SendIInv DEF Next

(* Whatever cancel, Close and the dispatchers do, a value in hand stays    *)
(* younger than its dispatcher's values in the streams it is still to be   *)
(* sent to, and only a send makes the multiplexer panic.                   *)
THEOREM IInvInvariant == Spec => []IInv
  BY InitIInv, NextIInv, PTL DEF Spec

(* A channel never holds more than its capacity, and every variable has    *)
(* its type.                                                               *)
THEOREM TypeCorrect == Spec => []TypeOK
  <1>1. IInv => TypeOK
    BY DEF IInv
  <1> QED
    BY <1>1, IInvInvariant, PTL

(* A watcher sees the values of one dispatcher in the order in which they  *)
(* were dispatched, none of them twice.                                    *)
THEOREM Order == Spec => []InOrder
  <1>1. IInv => InOrder
    BY DEF IInv
  <1> QED
    BY <1>1, IInvInvariant, PTL

(* The only panic is that of a dispatcher that sends on a channel which    *)
(* cancel or Close has closed since it copied the set of watchers.         *)
THEOREM Panics == Spec => []OnlySendsPanic
  <1>1. IInv => OnlySendsPanic
    BY DEF IInv
  <1> QED
    BY <1>1, IInvInvariant, PTL
=============================================================================
