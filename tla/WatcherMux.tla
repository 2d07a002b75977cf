----------------------------- MODULE WatcherMux -----------------------------
(***************************************************************************)
(* The watcher multiplexer (internal/util/watchermux.go): goroutines that  *)
(* dispatch values, watchers that receive them on channels of their own,   *)
(* and the Close of the multiplexer.  mu protects the set of watchers and  *)
(* is never held across two steps; what a dispatcher or Close does with    *)
(* its copy of the set happens outside mu.                                 *)
(*                                                                         *)
(* Values are numbered in the order in which they are dispatched.  A       *)
(* filter may refuse any value.  The dispatch functions differ in how long *)
(* they wait for a full channel, so they drop in the same states.          *)
(***************************************************************************)
EXTENDS Naturals, Sequences, FiniteSets

CONSTANTS Watchers, Dispatchers,
          Capacity,   \* watcherChCapacity
          MaxValues   \* bound: values dispatched

ASSUME WatcherMuxAssumption ==
    /\ IsFiniteSet(Watchers) /\ IsFiniteSet(Dispatchers)
    /\ Capacity \in Nat \ {0} /\ MaxValues \in Nat

VARIABLES
    watchers,    \* the registered watchers
    ch,          \* content of every watcher's channel
    chClosed,    \* the watcher's channel is closed
    cancelled,   \* the watcher's doneCh is closed
    state,       \* "none", "watching" or "ended": the watcher's goroutine
    dispatcher,  \* the value in hand, 0 if none, and the watchers to serve
    closing,     \* Close: "no", "closing" or "closed", and channels to close
    received,    \* history: what every watcher received
    by,          \* history: who dispatched each value
    panicked

vars == <<watchers, ch, chClosed, cancelled, state, dispatcher, closing, received, by, panicked>>

Idle == [value |-> 0, todo |-> {}]

Init ==
    /\ watchers = {}
    /\ ch = [w \in Watchers |-> <<>>]
    /\ chClosed = [w \in Watchers |-> FALSE]
    /\ cancelled = [w \in Watchers |-> FALSE]
    /\ state = [w \in Watchers |-> "none"]
    /\ dispatcher = [d \in Dispatchers |-> Idle]
    /\ closing = [pc |-> "no", todo |-> {}]
    /\ received = [w \in Watchers |-> <<>>]
    /\ by = <<>>
    /\ panicked = FALSE

Watch(w) ==
    /\ state[w] = "none"
    /\ watchers' = watchers \cup {w}
    /\ state' = [state EXCEPT ![w] = "watching"]
    /\ UNCHANGED <<ch, chClosed, cancelled, dispatcher, closing, received, by, panicked>>

\* Mutant: cancel closes the channel without closeOnce.
CancelClosesAgain(w) ==
    /\ state[w] # "none" /\ ~cancelled[w]
    /\ IF chClosed[w] THEN panicked' = TRUE ELSE UNCHANGED panicked
    /\ cancelled' = [cancelled EXCEPT ![w] = TRUE]
    /\ chClosed' = [chClosed EXCEPT ![w] = TRUE]
    /\ watchers' = watchers \ {w}
    /\ state' = [state EXCEPT ![w] = "ended"]
    /\ UNCHANGED <<ch, dispatcher, closing, received, by>>

\* The cancel func, which a watcher calls once, also when it ended because
\* its channel was closed.
Cancel(w) ==
    /\ state[w] # "none" /\ ~cancelled[w]
    /\ cancelled' = [cancelled EXCEPT ![w] = TRUE]
    /\ chClosed' = [chClosed EXCEPT ![w] = TRUE]
    /\ watchers' = watchers \ {w}
    /\ state' = [state EXCEPT ![w] = "ended"]
    /\ UNCHANGED <<ch, dispatcher, closing, received, by, panicked>>

Receive(w) ==
    /\ state[w] = "watching"
    /\ ch[w] # <<>>
    /\ received' = [received EXCEPT ![w] = Append(@, Head(ch[w]))]
    /\ ch' = [ch EXCEPT ![w] = Tail(@)]
    /\ UNCHANGED <<watchers, chClosed, cancelled, state, dispatcher, closing, by, panicked>>

\* The watcher finds its channel closed and empty.
End(w) ==
    /\ state[w] = "watching"
    /\ chClosed[w] /\ ch[w] = <<>>
    /\ state' = [state EXCEPT ![w] = "ended"]
    /\ UNCHANGED <<watchers, ch, chClosed, cancelled, dispatcher, closing, received, by, panicked>>

\* Dispatch and its getWatcherList.
Dispatch(d) ==
    /\ dispatcher[d] = Idle
    /\ Len(by) < MaxValues
    /\ by' = Append(by, d)
    /\ dispatcher' = [dispatcher EXCEPT ![d] =
                        IF watchers = {} THEN Idle ELSE [value |-> Len(by) + 1, todo |-> watchers]]
    /\ UNCHANGED <<watchers, ch, chClosed, cancelled, state, closing, received, panicked>>

\* The dispatcher is through with watcher w.
Served(d, w) ==
    LET todo == dispatcher[d].todo \ {w}
    IN [dispatcher EXCEPT ![d] = IF todo = {} THEN Idle ELSE [@ EXCEPT !.todo = todo]]

\* The filter refuses, or doneCh is closed.
Skip(d, w) ==
    /\ w \in dispatcher[d].todo
    /\ dispatcher' = Served(d, w)
    /\ UNCHANGED <<watchers, ch, chClosed, cancelled, state, closing, received, by, panicked>>

\* Mutant: the newest value replaces the one that waits in a full channel.
SendReplacing(d, w) ==
    /\ w \in dispatcher[d].todo
    /\ IF chClosed[w]
       THEN panicked' = TRUE /\ UNCHANGED <<ch, dispatcher>>
       ELSE /\ ch' = [ch EXCEPT ![w] =
                        IF Len(@) < Capacity THEN Append(@, dispatcher[d].value)
                        ELSE <<dispatcher[d].value>> \o Tail(@)]
            /\ dispatcher' = Served(d, w)
            /\ UNCHANGED panicked
    /\ UNCHANGED <<watchers, chClosed, cancelled, state, closing, received, by>>

\* w.ch <- v: a panic if the channel is closed, dropped if it stays full.
Send(d, w) ==
    /\ w \in dispatcher[d].todo
    /\ IF chClosed[w]
       THEN panicked' = TRUE /\ UNCHANGED <<ch, dispatcher>>
       ELSE /\ ch' = IF Len(ch[w]) < Capacity
                     THEN [ch EXCEPT ![w] = Append(@, dispatcher[d].value)] ELSE ch
            /\ dispatcher' = Served(d, w)
            /\ UNCHANGED panicked
    /\ UNCHANGED <<watchers, chClosed, cancelled, state, closing, received, by>>

CloseBegin ==
    /\ closing.pc = "no"
    /\ closing' = [pc |-> "closing", todo |-> watchers]
    /\ UNCHANGED <<watchers, ch, chClosed, cancelled, state, dispatcher, received, by, panicked>>

\* Mutant: Close unregisters a watcher and leaves its channel open.
CloseOneForgets(w) ==
    /\ w \in closing.todo
    /\ watchers' = watchers \ {w}
    /\ closing' = [closing EXCEPT !.todo = @ \ {w}]
    /\ UNCHANGED <<ch, chClosed, cancelled, state, dispatcher, received, by, panicked>>

CloseOne(w) ==
    /\ w \in closing.todo
    /\ chClosed' = [chClosed EXCEPT ![w] = TRUE]
    /\ closing' = [closing EXCEPT !.todo = @ \ {w}]
    /\ UNCHANGED <<watchers, ch, cancelled, state, dispatcher, received, by, panicked>>

CloseEnd ==
    /\ closing.pc = "closing" /\ closing.todo = {}
    /\ closing' = [closing EXCEPT !.pc = "closed"]
    /\ UNCHANGED <<watchers, ch, chClosed, cancelled, state, dispatcher, received, by, panicked>>

Next ==
    /\ ~panicked
    /\ \/ \E w \in Watchers : Watch(w) \/ Cancel(w) \/ Receive(w) \/ End(w) \/ CloseOne(w)
       \/ \E d \in Dispatchers : Dispatch(d) \/ \E w \in Watchers : Skip(d, w) \/ Send(d, w)
       \/ CloseBegin \/ CloseEnd

\* Watchers receive until their channel is closed, and Close goes on.
Fairness ==
    /\ \A w \in Watchers : WF_vars(~panicked /\ (Receive(w) \/ End(w))) /\ WF_vars(~panicked /\ CloseOne(w))
    /\ WF_vars(~panicked /\ CloseEnd)

Spec == Init /\ [][Next]_vars /\ Fairness

(***************************************************************************)
(* Properties.                                                             *)
(***************************************************************************)
TypeOK ==
    /\ watchers \subseteq Watchers
    /\ {ch, received} \subseteq [Watchers -> Seq(1 .. Len(by))]
    /\ \A w \in Watchers : Len(ch[w]) <= Capacity
    /\ {chClosed, cancelled} \subseteq [Watchers -> BOOLEAN]
    /\ state \in [Watchers -> {"none", "watching", "ended"}]
    /\ dispatcher \in [Dispatchers -> [value : 0 .. Len(by), todo : SUBSET Watchers]]
    /\ closing \in [pc : {"no", "closing", "closed"}, todo : SUBSET Watchers]
    /\ by \in Seq(Dispatchers) /\ Len(by) <= MaxValues
    /\ panicked \in BOOLEAN

Stream(w) == received[w] \o ch[w]

(* A watcher sees the values of one dispatcher in the order in which they  *)
(* were dispatched and none of them twice, whatever is dropped and however *)
(* other dispatchers come in between.                                      *)
InOrder ==
    \A w \in Watchers : \A a, b \in DOMAIN Stream(w) :
        a < b /\ by[Stream(w)[a]] = by[Stream(w)[b]] => Stream(w)[a] < Stream(w)[b]

(* No channel is closed twice, whichever of cancel and Close comes first:  *)
(* the only panic is that of a dispatcher whose copy of the set of         *)
(* watchers holds one whose channel has been closed.                       *)
OnlySendsPanic ==
    panicked => \E d \in Dispatchers : \E w \in dispatcher[d].todo : chClosed[w]

(* Close reaches every watcher that was registered when it started: the    *)
(* watcher gets what is in its channel and then sees the end.              *)
CloseEndsWatchers == \A w \in Watchers : (w \in closing.todo) ~> (state[w] = "ended" \/ panicked)
=============================================================================
