---------------------------- MODULE StateMachines ----------------------------
(***************************************************************************)
(* A state machine of internal/adapter/statemachine in use: commands, its  *)
(* State handed out, a fork made with DeepCopy that executes commands of   *)
(* its own, and a snapshot that is encoded now and decoded later.          *)
(*                                                                         *)
(* Slices and maps are references: heap holds the values, and a machine    *)
(* changes the value its reference denotes in place.  int64 is reduced to  *)
(* -Half .. Half - 1.  No machine locks; calls follow one another.         *)
(***************************************************************************)
EXTENDS Containers, Integers

CONSTANTS Half,         \* 2^63
          Keys, Values, \* of objects, which are [k, v]; a counter takes v
          Bounds,       \* values for the counter's maximum and minimum
          MaxCommands   \* bound: commands executed

ASSUME StateMachinesAssumption ==
    /\ Half \in Nat \ {0}
    /\ Values # {} /\ Values \subseteq 0 .. Half - 1
    /\ Bounds \subseteq 0 .. Half - 1

Kinds == {"array", "hashmap", "set", "counter"}
Verbs == {"append", "put", "delete", "add", "subtract"}

VARIABLES kind,
          opts,      \* of each machine: the filter is set; allowOverflow, maxVal, minVal
          heap,      \* the values of the references
          ref,       \* reference of each machine, 0 for none
          handed,    \* a state handed out: its reference, 0 for none, and its value then
          buf,       \* the snapshot: {} for none
          commands,  \* number of commands executed
          own,       \* history: what each machine's own commands make of its first state
          exact      \* history: the sum a counter stands for

vars == <<kind, opts, heap, ref, handed, buf, commands, own, exact>>

\* A counter takes integers; only equality of the values matters to the others.
Objs == IF kind = "counter" THEN [k : {0}, v : Values \cup {-1}] ELSE [k : Keys, v : {0, 1}]

Machines == {"stm", "fork"}
Present == {m \in Machines : ref[m] # 0}
Current(m) == heap[ref[m]]

(***************************************************************************)
(* counter.  An optional value is the set of it.                           *)
(***************************************************************************)
Wrap(n) == ((n + Half) % (2 * Half)) - Half
Value(S) == CHOOSE v \in S : TRUE

\* Mutant: the maximum is looked at after an overflow only.
HitsMaxOnOverflow(o, state, flown) == o.maxVal # {} /\ flown

HasOverflown(new, state) == new < state

\* The maximum is compared with the state before the addition.
HitsMax(o, state, flown) == \E mx \in o.maxVal : flown \/ state > mx

add(o, state, i) ==
    LET new == Wrap(state + i)
        flown == HasOverflown(new, state)
    IN CASE i < 0 -> Fails("ErrInputMustBeAPositiveInteger", state)
         [] i = 0 -> Done(state)
         [] i > 0 /\ HitsMax(o, state, flown) -> Done(Value(o.maxVal))
         [] OTHER -> IF flown /\ ~o.allowOverflow THEN Fails("ErrNoOverflow", state) ELSE Done(new)

subtract(o, state, i) ==
    LET new == Wrap(state - i)
        flown == new > state
    IN CASE i < 0 -> Fails("ErrInputMustBeAPositiveInteger", state)
         [] i = 0 -> Done(state)
         [] i > 0 /\ (\E mn \in o.minVal : flown \/ state < mn) -> Done(Value(o.minVal))
         [] OTHER -> IF flown /\ ~o.allowOverflow THEN Fails("ErrNoUnderflow", state) ELSE Done(new)

counterExecute(o, state, verb, i) ==
    CASE verb = "add" -> add(o, state, i)
      [] verb = "subtract" -> subtract(o, state, i)
      [] OTHER -> Fails("ErrUnsupportedStateMachineCommand", state)

(***************************************************************************)
(* The interface types.StateMachine.                                       *)
(***************************************************************************)
Result(o, state, verb, obj) ==
    CASE kind = "array" -> arrayExecute(state, o.filter, verb, obj)
      [] kind = "hashmap" -> hashmapExecute(state, verb, obj)
      [] kind = "set" -> setExecute(state, verb, obj)
      [] kind = "counter" -> counterExecute(o, state, verb, obj.v)

\* Mutant: Unmarshal appends to a slice.
DecodedAppending(state, snapshot) ==
    CASE kind = "array" -> state \o snapshot
      [] kind = "hashmap" -> hashmapDecode(state, snapshot)
      [] kind = "set" -> setDecode(state, snapshot)
      [] kind = "counter" -> snapshot

Decoded(state, snapshot) ==
    CASE kind = "array" -> arrayDecode(state, snapshot)
      [] kind = "hashmap" -> hashmapDecode(state, snapshot)
      [] kind = "set" -> setDecode(state, snapshot)
      [] kind = "counter" -> snapshot

Initial == CASE kind = "array" -> <<>> [] kind = "hashmap" -> [k \in {} |-> 0]
             [] kind = "set" -> {} [] kind = "counter" -> 0

Options ==
    [filter : BOOLEAN, allowOverflow : {FALSE}, maxVal : {{}}, minVal : {{}}]
        \cup [filter : {FALSE}, allowOverflow : BOOLEAN,
              maxVal : {{}} \cup {{b} : b \in Bounds}, minVal : {{}} \cup {{-b} : b \in Bounds}]

Init ==
    /\ kind \in Kinds
    /\ \E o \in Options : opts = [m \in Machines |-> o]
    /\ opts["stm"].filter => kind = "array"
    /\ kind # "counter" => ~opts["stm"].allowOverflow /\ opts["stm"].maxVal = {} /\ opts["stm"].minVal = {}
    /\ heap = [r \in 1 .. 3 |-> Initial]
    /\ ref = [m \in Machines |-> IF m = "stm" THEN 1 ELSE 0]
    /\ handed = [ref |-> 0, val |-> Initial]
    /\ buf = {} /\ commands = 0
    /\ own = [m \in Machines |-> Initial]
    /\ exact = 0

Signed(verb, i) == IF verb = "add" THEN i ELSE -i

Execute(m, verb, obj) ==
    /\ m \in Present /\ commands < MaxCommands
    /\ LET res == Result(opts[m], Current(m), verb, obj)
       IN /\ heap' = [heap EXCEPT ![ref[m]] = res.state]
          /\ exact' = IF kind = "counter" /\ m = "stm" /\ res.err = "nil" THEN exact + Signed(verb, obj.v) ELSE exact
    /\ own' = [own EXCEPT ![m] = Result(opts[m], @, verb, obj).state]
    /\ commands' = commands + 1
    /\ UNCHANGED <<kind, opts, ref, handed, buf>>

\* Mutant: the live slice or map is handed out.
CopiedToShared(m, r) == ref[m]

\* The reference State returns: a new one, with a copy.
CopiedTo(m, r) == r

State ==
    /\ handed.ref = 0
    /\ handed' = [ref |-> CopiedTo("stm", 3), val |-> Current("stm")]
    /\ heap' = [heap EXCEPT ![3] = Current("stm")]
    /\ UNCHANGED <<kind, opts, ref, buf, commands, own, exact>>

\* Mutant: the minimum is not copied.
ForkOptionsNoMin(o) == [o EXCEPT !.allowOverflow = FALSE, !.minVal = {}]

\* allowOverflow is not copied.
ForkOptions(o) == [o EXCEPT !.allowOverflow = FALSE]

DeepCopy ==
    /\ ref["fork"] = 0
    /\ ref' = [ref EXCEPT !["fork"] = CopiedTo("stm", 2)]
    /\ heap' = [heap EXCEPT ![2] = Current("stm")]
    /\ opts' = [opts EXCEPT !["fork"] = ForkOptions(opts["stm"])]
    /\ own' = [own EXCEPT !["fork"] = Current("stm")]
    /\ UNCHANGED <<kind, handed, buf, commands, exact>>

Encode ==
    /\ buf = {}
    /\ buf' = {Current("stm")}
    /\ UNCHANGED <<kind, opts, heap, ref, handed, commands, own, exact>>

Decode(m) ==
    /\ m \in Present /\ buf # {}
    /\ heap' = [heap EXCEPT ![ref[m]] = Decoded(@, Value(buf))]
    /\ own' = [own EXCEPT ![m] = Decoded(@, Value(buf))]
    /\ exact' = IF m = "stm" /\ kind = "counter" THEN Value(buf) ELSE exact
    /\ buf' = {}
    /\ UNCHANGED <<kind, opts, ref, handed, commands>>

Next ==
    \/ \E m \in Machines, verb \in Verbs, obj \in Objs : Execute(m, verb, obj)
    \/ State \/ DeepCopy \/ Encode
    \/ \E m \in Machines : Decode(m)

Spec == Init /\ [][Next]_vars

(***************************************************************************)
(* Properties.                                                             *)
(***************************************************************************)

(* What State returned never changes, and a machine has the state that its *)
(* own commands make of the one it started with: a fork, its original and  *)
(* the states handed out do not reach each other through a shared slice or *)
(* map.                                                                    *)
Isolated ==
    /\ handed.ref # 0 => heap[handed.ref] = handed.val
    /\ \A m \in Present : Current(m) = own[m]

(* A fork in the state of its original answers every command as the        *)
(* original would, with the same error and the same new state.  The one    *)
(* exception is a counter that may overflow, whose forks may not.          *)
ForksAgree ==
    (/\ Present = Machines /\ Current("stm") = Current("fork") /\ ~opts["stm"].allowOverflow)
        => \A verb \in Verbs, obj \in Objs :
               Result(opts["stm"], Current("stm"), verb, obj) = Result(opts["fork"], Current("fork"), verb, obj)

HasMore(state, snapshot) ==
    CASE kind = "hashmap" -> ~(DOMAIN state \subseteq DOMAIN snapshot)
      [] kind = "set" -> ~(state \subseteq snapshot)
      [] OTHER -> FALSE

(* Decoding a snapshot brings the machine back to the state it was taken   *)
(* of, whatever was executed since; only keys a map or set did not have    *)
(* then survive, because Decode merges.                                    *)
DecodeRestores ==
    [][\A m \in Present : (buf # {} /\ buf' = {} /\ own'[m] # own[m])
           => heap'[ref[m]] = Value(buf) \/ HasMore(Current(m), Value(buf))]_vars

Largest == CHOOSE v \in Values : \A w \in Values : w <= v

(* A counter without bounds stands for the sum of what it accepted: an     *)
(* addition or subtraction that leaves int64 is refused, and wraps only if *)
(* that was asked for.  One with bounds that may not overflow passes its   *)
(* maximum, or minimum, by one addition at most: the bound is compared     *)
(* with the state before the addition, so that one may pass it, but the    *)
(* next comes back to it.                                                  *)
CounterExact ==
    kind = "counter" =>
        /\ (opts["stm"].maxVal = {} /\ opts["stm"].minVal = {})
            => Current("stm") = (IF opts["stm"].allowOverflow THEN Wrap(exact) ELSE exact)
        /\ ~opts["stm"].allowOverflow =>
            \A m \in Present :
                /\ \A mx \in opts[m].maxVal : Current(m) <= mx + Largest
                /\ \A mn \in opts[m].minVal : Current(m) >= mn - Largest
=============================================================================
