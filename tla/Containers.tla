----------------------------- MODULE Containers -----------------------------
(***************************************************************************)
(* The containers among the state machines of                              *)
(* internal/adapter/statemachine: array, hashmap and set.  An object is a  *)
(* record [k, v]; the array's filter and the hashmap's transformFunc, both *)
(* supplied by the user, tell objects apart by k.  A command yields the    *)
(* error it returns and the new state.                                     *)
(***************************************************************************)
EXTENDS Naturals, Sequences

Done(state) == [err |-> "nil", state |-> state]
Fails(err, state) == [err |-> err, state |-> state]

(***************************************************************************)
(* array.  Put changes every match and inserts nothing; Delete removes the *)
(* first match.                                                            *)
(***************************************************************************)
Matches(state, obj) == {i \in DOMAIN state : state[i].k = obj.k}

executePut(state, obj) == [i \in DOMAIN state |-> IF i \in Matches(state, obj) THEN obj ELSE state[i]]

First(S) == CHOOSE i \in S : \A j \in S : i <= j

executeDelete(state, obj) ==
    IF Matches(state, obj) = {} THEN Fails("ErrNotFound", state)
    ELSE LET i == First(Matches(state, obj))
         IN Done(SubSeq(state, 1, i - 1) \o SubSeq(state, i + 1, Len(state)))

arrayExecute(state, filter, verb, obj) ==
    CASE verb = "append" -> Done(Append(state, obj))
      [] verb \in {"put", "delete"} /\ ~filter -> Fails("ErrOperationRequiresAFilterFunc", state)
      [] verb = "put" -> Done(executePut(state, obj))
      [] verb = "delete" -> executeDelete(state, obj)
      [] OTHER -> Fails("ErrUnsupportedStateMachineCommand", state)

(***************************************************************************)
(* hashmap and set: functions with a finite domain, sets.  transformFunc   *)
(* may refuse an object, here one with value 0.                            *)
(***************************************************************************)
Overlay(new, state) == [j \in DOMAIN new \cup DOMAIN state |-> IF j \in DOMAIN new THEN new[j] ELSE state[j]]

Without(state, k) == [j \in DOMAIN state \ {k} |-> state[j]]

hashmapExecute(state, verb, obj) ==
    CASE obj.v = 0 -> Fails("transformFunc", state)
      [] obj.v # 0 /\ verb = "put" -> Done(Overlay([j \in {obj.k} |-> obj.v], state))
      [] obj.v # 0 /\ verb = "delete" -> Done(Without(state, obj.k))
      [] OTHER -> Fails("ErrUnsupportedStateMachineCommand", state)

setExecute(state, verb, obj) ==
    CASE verb = "put" -> Done(state \cup {obj.k})
      [] verb = "delete" -> Done(state \ {obj.k})
      [] OTHER -> Fails("ErrUnsupportedStateMachineCommand", state)

(***************************************************************************)
(* Decode: json.Unmarshal replaces a slice, but stores the entries of an   *)
(* object in the map that is there (a set is a map, too).                  *)
(***************************************************************************)
arrayDecode(state, snapshot) == snapshot
hashmapDecode(state, snapshot) == Overlay(snapshot, state)
setDecode(state, snapshot) == state \cup snapshot
=============================================================================
