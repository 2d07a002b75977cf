------------------------------ MODULE LossyFifo ------------------------------
(***************************************************************************)
(* What internal/util/ringbuffer.go promises to its users: a bounded FIFO  *)
(* queue that never blocks the writer.  When the queue is full a write     *)
(* drops the oldest unread value; readers receive the retained values in   *)
(* the order they were written, each of them once.                         *)
(*                                                                         *)
(* A value is identified by its write number: the buffer never looks at    *)
(* the values it stores.                                                   *)
(***************************************************************************)
EXTENDS Naturals, Sequences

CONSTANTS Size,      \* capacity of the queue
          MaxWrites  \* bound on the number of writes

VARIABLES queue,     \* the retained unread values, oldest first
          written,   \* the number of values written so far
          delivered  \* the values handed to readers, in order

vars == <<queue, written, delivered>>

Init ==
    /\ queue = <<>>
    /\ written = 0
    /\ delivered = <<>>

Put ==
    /\ written < MaxWrites
    /\ written' = written + 1
    /\ queue' = Append(IF Len(queue) = Size THEN Tail(queue) ELSE queue, written + 1)
    /\ UNCHANGED delivered

Get ==
    /\ queue # <<>>
    /\ queue' = Tail(queue)
    /\ delivered' = Append(delivered, Head(queue))
    /\ UNCHANGED written

Next == Put \/ Get

Spec == Init /\ [][Next]_vars
=============================================================================
