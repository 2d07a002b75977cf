------------------------------ MODULE RingBuffer ------------------------------
(***************************************************************************)
(* The generic ring buffer of internal/util/ringbuffer.go.  Writers call   *)
(* Write, readers call Next in a loop (as the WAL's reader goroutine       *)
(* does).  Write runs under the mutex and is one step.  Next first takes a *)
(* token from the channel safeNext without holding the mutex and only then *)
(* locks it, so it is two steps and a Write can come in between.           *)
(*                                                                         *)
(* The buffer never inspects a value, so a value is its write number and   *)
(* nil is 0.                                                               *)
(***************************************************************************)
EXTENDS Naturals, Sequences, FiniteSets

CONSTANTS Size,       \* NewRingBuffer's argument
          Readers,    \* the goroutines that call Next
          MaxWrites   \* bound on the number of calls of Write

ASSUME RBAssumption ==
    /\ Size \in Nat \ {0}
    /\ IsFiniteSet(Readers)
    /\ MaxWrites \in Nat

VARIABLES buf,        \* rb.buf
          readIdx,    \* rb.readIdx
          writeIdx,   \* rb.writeIdx
          safeNext,   \* number of tokens in the channel rb.safeNext
          pc,         \* where each reader is in Next
          written,    \* history: number of values written
          lost,       \* history: number of values overwritten unread
          delivered   \* history: values returned by Next, in order

vars == <<buf, readIdx, writeIdx, safeNext, pc, written, lost, delivered>>

nil == 0
Slots == 0 .. Size - 1

TypeOK ==
    /\ buf \in [Slots -> Nat]
    /\ readIdx \in Slots
    /\ writeIdx \in Slots
    /\ safeNext \in 0 .. Size
    /\ pc \in [Readers -> {"waiting", "locking", "panicked"}]
    /\ written \in 0 .. MaxWrites
    /\ lost \in Nat
    /\ delivered \in Seq(Nat)

Init ==
    /\ buf = [i \in Slots |-> nil]
    /\ readIdx = 0
    /\ writeIdx = 0
    /\ safeNext = 0
    /\ pc = [r \in Readers |-> "waiting"]
    /\ written = 0
    /\ lost = 0
    /\ delivered = <<>>

\* A nil dereference is not recovered anywhere: it ends the process.
Panicked == \E r \in Readers : pc[r] = "panicked"

(***************************************************************************)
(* incReadIdx and incWriteIdx.                                             *)
(***************************************************************************)

Inc(i) == IF i + 1 > Size - 1 THEN 0 ELSE i + 1

(***************************************************************************)
(* Write.                                                                  *)
(***************************************************************************)
Overwriting == writeIdx = readIdx /\ buf[writeIdx] # nil

\* Mutant: an overwrite does not move the reader.
ReadIdxKept == readIdx

ReadIdxAfterWrite == IF Overwriting THEN Inc(readIdx) ELSE readIdx

\* Mutant: only the first write into an empty buffer wakes a reader.
TokensOnlyWhenEmpty == IF safeNext = 0 THEN 1 ELSE safeNext

\* The non-blocking send on safeNext.
TokensAfterWrite == IF safeNext < Size THEN safeNext + 1 ELSE safeNext

Write ==
    /\ ~Panicked
    /\ written < MaxWrites
    /\ readIdx' = ReadIdxAfterWrite
    /\ lost' = IF Overwriting THEN lost + 1 ELSE lost
    /\ buf' = [buf EXCEPT ![writeIdx] = written + 1]
    /\ writeIdx' = Inc(writeIdx)
    /\ safeNext' = TokensAfterWrite
    /\ written' = written + 1
    /\ UNCHANGED <<pc, delivered>>

(***************************************************************************)
(* Next: take a token, then lock the mutex and read.                       *)
(***************************************************************************)
TakeToken(r) ==
    /\ ~Panicked
    /\ pc[r] = "waiting"
    /\ safeNext > 0
    /\ safeNext' = safeNext - 1
    /\ pc' = [pc EXCEPT ![r] = "locking"]
    /\ UNCHANGED <<buf, readIdx, writeIdx, written, lost, delivered>>

ReadSlot(r) ==
    /\ ~Panicked
    /\ pc[r] = "locking"
    /\ buf' = [buf EXCEPT ![readIdx] = nil]
    /\ readIdx' = Inc(readIdx)
    /\ IF buf[readIdx] = nil
       THEN /\ pc' = [pc EXCEPT ![r] = "panicked"]
            /\ UNCHANGED delivered
       ELSE /\ pc' = [pc EXCEPT ![r] = "waiting"]
            /\ delivered' = Append(delivered, buf[readIdx])
    /\ UNCHANGED <<writeIdx, safeNext, written, lost>>

Next ==
    \/ Write
    \/ \E r \in Readers : TakeToken(r) \/ ReadSlot(r)

\* A goroutine that can run is eventually scheduled; nothing forces writes.
Fairness == \A r \in Readers : WF_vars(TakeToken(r)) /\ WF_vars(ReadSlot(r))

Spec == Init /\ [][Next]_vars /\ Fairness

(***************************************************************************)
(* Properties.                                                             *)
(***************************************************************************)

(* Next returns values in the order of the Writes and never returns one    *)
(* twice, whatever is overwritten in between (the bug described in the     *)
(* comment inside Write would break it).                                   *)
InOrder ==
    \A i, j \in DOMAIN delivered : i < j => delivered[i] < delivered[j]

(* A value is lost only by being overwritten when the buffer is full: a    *)
(* value that was neither returned nor is still stored is at least Size    *)
(* writes old.                                                             *)
LossOnlyWhenFull ==
    \A v \in 1 .. written :
        \/ \E i \in DOMAIN delivered : delivered[i] = v
        \/ \E i \in Slots : buf[i] = v
        \/ v + Size <= written

(* No lost wakeup: when the channel safeNext is empty and no reader is     *)
(* between the channel and the mutex, there is nothing left to read, so a  *)
(* reader that blocks on safeNext does not sleep on an unread value.       *)
NoLostWakeup ==
    (safeNext = 0 /\ \A r \in Readers : pc[r] = "waiting")
        => \A i \in Slots : buf[i] = nil

(* "dereferencing out is always safe", says the comment at the end of      *)
(* Next.  It is as long as readers keep up: a reader meets a nil slot only *)
(* after a value was overwritten, when the tokens may outnumber the values *)
(* by as many as were lost.                                                *)
NilOnlyAfterLoss == Panicked => lost > 0

(***************************************************************************)
(* Refinement: the unread values, from readIdx on, are the queue of a      *)
(* lossy FIFO.                                                             *)
(***************************************************************************)
Unread == written - lost - Len(delivered)

Slot(i) == IF readIdx + i - 1 > Size - 1 THEN readIdx + i - 1 - Size ELSE readIdx + i - 1

Queue == [i \in 1 .. Unread |-> buf[Slot(i)]]

Fifo == INSTANCE LossyFifo WITH queue <- Queue

(* The ring buffer implements the lossy FIFO: each Write is a Put, each    *)
(* read of a slot is a Get, and taking a token changes nothing.            *)
ImplementsLossyFifo == Fifo!Spec
=============================================================================
