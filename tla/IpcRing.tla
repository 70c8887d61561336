------------------------------ MODULE IpcRing ------------------------------
(***************************************************************************)
(* The shared-memory ring buffer of Core-1 IPC (ipc_ring_write and         *)
(* ipc_ring_read in Core-1/ipc/ipc.c) with one producer and one consumer   *)
(* on different processors.                                                *)
(*                                                                         *)
(* There is no lock: each end reads the other end's index once, copies     *)
(* byte by byte, issues a full barrier and then publishes its own index.   *)
(* head and tail are uint64_t that run free and wrap; a position is an     *)
(* index & mask, the remainder by a capacity that is a power of two.       *)
(*                                                                         *)
(* Abstracted: the barriers make the steps sequentially consistent in      *)
(* program order; the NULL and size = 0 checks have no effect on the ring. *)
(***************************************************************************)
EXTENDS Integers, Sequences, SequencesExt

CONSTANTS
  Byte,        \* byte values
  capacity,    \* ring->capacity; ring->mask is capacity - 1
  INDEX_RANGE, \* head and tail wrap here: 2^64 in the code
  MaxSize      \* bound: the size argument of one call

ASSUME RingConstants ==
  /\ capacity \in Nat \ {0} /\ INDEX_RANGE \in Nat /\ MaxSize \in Nat
  /\ capacity < INDEX_RANGE
  /\ INDEX_RANGE % capacity = 0   \* both are powers of two

VARIABLES
  data,      \* ring->data
  head,      \* ring->head, written by the producer only
  tail,      \* ring->tail, written by the consumer only
  wr,        \* the producer's call: message, bytes copied so far
  rd,        \* the consumer's call: size, bytes copied out so far
  sent,      \* history: the latest message ipc_ring_write published
  received   \* what the latest completed ipc_ring_read returned

ringvars == <<data, head, tail, wr, rd, sent, received>>

Pos == 0 .. capacity - 1
Index == 0 .. INDEX_RANGE - 1
Messages == SeqOf(Byte, MaxSize) \ {<<>>}
NoWrite == [msg |-> <<>>, done |-> 0]
NoRead == [size |-> 0, buf |-> <<>>]

\* head - tail in unsigned arithmetic.
ipc_ring_used == (head - tail) % INDEX_RANGE

ipc_ring_available == capacity - ipc_ring_used

\* Position of byte i of a transfer that starts at an index: the first part
\* runs to the end of the array, the rest continues at position 0.
ByteAt(index, i) ==
  LET pos == index % capacity
      first_part == capacity - pos
  IN  IF i < first_part THEN pos + i ELSE i - first_part

RingInit ==
  /\ data \in [Pos -> Byte]
  /\ head = 0 /\ tail = 0
  /\ wr = NoWrite /\ rd = NoRead
  /\ sent = <<>> /\ received = <<>>

-----------------------------------------------------------------------------
(* The producer. *)

\* Mutant: one byte too many is accepted.
ipc_ring_write_OneTooMany(m) ==
  /\ wr = NoWrite
  /\ Len(m) <= ipc_ring_available + 1
  /\ wr' = [msg |-> m, done |-> 0]
  /\ UNCHANGED <<data, head, tail, rd, sent, received>>

\* The check: the message fits in what is free now.  A call that does not fit
\* returns -2 and changes nothing.
ipc_ring_write(m) ==
  /\ wr = NoWrite
  /\ Len(m) <= ipc_ring_available
  /\ wr' = [msg |-> m, done |-> 0]
  /\ UNCHANGED <<data, head, tail, rd, sent, received>>

\* memcpy moves the next byte into the ring.
WriteByte ==
  /\ wr.done < Len(wr.msg)
  /\ data' = [data EXCEPT ![ByteAt(head, wr.done)] = wr.msg[wr.done + 1]]
  /\ wr' = [wr EXCEPT !.done = @ + 1]
  /\ UNCHANGED <<head, tail, rd, sent, received>>

\* Mutant: head is published before the copy is complete.
WritePublish_Early ==
  /\ wr # NoWrite
  /\ head' = (head + Len(wr.msg)) % INDEX_RANGE
  /\ wr' = NoWrite
  /\ sent' = wr.msg
  /\ UNCHANGED <<data, tail, rd, received>>

\* Behind the write barrier, head makes the message visible.
WritePublish ==
  /\ wr # NoWrite /\ wr.done = Len(wr.msg)
  /\ head' = (head + Len(wr.msg)) % INDEX_RANGE
  /\ wr' = NoWrite
  /\ sent' = wr.msg
  /\ UNCHANGED <<data, tail, rd, received>>

-----------------------------------------------------------------------------
(* The consumer. *)

\* The check: that many bytes are there.  Otherwise -2 and no change.
ipc_ring_read(n) ==
  /\ rd = NoRead
  /\ n <= ipc_ring_used
  /\ rd' = [size |-> n, buf |-> <<>>]
  /\ UNCHANGED <<data, head, tail, wr, sent, received>>

\* memcpy moves the next byte out of the ring.
ReadByte ==
  /\ Len(rd.buf) < rd.size
  /\ rd' = [rd EXCEPT !.buf = Append(@, data[ByteAt(tail, Len(rd.buf))])]
  /\ UNCHANGED <<data, head, tail, wr, sent, received>>

\* Behind the read barrier, tail frees the space; the caller has its bytes.
ReadRelease ==
  /\ rd # NoRead /\ Len(rd.buf) = rd.size
  /\ tail' = (tail + rd.size) % INDEX_RANGE
  /\ received' = rd.buf
  /\ rd' = NoRead
  /\ UNCHANGED <<data, head, wr, sent>>

Producer == (\E m \in Messages : ipc_ring_write(m)) \/ WriteByte \/ WritePublish
Consumer == (\E n \in 1 .. MaxSize : ipc_ring_read(n)) \/ ReadByte \/ ReadRelease
RingNext == Producer \/ Consumer

RingSpec == RingInit /\ [][RingNext]_ringvars

-----------------------------------------------------------------------------
(* Properties. *)

\* Every variable has the type its C declaration gives it.
RingTypeOK ==
  /\ data \in [Pos -> Byte]
  /\ head \in Index /\ tail \in Index
  /\ wr.msg \in Messages \cup {<<>>} /\ wr.done \in 0 .. Len(wr.msg)
  /\ rd.size \in 0 .. MaxSize /\ rd.buf \in SeqOf(Byte, rd.size)
  /\ sent \in Messages \cup {<<>>}
  /\ received \in Messages \cup {<<>>}

\* The indices never run apart by more than the capacity, so the unsigned
\* subtraction in ipc_ring_available cannot go below zero and let a write of
\* any size through.
NeverOverfull == ipc_ring_used <= capacity

\* The positions the producer is filling are not ones a read may still copy.
PartsDisjoint ==
  LET writing == {ByteAt(head, i) : i \in 0 .. Len(wr.msg) - 1}
      readable == {ByteAt(tail, i) : i \in 0 .. ipc_ring_used - 1}
  IN  writing \cap readable = {}

\* The bytes of the ring that are published and not yet released.
Published == [i \in 1 .. ipc_ring_used |-> data[ByteAt(tail, i - 1)]]

Fifo == INSTANCE ByteFifo WITH Capacity <- capacity, queue <- Published

\* The ring with its byte-wise copies, free-running indices and stale index
\* reads implements the atomic FIFO.
ImplementsFifo == Fifo!Spec

\* The ring's bookkeeping: indices within their range and at most the capacity
\* apart, and producer and consumer on different bytes.
RingSound == RingTypeOK /\ NeverOverfull /\ PartsDisjoint
=============================================================================
