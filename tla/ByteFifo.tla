------------------------------ MODULE ByteFifo ------------------------------
(***************************************************************************)
(* What a shared-memory ring promises its two ends: a bounded FIFO of      *)
(* bytes.  A write appends a whole message or nothing; a read removes and  *)
(* returns the oldest bytes, in order, each byte once.                     *)
(***************************************************************************)
EXTENDS Integers, Sequences, SequencesExt

CONSTANTS
  Byte,      \* byte values
  Capacity,  \* bytes the FIFO can hold
  MaxSize    \* bound: bytes of one write or read

VARIABLES
  sent,      \* the latest message a write accepted
  queue,     \* bytes written and not yet read
  received   \* what the latest completed read returned

Messages == SeqOf(Byte, MaxSize) \ {<<>>}

Init == sent = <<>> /\ queue = <<>> /\ received = <<>>

Put ==
  \E m \in Messages :
    /\ Len(queue) + Len(m) <= Capacity
    /\ sent' = m
    /\ queue' = queue \o m
    /\ UNCHANGED received

Get ==
  \E n \in 1 .. MaxSize :
    /\ n <= Len(queue)
    /\ received' = SubSeq(queue, 1, n)
    /\ queue' = SubSeq(queue, n + 1, Len(queue))
    /\ UNCHANGED sent

Next == Put \/ Get

Spec == Init /\ [][Next]_<<sent, queue, received>>
=============================================================================
