---------------------------- MODULE MCWriteBuf ----------------------------
(***************************************************************************)
(* WriteBuf for TLC: no block is lost or shared, and the blocks implement  *)
(* a queue of bytes.                                                       *)
(***************************************************************************)
EXTENDS WriteBuf, FiniteSetsExt

\* Each block is free or belongs to one channel: append, prepend, submit,
\* consume_written and reset neither lose a block nor list it twice, also when
\* a call fails half way (the assert of BufPool::release).
BlocksConserved ==
  LET held(s) == pending[s] \o send[s]
  IN  /\ ToSet(free) \cup UNION {ToSet(held(s)) : s \in Stream} = Block
      /\ Len(free) + MapThenSumSet(LAMBDA s : Len(held(s)), Stream) = BufNum

\* What the queue arrays hold: more blocks would overwrite the oldest.
QueuesBounded ==
  \A s \in Stream : Len(pending[s]) <= Capacity /\ Len(send[s]) <= Capacity

Queue == INSTANCE ByteQueue WITH
  draft <- [s \in Stream |-> Bytes(pending[s], data)],
  out <- [s \in Stream |-> LET b == Bytes(send[s], data)
                           IN  SubSeq(b, offset[s] + 1, Len(b))],
  flight <- [s \in Stream |-> IovBytes(s)],
  Offer <- {[i \in 1..n |-> m + i] : n \in Sizes, m \in 0..MaxBytes}

\* README.md:85 and :125: append and prepend extend the draft entirely or not
\* at all, a failed submit leaves it, a write in flight keeps its bytes until
\* it completes, and a short one removes only what was written.
IsByteQueue == Queue!Spec
=============================================================================
