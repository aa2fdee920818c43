------------------------------ MODULE ReadBuf -------------------------------
(***************************************************************************)
(* ReadBufStream over BufRing: the receive queues of several connections   *)
(* that share one ring of provided buffers.  head_ and tail_ are unsigned  *)
(* counters that wrap at Wrap (2^32 in the code).  A byte is its position  *)
(* in its connection's stream modulo Mod, which tells apart all the bytes  *)
(* the buffers can hold.                                                   *)
(***************************************************************************)
EXTENDS Integers, FiniteSets, SequencesExt

CONSTANTS
  Stream,
  BufNum,    \* buffers of the ring, a power of two
  BufSize,   \* bytes of a buffer
  Wrap       \* the range of head_ and tail_, a larger power of two

VARIABLES
  ring,      \* buffers offered to the kernel, oldest first
  buf,       \* the bytes of a buffer; their number is data_size_
  rb,        \* a ReadBufStream: buf_queue_, head_, tail_, head_offset_,
             \* readable_bytes_
  received,  \* the next byte of the connection
  consumed   \* the next byte the application will consume

vars == <<ring, buf, rb, received, consumed>>

Buf  == 1..BufNum
Mod  == BufNum * BufSize + 1
Run(first, n) == [k \in 1..n |-> (first + k - 1) % Mod]

Init ==
  /\ ring = [i \in Buf |-> i]
  /\ buf = [b \in Buf |-> <<>>]
  /\ rb = [s \in Stream |-> [buf_queue |-> [i \in 0..BufNum - 1 |-> 0],
             head |-> 0, tail |-> 0, head_offset |-> 0, readable |-> 0]]
  /\ received = [s \in Stream |-> 0]
  /\ consumed = [s \in Stream |-> 0]

Count(r)  == (r.tail - r.head) % Wrap          \* tail_ - head_, unsigned

\* A completion of the receive: the kernel has filled the oldest buffer with n
\* bytes; set_buf_data_size and push_buf, whose result is ignored.
Receive(s, n) ==
  /\ ring # <<>>
  /\ ring' = Tail(ring)
  /\ buf' = [buf EXCEPT ![Head(ring)] = Run(received[s], n)]
  /\ received' = [received EXCEPT ![s] = (@ + n) % Mod]
  /\ rb' = IF Count(rb[s]) >= BufNum THEN rb
           ELSE [rb EXCEPT ![s].buf_queue[rb[s].tail % BufNum] = Head(ring),
                           ![s].tail = (@ + 1) % Wrap, ![s].readable = @ + n]
  /\ UNCHANGED consumed

\* The bytes of the first k blocks.
Bytes(r, k) ==
  FlattenSeq([j \in 1..k |-> buf[r.buf_queue[(r.head + j - 1) % BufNum]]])

\* Defect: head_offset_ is not subtracted from the first piece.
PeekPastOffset(r, size) ==
  LET bytes == Bytes(r, IF r.head < r.tail THEN r.tail - r.head ELSE 0)
  IN  SubSeq(bytes, 1, IF size < Len(bytes) THEN size ELSE Len(bytes))

\* peek(size) for size <= readable_bytes_: the pieces it returns, as one
\* sequence.  The loop runs while i < tail_.
Peek(r, size) ==
  LET bytes == Bytes(r, IF r.head < r.tail THEN r.tail - r.head ELSE 0)
      last  == r.head_offset + size
  IN  SubSeq(bytes, r.head_offset + 1, IF last < Len(bytes) THEN last ELSE Len(bytes))

\* Defect: the blocks used up stay where they are.
consumeNoRelease(r, size) ==
  LET goal == r.head_offset + size
      used == CHOOSE k \in 0..Count(r) :
                /\ Len(Bytes(r, k)) <= goal
                /\ k < Count(r) => Len(Bytes(r, k + 1)) > goal
  IN  [ring |-> ring, buf |-> buf,
       rb   |-> [r EXCEPT !.head = (@ + used) % Wrap, !.readable = @ - size,
                          !.head_offset = goal - Len(Bytes(r, used))]]

\* consume(size) for size <= readable_bytes_: the blocks used up go back to the
\* ring in their order (BufRing::release).
consume(r, size) ==
  LET goal == r.head_offset + size
      used == CHOOSE k \in 0..Count(r) :
                /\ Len(Bytes(r, k)) <= goal
                /\ k < Count(r) => Len(Bytes(r, k + 1)) > goal
      done == [j \in 1..used |-> r.buf_queue[(r.head + j - 1) % BufNum]]
  IN  [ring |-> ring \o done,
       buf  |-> [b \in Buf |-> IF b \in Range(done) THEN <<>> ELSE buf[b]],
       rb   |-> [r EXCEPT !.head = (@ + used) % Wrap, !.readable = @ - size,
                          !.head_offset = goal - Len(Bytes(r, used))]]

Consume(s, size) ==
  LET c == consume(rb[s], size)
  IN  /\ size <= rb[s].readable
      /\ ring' = c.ring /\ buf' = c.buf /\ rb' = [rb EXCEPT ![s] = c.rb]
      /\ consumed' = [consumed EXCEPT ![s] = (@ + size) % Mod]
      /\ UNCHANGED received

\* reset, at the end of a connection; the next one starts a new stream.
Reset(s) ==
  LET c == consume(rb[s], rb[s].readable)
  IN  /\ ring' = c.ring /\ buf' = c.buf
      /\ rb' = [rb EXCEPT ![s] = [c.rb EXCEPT !.head_offset = 0, !.head = 0, !.tail = 0]]
      /\ received' = [received EXCEPT ![s] = 0]
      /\ consumed' = [consumed EXCEPT ![s] = 0]

Next == \E s \in Stream :
  \/ \E n \in 1..BufSize : Receive(s, n)
  \/ \E size \in 1..BufNum * BufSize : Consume(s, size)
  \/ Reset(s)

Spec == Init /\ [][Next]_vars

-----------------------------------------------------------------------------
(* Properties. *)

\* peek returns exactly the next bytes of the stream and readable_bytes_ counts
\* what was received and not consumed, for every size, with partly consumed
\* blocks and after a reset.  When tail_ has wrapped and head_ has not, the
\* test i < tail_ of peek makes it return nothing at all.
PeekExact ==
  \A s \in Stream : LET r == rb[s] IN
    /\ r.readable = (received[s] - consumed[s]) % Mod
    /\ \A size \in 0..r.readable :
         Peek(r, size) = IF r.head <= r.tail THEN Run(consumed[s], size) ELSE <<>>

\* Every buffer is offered to the kernel or queued by one connection, once: none
\* is lost when push_buf's result is ignored, none is given back twice.
BuffersConserved ==
  \A b \in Buf :
    LET offered == {i \in DOMAIN ring : ring[i] = b}
        queued  == {<<s, j>> \in Stream \X (0..BufNum - 1) :
                      j < Count(rb[s]) /\ rb[s].buf_queue[(rb[s].head + j) % BufNum] = b}
    IN  Cardinality(offered) + Cardinality(queued) = 1
=============================================================================
