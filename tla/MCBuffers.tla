----------------------------- MODULE MCBuffers -----------------------------
(***************************************************************************)
(* The two buffers of the TCP channels for TLC: write_buf_ over the        *)
(* worker's BufPool and read_buf_ over its BufRing.  They share no state,  *)
(* so a behaviour uses one of them.                                        *)
(***************************************************************************)
EXTENDS MCWriteBuf

CONSTANTS
  RingNum,    \* buffers of the BufRing, a power of two
  RingSize,   \* bytes of one of them
  Wrap        \* the range of head_ and tail_ of a ReadBufStream

\* The counters are a multiple of the queue's length and exceed it.
ASSUME RingAssumption ==
  /\ RingNum \in Nat \ {0} /\ RingSize \in Nat \ {0}
  /\ Wrap \in Nat /\ Wrap % RingNum = 0 /\ Wrap > RingNum

VARIABLES side, ring, buf, rb, received, consumed

read_vars == <<ring, buf, rb, received, consumed>>

Read == INSTANCE ReadBuf WITH BufNum <- RingNum, BufSize <- RingSize

BuffersInit == side \in {"write", "read"} /\ Init /\ Read!Init

OnWriteBuf(call) == side = "write" /\ call /\ UNCHANGED <<side, read_vars>>
OnReadBuf(call) == side = "read" /\ call /\ UNCHANGED <<side, vars>>

BuffersNext ==
  \E s \in Stream :
    \/ \E n \in Sizes : OnWriteBuf(AppendCall(s, n))
    \/ \E n \in Sizes : OnWriteBuf(PrependCall(s, n))
    \/ OnWriteBuf(SubmitCall(s))
    \/ OnWriteBuf(PeekIovec(s))
    \/ OnWriteBuf(Reset(s))
    \/ \E n \in 1..(BufSize * Capacity) : OnWriteBuf(Written(s, n))
    \/ \E n \in 1..RingSize : OnReadBuf(Read!Receive(s, n))
    \/ \E size \in 1..(RingNum * RingSize) : OnReadBuf(Read!Consume(s, size))
    \/ OnReadBuf(Read!Reset(s))

BuffersSpec == BuffersInit /\ [][BuffersNext]_<<vars, side, read_vars>>

\* peek returns exactly the next bytes of the stream, after partial consumes,
\* resets and wrapped counters (ReadBuf!PeekExact, of ReadBufStream::peek).
PeekExact == Read!PeekExact

\* No provided buffer is lost or given back twice (ReadBuf!BuffersConserved, of
\* push_buf, consume, reset and BufRing::release).
BuffersConserved == Read!BuffersConserved
============================================================================
