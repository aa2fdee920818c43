------------------------------ MODULE WriteBuf ------------------------------
(***************************************************************************)
(* WriteBufStream: the send side of the TCP channels of one worker, which  *)
(* share its BufPool.  A channel drafts bytes in pending blocks, submit    *)
(* moves the blocks to the send queue, and the writer hands them to the    *)
(* kernel as an iovec array of addresses: the kernel reads the blocks at   *)
(* any time until the write completes.                                     *)
(*                                                                         *)
(* Who calls what is tcp_write_loop's business (module TcpWorker); here a  *)
(* write is started when none is in flight, and reset() follows a failed   *)
(* write or the end of an idle writer.                                     *)
(***************************************************************************)
EXTENDS Blocks, FiniteSets

CONSTANTS
  Stream,    \* the channels
  Sizes,     \* bytes offered in one call of append or prepend
  MaxBytes   \* bound: bytes offered in all

ASSUME StreamAssumption == Sizes \subseteq Nat /\ MaxBytes \in Nat

VARIABLES
  free,      \* BufPool::free_idx_queue_, between head_ and tail_
  data,      \* the bytes of every block
  pending,   \* pending_bufs_ of every channel
  send,      \* send_queue_ of every channel
  offset,    \* send_head_offset_
  iov,       \* iovec_ of the write in flight: block, offset and length
  ret,       \* the last call's argument and what it returned
  used       \* bytes offered so far; the n-th one is n

pool == <<free, data>>
vars == <<free, data, pending, send, offset, iov, ret, used>>

Init ==
  /\ free = AllFree
  /\ data = AllEmpty
  /\ pending = [s \in Stream |-> <<>>]
  /\ send = [s \in Stream |-> <<>>]
  /\ offset = [s \in Stream |-> 0]
  /\ iov = [s \in Stream |-> <<>>]
  /\ ret = [arg |-> <<>>, ok |-> TRUE]
  /\ used = 0
-----------------------------------------------------------------------------
FrameOf(s) == [free |-> free, data |-> data, pending |-> pending[s]]

Commit(s, b) ==
  /\ free' = b.free
  /\ data' = b.data
  /\ pending' = [pending EXCEPT ![s] = b.pending]

\* The next n bytes an application offers.
Offered(n) == [i \in 1..n |-> used + i]

AppendCall(s, n) ==
  /\ used + n <= MaxBytes
  /\ used' = used + n
  /\ Commit(s, AppendBytes(Offered(n), FrameOf(s)))
  /\ ret' = [arg |-> Offered(n), ok |-> Appends(Offered(n), FrameOf(s))]
  /\ UNCHANGED <<send, offset, iov>>

PrependCall(s, n) ==
  /\ used + n <= MaxBytes
  /\ used' = used + n
  /\ Commit(s, PrependBytes(Offered(n), FrameOf(s)))
  /\ ret' = [arg |-> Offered(n), ok |-> Prepends(Offered(n), FrameOf(s))]
  /\ UNCHANGED <<send, offset, iov>>

\* Defect: the blocks stay pending as well.
SubmitCallKeepsDraft(s) ==
  LET ok == pending[s] # <<>> /\ Len(pending[s]) <= Capacity - Len(send[s])
  IN  /\ ret' = [arg |-> <<>>, ok |-> ok]
      /\ send' = IF ok THEN [send EXCEPT ![s] = @ \o pending[s]] ELSE send
      /\ UNCHANGED <<pool, pending, offset, iov, used>>

\* WriteBufStream::submit
SubmitCall(s) ==
  LET ok == pending[s] # <<>> /\ Len(pending[s]) <= Capacity - Len(send[s])
  IN  /\ ret' = [arg |-> <<>>, ok |-> ok]
      /\ send' = IF ok THEN [send EXCEPT ![s] = @ \o pending[s]] ELSE send
      /\ pending' = IF ok THEN [pending EXCEPT ![s] = <<>>] ELSE pending
      /\ UNCHANGED <<pool, offset, iov, used>>

\* Bytes to send in the first k blocks of the send queue.
UpTo(s, k) ==
  IF k = 0 THEN 0 ELSE Len(Bytes(SubSeq(send[s], 1, k), data)) - offset[s]

\* WriteBufStream::peek_iovec, for the writev that tcp_write_loop prepares.
PeekIovec(s) ==
  /\ send[s] # <<>> /\ iov[s] = <<>>
  /\ iov' = [iov EXCEPT ![s] =
       [i \in DOMAIN send[s] |->
          LET from == IF i = 1 THEN offset[s] ELSE 0
          IN  [block |-> send[s][i], from |-> from,
               len |-> Len(data[send[s][i]]) - from]]]
  /\ UNCHANGED <<pool, pending, send, offset, ret, used>>

\* Blocks that consume_written releases: the ones it reaches and uses up.
UsedUp(s, n) ==
  Cardinality({i \in DOMAIN send[s] : UpTo(s, i - 1) < n /\ UpTo(s, i) <= n})

\* Defect: send_head_offset_ survives the release of its block.
ConsumeWrittenKeepsOffset(s, n) ==
  LET k == UsedUp(s, n)
  IN  /\ Commit(s, Release(SubSeq(send[s], 1, k), FrameOf(s)))
      /\ send' = [send EXCEPT ![s] = SubSeq(@, k + 1, Len(@))]
      /\ offset' = [offset EXCEPT ![s] = @ + n - UpTo(s, k)]

\* WriteBufStream::consume_written
ConsumeWritten(s, n) ==
  LET k == UsedUp(s, n)
  IN  /\ Commit(s, Release(SubSeq(send[s], 1, k), FrameOf(s)))
      /\ send' = [send EXCEPT ![s] = SubSeq(@, k + 1, Len(@))]
      /\ offset' = [offset EXCEPT ![s] = IF k = 0 THEN @ + n ELSE n - UpTo(s, k)]

\* The bytes the kernel finds at the addresses of the iovec array.
IovBytes(s) ==
  FlattenSeq([i \in DOMAIN iov[s] |->
    LET v == iov[s][i] IN SubSeq(data[v.block], v.from + 1, v.from + v.len)])

\* The write completes, in part or entirely.
Written(s, n) ==
  /\ n <= Len(IovBytes(s))
  /\ ConsumeWritten(s, n)
  /\ iov' = [iov EXCEPT ![s] = <<>>]
  /\ UNCHANGED <<ret, used>>

\* WriteBufStream::reset, when tcp_write_loop ends: after a failed write, or
\* with none in flight.
Reset(s) ==
  /\ Commit(s, DiscardPending(Release(send[s], FrameOf(s))))
  /\ send' = [send EXCEPT ![s] = <<>>]
  /\ offset' = [offset EXCEPT ![s] = 0]
  /\ iov' = [iov EXCEPT ![s] = <<>>]
  /\ UNCHANGED <<ret, used>>

Next ==
  \E s \in Stream :
    \/ \E n \in Sizes : AppendCall(s, n) \/ PrependCall(s, n)
    \/ SubmitCall(s) \/ PeekIovec(s) \/ Reset(s)
    \/ \E n \in 1..(BufSize * Capacity) : Written(s, n)

Spec == Init /\ [][Next]_vars
=============================================================================
