---------------------------- MODULE MCUdpWorker ----------------------------
(***************************************************************************)
(* UdpWorker for TLC: what becomes of a datagram and of its resources.     *)
(***************************************************************************)
EXTENDS UdpWorker, FiniteSets, FiniteSetsExt

\* Slots whose sendmsg is prepared, in progress or completed.
Sending(q) == {q[i].slot : i \in {j \in DOMAIN q : q[j].op = "send"}}
InRing == Sending(out.sq) \cup Sending(ops) \cup Sending(cq)

\* Every block is free, pending or part of one slot's datagram, also after a
\* refused datagram (release_slot, discard_pending, append's rollback).
BlocksConserved ==
  /\ ToSet(out.free) \cup ToSet(out.pending)
       \cup UNION {ToSet(out.slot[s].iov) : s \in Slot} = Block
  /\ Len(out.free) + Len(out.pending)
       + MapThenSumSet(LAMBDA s : Len(out.slot[s].iov), Slot) = BufNum

\* A slot is in the pool or its datagram is on its way, once.
SlotsConserved ==
  out.wr = "notify" =>
    LET sending == Len(SelectSeq(out.sq \o ops, LAMBDA e : e.op = "send"))
                     + Len(SelectSeq(cq, LAMBDA e : e.op = "send"))
    IN  /\ ToSet(out.slots) \cup InRing = Slot
        /\ Len(out.slots) + sending = SlotNum

\* README.md:26-28, "resource exhaustion cannot emit a truncated packet": the
\* blocks a prepared or running sendmsg points to hold the whole datagram and
\* nothing else, until it completes.
WholeDatagrams ==
  \A s \in Sending(out.sq) \cup Sending(ops) :
    Bytes(out.slot[s].iov, out.data) = out.slot[s].want

\* Every provided buffer is with the kernel, in the read buffer or in a
\* completion on its way there, as long as the reader runs.
BuffersConserved ==
  rd = "await" =>
    avail + Len(read_buf)
      + Len(SelectSeq(cq, LAMBDA e : e.packet # <<>>)) = RecvNum

\* The receive stays armed: one multishot recvmsg, or its last completion.
ReceiveArmed ==
  rd = "await" =>
    Len(SelectSeq(out.sq \o ops, LAMBDA e : e.op = "recv"))
      + Len(SelectSeq(cq, LAMBDA e : e.op = "recv" /\ ~e.more)) = 1

\* How deep the submission queue must be: a receive and one sendmsg per slot are
\* all a worker ever prepares between two submits.
SqBound == Len(out.sq) <= SlotNum + 1

\* A datagram that submit accepted is sent, or its send fails, and its slot
\* returns to the pool, unless udp_write_loop has ended.  README.md:87: what
\* cannot be sent is discarded and "all pending resources are returned".
ResourcesReturned ==
  \A s \in Slot :
    s \notin ToSet(out.slots) ~> s \in ToSet(out.slots) \/ out.wr = "done"
=============================================================================
