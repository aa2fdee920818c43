----------------------------- MODULE UdpWorker -----------------------------
(***************************************************************************)
(* One UDP worker: its run loop, the coroutines udp_read_loop and          *)
(* udp_write_loop of its one channel, the send side (WriteBufDgram) with   *)
(* the pools of blocks and of msghdr slots, and the receive side with the  *)
(* provided buffers.                                                       *)
(*                                                                         *)
(* As in TcpWorker a completion is one step, and what it can change of the *)
(* send side is a frame, here the frame of Blocks extended by the slots,   *)
(* the writer and the submission queue.                                    *)
(*                                                                         *)
(* A received packet has an identity and a size; the application answers   *)
(* it with a header byte and that many bytes <<id, i>>.  The field want of *)
(* a slot is a history: the whole datagram the application asked for.      *)
(***************************************************************************)
EXTENDS Blocks

CONSTANTS
  SlotNum,     \* slots of the MsghdrPool
  MaxIov,      \* blocks one datagram may have (max_iov_)
  QueueDepths, \* numbers of entries the submission queue may have
  RecvNum,     \* provided buffers of the BufRing
  Sizes,       \* payload sizes
  Rearm,       \* TRUE: the kernel may end the multishot receive with a result
  ByAddress,   \* TRUE: the overload submit(IpAddress), which notifies twice
  MaxIn        \* bound: packets that ever arrive

ASSUME UdpAssumption ==
  /\ PowerOfTwo(SlotNum) /\ MaxIov \in Nat \ {0}
  /\ QueueDepths \subseteq Nat \ {0} /\ RecvNum \in Nat \ {0}
  /\ Sizes \subseteq Nat /\ MaxIn \in Nat
  /\ Rearm \in BOOLEAN /\ ByAddress \in BOOLEAN

VARIABLES
  queue_depth, \* entries of the submission queue, and CQEs reaped per batch
  out,       \* the send side: free, data and pending of Blocks; slots, the free
             \* MsghdrPool entries; slot, the iovecs of each; queue, slot_queue_;
             \* wr and notified, udp_write_loop and pending_; sq, what is prepared
  rd,        \* udp_read_loop: waiting for its token, or ended
  read_buf,  \* ReadBufDgram: the packets not yet consumed
  phase,     \* where the thread is in run_loop
  left,      \* CQEs of the current batch still to be completed
  flushed,   \* length of the prefix of the submission queue that is published
  ops,       \* operations the kernel is working on
  cq,        \* completion queue
  avail,     \* provided buffers the kernel may fill
  nin        \* packets arrived so far

vars == <<queue_depth, out, rd, read_buf, phase, left, flushed, ops, cq, avail, nin>>

Slot == 1..SlotNum
NoSlot == 0
-----------------------------------------------------------------------------
(***************************************************************************)
(* The send side.                                                          *)
(***************************************************************************)
RecvEntry == [op |-> "recv", slot |-> NoSlot]
SendEntry(s) == [op |-> "send", slot |-> s]
EmptySlot == [iov |-> <<>>, want |-> <<>>]

\* Defect: the slot queue is not cleared.
WriterRunKeepsQueue(u) ==
  LET n == Least(Len(u.queue), queue_depth - Len(u.sq))
      t == [u EXCEPT !.sq = @ \o [i \in 1..n |-> SendEntry(u.queue[i])]]
  IN  IF n < Len(u.queue) THEN [t EXCEPT !.wr = "done"] ELSE t

\* udp_write_loop, resumed: one sendmsg per queued slot.  A full submission
\* queue ends the coroutine before clear_slot_queue.
WriterRun(u) ==
  LET n == Least(Len(u.queue), queue_depth - Len(u.sq))
      t == [u EXCEPT !.sq = @ \o [i \in 1..n |-> SendEntry(u.queue[i])]]
  IN  IF n < Len(u.queue) THEN [t EXCEPT !.wr = "done"]
                          ELSE [t EXCEPT !.queue = <<>>]

\* NotifyToken::notify
Notify(u) ==
  IF u.wr = "notify" THEN WriterRun(u) ELSE [u EXCEPT !.notified = TRUE]

\* Defect: the slot is cleared but not put back.
ReleaseSlotForgets(s, u) ==
  [Release(u.slot[s].iov, u) EXCEPT !.slot[s] = EmptySlot]

\* Defect: the blocks of the datagram are not released.
ReleaseSlotOnly(s, u) == [u EXCEPT !.slots = Append(@, s), !.slot[s] = EmptySlot]

\* WriteBufDgram::release_slot, MsghdrPool::release
ReleaseSlot(s, u) ==
  [Release(u.slot[s].iov, u) EXCEPT !.slots = Append(@, s), !.slot[s] = EmptySlot]

\* WriteBufDgram::submit refuses the pending blocks.
Refuses(u) ==
  \/ u.pending = <<>>
  \/ Len(u.queue) >= Capacity
  \/ Len(u.pending) > MaxIov

\* Defect: without a slot the datagram stays pending.
SubmitKeepsPending(want, u) ==
  LET s == Head(u.slots)
      t == [u EXCEPT !.slots = Tail(@)]
      v == [t EXCEPT !.slot[s] = [iov |-> u.pending, want |-> want],
                     !.pending = <<>>, !.queue = Append(@, s)]
  IN  CASE u.slots = <<>> -> u
        [] u.slots # <<>> /\ Refuses(u) -> DiscardPending(ReleaseSlot(s, t))
        [] OTHER -> IF ByAddress THEN Notify(Notify(v)) ELSE Notify(v)

\* UdpChannel::submit
Submit(want, u) ==
  LET s == Head(u.slots)
      t == [u EXCEPT !.slots = Tail(@)]
      v == [t EXCEPT !.slot[s] = [iov |-> u.pending, want |-> want],
                     !.pending = <<>>, !.queue = Append(@, s)]
  IN  CASE u.slots = <<>> -> DiscardPending(u)
        [] u.slots # <<>> /\ Refuses(u) -> DiscardPending(ReleaseSlot(s, t))
        [] OTHER -> IF ByAddress THEN Notify(Notify(v)) ELSE Notify(v)

\* The application's answer to packet p: append, prepend of a header, submit;
\* it gives up when one of the first two fails.
Answer(u, p) ==
  LET body == [i \in 1..p.size |-> <<p.id, i>>]
      head == <<<<p.id, 0>>>>
      t == AppendBytes(body, u)
  IN  CASE ~Appends(body, u) -> t
        [] Appends(body, u) /\ ~Prepends(head, t) -> DiscardPending(t)
        [] OTHER -> Submit(head \o body, PrependBytes(head, t))
-----------------------------------------------------------------------------
(***************************************************************************)
(* The run loop.                                                           *)
(***************************************************************************)
\* UdpThread::do_init_resources, UdpChannel::assign: both coroutines run to
\* their first suspension.
Init ==
  /\ queue_depth \in QueueDepths
  /\ out = [free |-> AllFree, data |-> AllEmpty, pending |-> <<>>,
            slots |-> [i \in 1..SlotNum |-> i],
            slot |-> [s \in Slot |-> EmptySlot],
            queue |-> <<>>, wr |-> "notify", notified |-> FALSE,
            sq |-> <<RecvEntry>>]
  /\ rd = "await"
  /\ read_buf = <<>>
  /\ phase = "submit"
  /\ left = 0
  /\ flushed = 0
  /\ ops = <<>>
  /\ cq = <<>>
  /\ avail = RecvNum
  /\ nin = 0

RingSubmit ==
  /\ phase = "submit"
  /\ phase' = "wait"
  /\ flushed' = Len(out.sq)
  /\ UNCHANGED <<out, rd, read_buf, left, ops, cq, avail, nin>>

PeekBatch ==
  /\ phase = "wait"
  /\ flushed = 0
  /\ cq # <<>>
  /\ phase' = "batch"
  /\ left' = Least(Len(cq), queue_depth)
  /\ UNCHANGED <<out, rd, read_buf, flushed, ops, cq, avail, nin>>

\* One iteration of the completion loop takes the head of the batch.
NextCqe(e) ==
  /\ phase = "batch"
  /\ left > 0
  /\ e = Head(cq)
  /\ cq' = Tail(cq)
  /\ left' = left - 1
  /\ UNCHANGED <<phase, flushed, ops, nin>>

\* Defect: the receive is armed again only after a packet.
RearmedOnSuccess(e, u) ==
  IF e.more \/ e.res < 0 THEN u ELSE [u EXCEPT !.sq = Append(@, RecvEntry)]

\* udp_read_loop arms the multishot receive again when it has ended.
Rearmed(e, u) ==
  IF e.more THEN u ELSE [u EXCEPT !.sq = Append(@, RecvEntry)]

\* Defect: only the last packet's buffer goes back to the ring.
ConsumeLast(packets) ==
  /\ read_buf' = <<>>
  /\ avail' = avail + 1

\* ReadBufDgram::consume, BufRing::release of every packet.
Consume(packets) ==
  /\ read_buf' = <<>>
  /\ avail' = avail + Len(packets)

\* udp_read_loop from co_await token_ to its next suspension.  on_read either
\* answers and consumes every packet, or none.
CompleteRecv ==
  /\ cq # <<>>
  /\ LET e == Head(cq)
         full == ~e.more /\ Len(out.sq) >= queue_depth
         u == Rearmed(e, out)
         packets == read_buf \o e.packet IN
     /\ NextCqe(e) /\ e.op = "recv"
     /\ \/ /\ rd = "done"
           /\ UNCHANGED <<out, rd, read_buf, avail>>
        \/ /\ rd = "await" /\ full
           /\ rd' = "done"
           /\ UNCHANGED <<out, read_buf, avail>>
        \/ /\ rd = "await" /\ ~full /\ e.res < 0
           /\ out' = u
           /\ UNCHANGED <<rd, read_buf, avail>>
        \/ /\ rd = "await" /\ ~full /\ e.res >= 0
           /\ out' = FoldLeft(Answer, u, packets)
           /\ Consume(packets)
           /\ UNCHANGED rd
        \/ /\ rd = "await" /\ ~full /\ e.res >= 0
           /\ out' = u
           /\ read_buf' = packets
           /\ UNCHANGED <<rd, avail>>

\* MsgToken::complete: the slot and its blocks are free, whatever the result.
CompleteSend ==
  /\ cq # <<>>
  /\ LET e == Head(cq) IN
     /\ NextCqe(e) /\ e.op = "send"
     /\ out' = ReleaseSlot(e.slot, out)
  /\ UNCHANGED <<rd, read_buf, avail>>

BatchDone ==
  /\ phase = "batch"
  /\ left = 0
  /\ phase' = "submit"
  /\ UNCHANGED <<out, rd, read_buf, left, flushed, ops, cq, avail, nin>>
-----------------------------------------------------------------------------
(***************************************************************************)
(* The kernel (external).                                                  *)
(***************************************************************************)
KernelTake ==
  /\ flushed > 0
  /\ ops' = Append(ops, Head(out.sq))
  /\ out' = [out EXCEPT !.sq = Tail(@)]
  /\ flushed' = flushed - 1
  /\ UNCHANGED <<rd, read_buf, phase, left, cq, avail, nin>>

\* Operation i posts a completion; the last one of an operation removes it.
Post(i, res, more, packet) ==
  /\ cq' = Append(cq, [op |-> ops[i].op, slot |-> ops[i].slot, res |-> res,
                       more |-> more, packet |-> packet])
  /\ ops' = IF more THEN ops ELSE RemoveAt(ops, i)
  /\ UNCHANGED <<out, rd, read_buf, phase, left, flushed>>

KernelRecv(i, more) ==
  /\ ops[i].op = "recv"
  /\ nin < MaxIn /\ avail > 0
  /\ nin' = nin + 1
  /\ avail' = avail - 1
  /\ \E n \in Sizes : Post(i, 1, more, <<[id |-> nin + 1, size |-> n]>>)

\* ENOBUFS: a packet waits, but every provided buffer is in use.
KernelRecvNoBufs(i) ==
  /\ ops[i].op = "recv"
  /\ nin < MaxIn /\ avail = 0
  /\ Post(i, -1, FALSE, <<>>)
  /\ UNCHANGED <<avail, nin>>

\* sendmsg ends; it has read the blocks its slot's iovec array points to.
KernelSend(i) ==
  /\ ops[i].op = "send"
  /\ \E res \in {-1, 1} : Post(i, res, FALSE, <<>>)
  /\ UNCHANGED <<avail, nin>>

Worker == RingSubmit \/ PeekBatch \/ CompleteRecv \/ CompleteSend \/ BatchDone

Kernel ==
  \/ KernelTake
  \/ \E i \in DOMAIN ops :
       \/ \E more \in {TRUE, ~Rearm} : KernelRecv(i, more)
       \/ KernelRecvNoBufs(i) \/ KernelSend(i)

Next == UNCHANGED queue_depth /\ (Worker \/ Kernel)

Spec == Init /\ [][Next]_vars

\* run_loop can go on, and it does: the steps of the worker are the ones that
\* change phase or left.
WorkerReady == phase \in {"submit", "batch"} \/ (flushed = 0 /\ cq # <<>>)
WorkerMoves == phase' # phase \/ left' # left

\* The thread keeps running its loop (weak fairness of Worker, with ENABLED
\* spelled out) and the kernel its submissions; a send ends.
Fairness ==
  /\ []<>~WorkerReady \/ []<><<WorkerMoves>>_vars
  /\ WF_vars(UNCHANGED queue_depth /\ KernelTake)
  /\ WF_vars(UNCHANGED queue_depth /\ \E i \in DOMAIN ops : KernelSend(i))

FairSpec == Spec /\ Fairness
=============================================================================
