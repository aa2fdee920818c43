------------------------------ MODULE TcpWorker ------------------------------
(***************************************************************************)
(* One TCP worker of uring-proactor: the run loop (IoThread, TcpThread),   *)
(* the accept coroutine, the channel pool and, for every channel, the      *)
(* coroutines tcp_read_loop and tcp_write_loop with the state they share   *)
(* (in_flight_, the NotifyToken, the read and write buffers).              *)
(*                                                                         *)
(* Everything in user space runs on one thread, so a completion handler is *)
(* one step; the kernel (external: io_uring and the sockets) takes its own *)
(* steps in between.  A handler calls into other coroutines of its channel *)
(* (notify() resumes the writer, in_flight_dec() may give the channel back *)
(* to the pool), so the handlers are written as operators on a frame: the  *)
(* part of the worker's state that a handler of one channel can change.    *)
(*                                                                         *)
(* Data: one received completion carries one unit <<conn, n>>, the n-th    *)
(* unit of that connection, in one provided buffer; the application echoes *)
(* units.  conn is the connection's identity, which the code does not      *)
(* have: it is what the properties compare with the fd number and the      *)
(* token address, the two names the code does use and reuses.              *)
(***************************************************************************)
EXTENDS Integers, Sequences, Functions

CONSTANTS
  PoolSize,    \* channels in the TcpChannelPool (pool_size_)
  QueueDepth,  \* entries of the submission queue, and CQEs reaped per batch
  WriteCap,    \* units a channel may have appended and not submitted, and units
               \* its send queue holds (channel_capacity)
  BufNum,      \* provided buffers in the worker's BufRing
  SqPoll,      \* TRUE: cpu_id_ >= 0, the kernel polls the submission queue
  Rearm,       \* TRUE: the kernel may end a multishot operation with its last
               \* result (no IORING_CQE_F_MORE), which the code answers by re-arming
  Greets,      \* TRUE: the application sends one unit in on_accept
  Closes,      \* TRUE: the application may call TcpChannel::close()
  Careless,    \* TRUE: on_read is the echo server's, which submits on a channel
               \* that is closing and ignores what append and submit return
  MaxConn,     \* bound: connections that ever arrive
  MaxData,     \* bound: units a peer sends on a connection
  MaxFd        \* bound: fd numbers available to accepted sockets

ASSUME SizesAssumption ==
  /\ PoolSize \in Nat \ {0} /\ QueueDepth \in Nat \ {0, 1}
  /\ WriteCap \in Nat \ {0} /\ BufNum \in Nat \ {0}
  /\ MaxConn \in Nat /\ MaxData \in Nat /\ MaxFd \in Nat

ASSUME ModesAssumption ==
  /\ SqPoll \in BOOLEAN /\ Rearm \in BOOLEAN
  /\ Greets \in BOOLEAN /\ Closes \in BOOLEAN /\ Careless \in BOOLEAN

VARIABLES
  chan,          \* the pool's TcpChannel objects
  free_queue,    \* TcpChannelPool::free_queue_, as the indices between head_ and tail_
  pending_reads, \* TcpThread::pending_reads_
  acceptor,      \* state of the accept_loop coroutine
  phase,         \* where the thread is in run_loop
  left,          \* CQEs of the current batch still to be completed
  sq,            \* submission queue: prepared, not yet taken by the kernel
  flushed,       \* length of the prefix of sq that submit() has published
  kbatch,        \* the submissions the kernel is taking: how many are left of
                 \* them, how many it took without moving the queue's head
  ops,           \* operations the kernel is working on
  cq,            \* completion queue
  avail,         \* provided buffers the kernel may fill
  fdtab,         \* fd number -> connection
  nconn,         \* connections accepted so far
  recvd,         \* units received from each connection
  eof,           \* connections whose receive side has ended
  shut,          \* connections shut down by TcpChannel::close()
  wire,          \* units the kernel has written to each connection
  reused         \* history: a name the ring still holds, a channel's token or
                 \* an fd number, became available to another connection

user == <<chan, free_queue, pending_reads, acceptor, phase, left>>
kernel == <<kbatch, ops, nconn, recvd, eof, wire>>
vars == <<user, sq, flushed, cq, avail, fdtab, shut, kernel, reused>>
-----------------------------------------------------------------------------
Chan == 1..PoolSize
Conn == 1..MaxConn
Fd == 1..MaxFd
NoChan == 0
NoConn == 0
NoFd == 0                       \* fd_ == -1
Unit == Conn \X (1..(MaxData + 1))

\* A coroutine is absent, suspended on its Token ("await") or on the channel's
\* NotifyToken ("notify"), running, or suspended at its final suspend point.
\* (Nothing asks whether the reader is running, so it stays in "await".)
ReadState == {"none", "await", "done"}
WriteState == {"none", "await", "notify", "run", "done"}

Channel ==
  [fd: Fd \cup {NoFd}, conn: Conn \cup {NoConn},
   in_flight: Int,
   pending: BOOLEAN, closed: BOOLEAN,        \* NotifyToken pending_, closed_
   rd: ReadState, wr: WriteState,
   read_buf: Seq(Unit),                      \* one provided buffer per unit
   draft: Seq(Unit),                         \* write_buf_: appended, not submitted
   send: Seq(Unit),                          \* write_buf_: the send queue
   submitted: Nat,                           \* submitted_bytes of the writer
   marked: BOOLEAN]                          \* in_pending_reads_

Sqe ==
  [op: {"accept", "wakeup", "recv", "write"}, ch: Chan \cup {NoChan},
   conn: Conn \cup {NoConn}, fd: Fd \cup {NoFd}, data: Seq(Unit)]

Op ==
  [op: {"accept", "wakeup", "recv", "write"}, ch: Chan \cup {NoChan},
   conn: Conn \cup {NoConn}, file: Conn \cup {NoConn}, data: Seq(Unit)]

Cqe ==
  [op: {"accept", "recv", "write"}, ch: Chan \cup {NoChan},
   conn: Conn \cup {NoConn}, res: Int, more: BOOLEAN, data: Seq(Unit)]

Frame ==
  [c: Channel, sq: Seq(Sqe), free: Seq(Chan), reads: Seq(Chan), avail: Nat,
   fdtab: [Fd -> Conn \cup {NoConn}], shut: SUBSET Conn, undefined: BOOLEAN]

TypeOK ==
  /\ chan \in [Chan -> Channel]
  /\ free_queue \in Seq(Chan)
  /\ pending_reads \in Seq(Chan)
  /\ acceptor \in {"await", "done"}
  /\ phase \in {"submit", "wait", "batch", "reads", "terminated", "undefined"}
  /\ left \in Nat
  /\ sq \in Seq(Sqe)
  /\ flushed \in Nat
  /\ kbatch \in [left: Nat, taken: Nat]
  /\ ops \in Seq(Op)
  /\ cq \in Seq(Cqe)
  /\ avail \in Nat
  /\ fdtab \in [Fd -> Conn \cup {NoConn}]
  /\ nconn \in 0..MaxConn
  /\ recvd \in [Conn -> 0..MaxData]
  /\ eof \in SUBSET Conn
  /\ shut \in SUBSET Conn
  /\ wire \in [Conn -> Nat]
  /\ reused \in BOOLEAN
-----------------------------------------------------------------------------
(***************************************************************************)
(* The frame of channel h, and the operators the coroutines are made of.   *)
(***************************************************************************)
FrameOf(h) ==
  [c |-> chan[h], sq |-> sq, free |-> free_queue, reads |-> pending_reads,
   avail |-> avail, fdtab |-> fdtab, shut |-> shut, undefined |-> FALSE]

\* IoRing::get_sqe throws when the submission queue is full.  The entries the
\* kernel took count until it has moved the queue's head.
SqFull(q) == Len(q) + kbatch.taken >= QueueDepth

\* get_sqe, prep_*, set_data: the SQE holds the fd number of this moment and
\* the address of the token in the coroutine frame of channel h.
Prep(h, op, data, s) ==
  [s EXCEPT !.sq = Append(@, [op |-> op, ch |-> h, conn |-> s.c.conn,
                              fd |-> s.c.fd, data |-> data])]

\* prep_multishot_recv and in_flight_inc; the exception of a full queue ends
\* the coroutine (promise_type::unhandled_exception is empty).
ArmRecv(h, s) ==
  IF SqFull(s.sq)
  THEN [s EXCEPT !.c.rd = "done"]
  ELSE [Prep(h, "recv", <<>>, s) EXCEPT !.c.in_flight = @ + 1, !.c.rd = "await"]

\* Defect: submitted_bytes is not set.
ArmWriteUncounted(h, s) ==
  IF SqFull(s.sq)
  THEN [s EXCEPT !.c.wr = "done"]
  ELSE [Prep(h, "write", s.c.send, s) EXCEPT
          !.c.in_flight = @ + 1, !.c.wr = "await"]

\* prep_writev of the whole send queue and in_flight_inc.
ArmWrite(h, s) ==
  IF SqFull(s.sq)
  THEN [s EXCEPT !.c.wr = "done"]
  ELSE [Prep(h, "write", s.c.send, s) EXCEPT
          !.c.in_flight = @ + 1, !.c.wr = "await", !.c.submitted = Len(s.c.send)]

\* Defect: the closing test asks for in_flight_ < 0.
WriterRunWaitsTooLong(h, woken, s) ==
  LET idle == s.c.send = <<>>
      t == IF idle THEN [s EXCEPT !.c.pending = FALSE] ELSE s
  IN  IF idle /\ ~woken /\ ~s.c.pending
      THEN [s EXCEPT !.c.wr = "notify"]
      ELSE IF s.c.closed /\ s.c.in_flight < 0
           THEN [t EXCEPT !.c.wr = "done", !.c.send = <<>>, !.c.draft = <<>>]
           ELSE IF idle THEN [t EXCEPT !.c.wr = "notify"]
                        ELSE ArmWrite(h, t)

\* Defect: the writer ends without write_buf_.reset().
WriterRunKeepsBytes(h, woken, s) ==
  LET idle == s.c.send = <<>>
      t == IF idle THEN [s EXCEPT !.c.pending = FALSE] ELSE s
  IN  IF idle /\ ~woken /\ ~s.c.pending
      THEN [s EXCEPT !.c.wr = "notify"]
      ELSE IF s.c.closed /\ s.c.in_flight <= 0
           THEN [t EXCEPT !.c.wr = "done"]
           ELSE IF idle THEN [t EXCEPT !.c.wr = "notify"]
                        ELSE ArmWrite(h, t)

\* tcp_write_loop from the top of its loop to its next suspension; woken says
\* that it comes back from co_await notify_token_ instead.
WriterRun(h, woken, s) ==
  LET idle == s.c.send = <<>>
      t == IF idle THEN [s EXCEPT !.c.pending = FALSE] ELSE s
  IN  IF idle /\ ~woken /\ ~s.c.pending
      THEN [s EXCEPT !.c.wr = "notify"]
      ELSE IF s.c.closed /\ s.c.in_flight <= 0
           THEN [t EXCEPT !.c.wr = "done", !.c.send = <<>>, !.c.draft = <<>>]
           ELSE IF idle THEN [t EXCEPT !.c.wr = "notify"]
                        ELSE ArmWrite(h, t)

\* Defect: the writer is resumed although it waits for a completion.
NotifyAnyWait(h, s) ==
  IF s.c.wr \in {"notify", "await"} THEN WriterRun(h, TRUE, s)
                                    ELSE [s EXCEPT !.c.pending = TRUE]

\* Defect: a parked writer is not resumed, only pending_ is set.
NotifyOnlyFlags(h, s) == [s EXCEPT !.c.pending = TRUE]

\* NotifyToken::notify
Notify(h, s) ==
  IF s.c.wr = "notify" THEN WriterRun(h, TRUE, s)
                       ELSE [s EXCEPT !.c.pending = TRUE]

\* TcpChannelPool::release
Release(h, s) == [s EXCEPT !.free = Append(@, h)]

\* Defect: the channel is given back only when its writer has ended by now.
OnDrainedWhenEnded(h, s) ==
  LET t == Notify(h, s)
  IN  CASE s.c.closed /\ t.c.wr = "done" -> Release(h, t)
        [] s.c.closed /\ t.c.wr # "done" -> t
        [] OTHER -> s

\* TcpChannel::on_drained
OnDrained(h, s) == IF s.c.closed THEN Release(h, Notify(h, s)) ELSE s

\* Defect: the channel counts as drained with one operation left.
InFlightDecAtOne(h, s) ==
  LET t == [s EXCEPT !.c.in_flight = @ - 1]
  IN  IF t.c.in_flight <= 1 THEN OnDrained(h, t) ELSE t

\* TcpChannel::in_flight_dec
InFlightDec(h, s) ==
  LET t == [s EXCEPT !.c.in_flight = @ - 1]
  IN  IF t.c.in_flight = 0 THEN OnDrained(h, t) ELSE t

\* Defect: fd_ keeps the number of the closed socket.
CloseKeepsFd(h, s) ==
  LET t == Notify(h, [s EXCEPT !.c.closed = TRUE])
      f == t.c.fd
  IN  IF f = NoFd THEN t
      ELSE [t EXCEPT !.fdtab[f] = NoConn,
                     !.shut = @ \cup ({t.fdtab[f]} \ {NoConn})]

\* TcpChannel::close: NotifyToken::notify_close, shutdown, close, fd_ = -1.
Close(h, s) ==
  LET t == Notify(h, [s EXCEPT !.c.closed = TRUE])
      f == t.c.fd
  IN  IF f = NoFd THEN t
      ELSE [t EXCEPT !.c.fd = NoFd, !.fdtab[f] = NoConn,
                     !.shut = @ \cup ({t.fdtab[f]} \ {NoConn})]

\* What is appended and not submitted after an append of each of the units.  An
\* append that finds no room is refused.
Appended(units, c) ==
  LET all == c.draft \o units
  IN  IF Len(all) <= WriteCap THEN all ELSE SubSeq(all, 1, WriteCap)

\* Defect: the writer is not notified.
SubmitSilent(h, units, s) ==
  LET d == Appended(units, s.c)
  IN  IF d # <<>> /\ Len(s.c.send) + Len(d) <= WriteCap
      THEN [s EXCEPT !.c.send = @ \o d, !.c.draft = <<>>]
      ELSE [s EXCEPT !.c.draft = d]

\* TcpChannel::append of the units, and submit: all that was appended goes to
\* the send queue and the writer is notified, or, when it does not fit, nothing.
Submit(h, units, s) ==
  LET d == Appended(units, s.c)
  IN  IF d # <<>> /\ Len(s.c.send) + Len(d) <= WriteCap
      THEN Notify(h, [s EXCEPT !.c.send = @ \o d, !.c.draft = <<>>])
      ELSE [s EXCEPT !.c.draft = d]

\* Defect: the buffers are not given back to the ring.
ConsumeAllNoRelease(s) == [s EXCEPT !.c.read_buf = <<>>]

\* ReadBufStream::consume of everything readable: the buffers go back to the
\* provided-buffer ring (BufRing::release).
ConsumeAll(s) ==
  [s EXCEPT !.avail = @ + Len(s.c.read_buf), !.c.read_buf = <<>>]

\* Defect: no test of in_pending_reads_.
MarkPendingReadAgain(h, s) ==
  [s EXCEPT !.c.marked = TRUE, !.reads = Append(@, h)]

\* TcpThread::mark_pending_read
MarkPendingRead(h, s) ==
  IF s.c.marked THEN s
  ELSE [s EXCEPT !.c.marked = TRUE, !.reads = Append(@, h)]

\* The application's call of close() in a callback, if it makes one.
AppClose(h, close, s) ==
  IF close /\ ~s.c.closed THEN Close(h, s) ELSE s

\* Defect: the receive is armed again after every completion.
ReadResumeAlwaysArms(h, e, s) ==
  LET s1 == InFlightDec(h, s)
      s2 == IF e.res <= 0
            THEN IF s1.c.closed THEN s1 ELSE Close(h, s1)
            ELSE ArmRecv(h, s1)
  IN  IF e.res <= 0
      THEN ConsumeAll([s2 EXCEPT !.c.rd = "done"])
      ELSE IF s2.c.rd = "done" THEN s2
      ELSE MarkPendingRead(h, [s2 EXCEPT !.c.read_buf = @ \o e.data])

\* tcp_read_loop from co_await token_ to its next suspension.
ReadResume(h, e, s) ==
  LET s1 == InFlightDec(h, s)
      s2 == IF e.res <= 0
            THEN IF s1.c.closed THEN s1 ELSE Close(h, s1)
            ELSE IF e.more THEN s1 ELSE ArmRecv(h, s1)
  IN  IF e.res <= 0
      THEN ConsumeAll([s2 EXCEPT !.c.rd = "done"])
      ELSE IF s2.c.rd = "done" THEN s2
      ELSE MarkPendingRead(h, [s2 EXCEPT !.c.read_buf = @ \o e.data])

\* Defect: after a short write the whole queue is sent again.
ConsumeWrittenRepeats(n, s) ==
  CASE n > Len(s.c.send) -> [s EXCEPT !.undefined = TRUE]
    [] n = Len(s.c.send) -> [s EXCEPT !.c.send = <<>>]
    [] OTHER -> s

\* WriteBufStream::consume_written.  The loop has no bound but its assert,
\* which a release build drops: past the send queue anything may happen.
ConsumeWritten(n, s) ==
  IF n > Len(s.c.send)
  THEN [s EXCEPT !.undefined = TRUE]
  ELSE [s EXCEPT !.c.send = SubSeq(@, n + 1, Len(@))]

\* tcp_write_loop from co_await token_ to its next suspension.
WriteResume(h, e, close, s) ==
  LET s1 == InFlightDec(h, [s EXCEPT !.c.wr = "run"])
      s2 == IF s1.c.closed THEN s1 ELSE Close(h, s1)
      s3 == AppClose(h, close, ConsumeWritten(e.res, s1))
  IN  IF e.res <= 0
      THEN [s2 EXCEPT !.c.wr = "done", !.c.send = <<>>, !.c.draft = <<>>]
      ELSE WriterRun(h, FALSE, s3)

\* Token::complete: a coroutine that is not waiting for its token is not resumed.
Complete(h, e, close, s) ==
  CASE e.op = "recv" /\ s.c.rd = "await" -> ReadResume(h, e, s)
    [] e.op = "write" /\ s.c.wr = "await" -> WriteResume(h, e, close, s)
    [] OTHER -> s

\* TcpServer::on_accept of the application.
OnAccept(h, close, s) ==
  AppClose(h, close, IF Greets THEN Submit(h, <<<<s.c.conn, 1>>>>, s) ELSE s)

\* TcpChannel::assign: both coroutines are created anew in the channel's
\* frames and run to their first suspension.  in_flight_, the buffers and
\* in_pending_reads_ keep their values.
Assign(h, fd, conn, close, s) ==
  LET s1 == [s EXCEPT !.c.fd = fd, !.c.conn = conn,
                      !.c.pending = FALSE, !.c.closed = FALSE, !.c.wr = "run"]
  IN  OnAccept(h, close, WriterRun(h, FALSE, ArmRecv(h, s1)))

\* An application that is not careless tests is_closing() and leaves what it
\* could not submit at once for a later on_read.
Answers(c) ==
  Careless \/ (~c.closed /\ Len(c.send) + Len(c.read_buf) <= WriteCap)

\* TcpServer::on_read of the application, possibly with a close().  The echo
\* server consumes everything, also what append refused.
OnRead(h, echo, close, s) ==
  AppClose(h, close,
    IF echo /\ s.c.read_buf # <<>> /\ Answers(s.c)
    THEN Submit(h, s.c.read_buf, ConsumeAll(s))
    ELSE s)

\* The frame of channel h becomes the worker's state again.
Commit(h, s) ==
  /\ chan' = [chan EXCEPT ![h] = s.c]
  /\ sq' = s.sq
  /\ free_queue' = s.free
  /\ pending_reads' = s.reads
  /\ avail' = s.avail
  /\ fdtab' = s.fdtab
  /\ shut' = s.shut
-----------------------------------------------------------------------------
(***************************************************************************)
(* What the ring holds, and the history of the names in it.                *)
(***************************************************************************)
InPool(h) == h \in Range(free_queue)

\* Everything the ring holds: prepared, in progress or completed.
Ring == Range(sq) \cup Range(ops) \cup Range(cq)

Busy(h) == \E x \in Ring : x.ch = h

\* A pooled channel's token, or an fd number now naming another connection,
\* is still held by the ring.
NameReuse ==
  \/ \E h \in Chan : InPool(h) /\ Busy(h)
  \/ \E x \in Range(sq) : x.fd # NoFd /\ fdtab[x.fd] \notin {NoConn, x.conn}

KeepReuse == reused' = (reused \/ NameReuse')
-----------------------------------------------------------------------------
(***************************************************************************)
(* The run loop.                                                           *)
(***************************************************************************)
NewChannel ==
  [fd |-> NoFd, conn |-> NoConn, in_flight |-> 0, pending |-> FALSE,
   closed |-> FALSE, rd |-> "none", wr |-> "none", read_buf |-> <<>>,
   draft |-> <<>>, send |-> <<>>, submitted |-> 0, marked |-> FALSE]

AcceptSqe ==
  [op |-> "accept", ch |-> NoChan, conn |-> NoConn, fd |-> NoFd, data |-> <<>>]

\* The read of wakeup_fd_, which nobody writes to before the stop.
WakeupSqe ==
  [op |-> "wakeup", ch |-> NoChan, conn |-> NoConn, fd |-> NoFd, data |-> <<>>]

\* TcpChannelPool's constructor, accept_loop up to its first suspension (called
\* from on_loop_start), and run_loop up to its loop.
Init ==
  /\ chan = [h \in Chan |-> NewChannel]
  /\ free_queue = [i \in 1..PoolSize |-> i]
  /\ pending_reads = <<>>
  /\ acceptor = "await"
  /\ phase = "submit"
  /\ left = 0
  /\ sq = <<AcceptSqe, WakeupSqe>>
  /\ flushed = 0
  /\ kbatch = [left |-> 0, taken |-> 0]
  /\ ops = <<>>
  /\ cq = <<>>
  /\ avail = BufNum
  /\ fdtab = [f \in Fd |-> NoConn]
  /\ nconn = 0
  /\ recvd = [c \in Conn |-> 0]
  /\ eof = {}
  /\ shut = {}
  /\ wire = [c \in Conn |-> 0]
  /\ reused = FALSE

\* ring.submit() or the submitting half of submit_and_wait(1).
RingSubmit ==
  /\ phase = "submit"
  /\ phase' = "wait"
  /\ flushed' = Len(sq)
  /\ UNCHANGED <<chan, free_queue, pending_reads, acceptor, left, sq, cq, avail,
                 fdtab, shut, kernel>>
  /\ KeepReuse

\* The waiting half, and peek_batch_cqe.  With SQPOLL the loop does not wait
\* for its submissions; an iteration that finds no CQE changes nothing.
PeekBatch ==
  /\ phase = "wait"
  /\ SqPoll \/ flushed = 0
  /\ cq # <<>>
  /\ phase' = "batch"
  /\ left' = IF Len(cq) < QueueDepth THEN Len(cq) ELSE QueueDepth
  /\ UNCHANGED <<chan, free_queue, pending_reads, acceptor, sq, flushed, cq, avail,
                 fdtab, shut, kernel>>
  /\ KeepReuse

\* One iteration of the completion loop takes the head of the batch.
NextCqe(e) ==
  /\ phase = "batch"
  /\ left > 0
  /\ e = Head(cq)
  /\ cq' = Tail(cq)
  /\ left' = left - 1
  /\ UNCHANGED <<flushed, kernel>>

\* token->complete() for a channel's reader or writer.
CompleteChannel ==
  /\ cq # <<>>
  /\ LET e == Head(cq) IN
     /\ NextCqe(e)
     /\ e.op # "accept"
     /\ \E close \in {FALSE, Closes} :
          LET s == Complete(e.ch, e, close, FrameOf(e.ch)) IN
          /\ Commit(e.ch, s)
          /\ phase' = IF s.undefined THEN "undefined" ELSE phase
  /\ UNCHANGED acceptor
  /\ KeepReuse

\* accept_loop, from co_await token_ to its next suspension: an error ends it.
AcceptFailed ==
  /\ cq # <<>>
  /\ LET e == Head(cq) IN NextCqe(e) /\ e.op = "accept" /\ e.res < 0
  /\ acceptor' = "done"
  /\ UNCHANGED <<chan, free_queue, pending_reads, phase, sq, avail, fdtab, shut>>
  /\ KeepReuse

\* A full submission queue at the re-arm: Acceptor's promise_type calls
\* std::terminate.
AcceptTerminates ==
  /\ cq # <<>>
  /\ LET e == Head(cq) IN
       NextCqe(e) /\ e.op = "accept" /\ e.res >= 0 /\ ~e.more
  /\ SqFull(sq)
  /\ phase' = "terminated"
  /\ UNCHANGED <<chan, free_queue, pending_reads, acceptor, sq, avail, fdtab, shut>>
  /\ KeepReuse

\* The submission queue after the re-arm that a final result needs.
AcceptSq(e) == IF e.more THEN sq ELSE Append(sq, AcceptSqe)

\* TcpChannelPool::acquire finds a channel, which is assigned.
AcceptAssign ==
  /\ cq # <<>>
  /\ free_queue # <<>>
  /\ LET e == Head(cq)
         h == Head(free_queue) IN
     /\ NextCqe(e) /\ e.op = "accept" /\ e.res >= 0
     /\ e.more \/ ~SqFull(sq)
     /\ \E close \in {FALSE, Closes} :
          LET s == Assign(h, e.res, e.conn, close,
                          [FrameOf(h) EXCEPT !.free = Tail(@), !.sq = AcceptSq(e)])
          IN  Commit(h, s)
  /\ UNCHANGED <<acceptor, phase>>
  /\ KeepReuse

\* The pool is exhausted: the new connection is closed again.
AcceptDrop ==
  /\ cq # <<>>
  /\ free_queue = <<>>
  /\ LET e == Head(cq) IN
     /\ NextCqe(e) /\ e.op = "accept" /\ e.res >= 0
     /\ e.more \/ ~SqFull(sq)
     /\ sq' = AcceptSq(e)
     /\ fdtab' = [fdtab EXCEPT ![e.res] = NoConn]
     /\ shut' = shut \cup {e.conn}
  /\ UNCHANGED <<chan, free_queue, pending_reads, acceptor, phase, avail>>
  /\ KeepReuse

\* cqe_advance: the batch is done, on_batch_done starts.
BatchDone ==
  /\ phase = "batch"
  /\ left = 0
  /\ phase' = "reads"
  /\ UNCHANGED <<chan, free_queue, pending_reads, acceptor, left, sq, flushed, cq, avail,
                 fdtab, shut, kernel>>
  /\ KeepReuse

\* One iteration of on_batch_done.
BatchRead ==
  /\ phase = "reads"
  /\ pending_reads # <<>>
  /\ LET h == Head(pending_reads) IN
     \E echo \in BOOLEAN, close \in {FALSE, Closes} :
       Commit(h, OnRead(h, echo, close,
                        [FrameOf(h) EXCEPT !.c.marked = FALSE, !.reads = Tail(@)]))
  /\ UNCHANGED <<acceptor, phase, left, flushed, cq, kernel>>
  /\ KeepReuse

ReadsDone ==
  /\ phase = "reads"
  /\ pending_reads = <<>>
  /\ phase' = "submit"
  /\ UNCHANGED <<chan, free_queue, pending_reads, acceptor, left, sq, flushed, cq, avail,
                 fdtab, shut, kernel>>
  /\ KeepReuse
-----------------------------------------------------------------------------
(***************************************************************************)
(* The kernel (external): io_uring and the accepted sockets, as far as the *)
(* worker depends on them.                                                 *)
(***************************************************************************)
CqeOf(o, res, more, data) ==
  [op |-> o.op, ch |-> o.ch, conn |-> o.conn, res |-> res, more |-> more,
   data |-> data]

\* The kernel takes the next published SQE.  Only now is the fd number looked
\* up: a closed one completes with EBADF.  It takes what is published when it
\* looks as one batch and moves the queue's head after the last of them.
KernelTake ==
  /\ flushed > 0
  /\ LET e == Head(sq)
         file == IF e.fd = NoFd THEN NoConn ELSE fdtab[e.fd] IN
     IF e.ch # NoChan /\ file = NoConn
     THEN cq' = Append(cq, CqeOf(e, -1, FALSE, <<>>)) /\ ops' = ops
     ELSE /\ ops' = Append(ops, [op |-> e.op, ch |-> e.ch, conn |-> e.conn,
                                 file |-> file, data |-> e.data])
          /\ cq' = cq
  /\ sq' = Tail(sq)
  /\ flushed' = flushed - 1
  /\ LET n == IF kbatch.left = 0 THEN flushed ELSE kbatch.left
     IN  kbatch' = IF n = 1 THEN [left |-> 0, taken |-> 0]
                   ELSE [left |-> n - 1, taken |-> kbatch.taken + 1]
  /\ UNCHANGED <<user, avail, fdtab, shut, nconn, recvd, eof, wire>>
  /\ KeepReuse

\* Operation i posts completion e; the last one of an operation removes it.
Post(i, e) ==
  /\ cq' = Append(cq, e)
  /\ ops' = IF e.more THEN ops
             ELSE SubSeq(ops, 1, i - 1) \o SubSeq(ops, i + 1, Len(ops))

MoreFlags == {TRUE, ~Rearm}

\* A connection arrives and gets the free fd number f.
KernelAccept(f, more) ==
  /\ nconn < MaxConn
  /\ fdtab[f] = NoConn
  /\ nconn' = nconn + 1
  /\ fdtab' = [fdtab EXCEPT ![f] = nconn + 1]
  /\ \E i \in DOMAIN ops :
       /\ ops[i].op = "accept"
       /\ Post(i, [CqeOf(ops[i], f, more, <<>>) EXCEPT !.conn = nconn + 1])
  /\ UNCHANGED <<user, sq, flushed, kbatch, avail, shut, recvd, eof, wire>>
  /\ KeepReuse

\* EMFILE
KernelAcceptError ==
  /\ nconn < MaxConn
  /\ \A f \in Fd : fdtab[f] # NoConn
  /\ \E i \in DOMAIN ops :
       ops[i].op = "accept" /\ Post(i, CqeOf(ops[i], -1, FALSE, <<>>))
  /\ UNCHANGED <<user, sq, flushed, kbatch, avail, fdtab, shut, nconn, recvd, eof, wire>>
  /\ KeepReuse

\* The n-th unit of connection c; on_accept's greeting is the first it sends.
UnitOf(c, n) == <<c, IF Greets THEN n + 1 ELSE n>>

\* Data of the peer, placed in a provided buffer.  What arrived before a
\* shutdown can still be delivered after it.
KernelRecv(c, more) ==
  /\ c \notin eof
  /\ recvd[c] < MaxData
  /\ avail > 0
  /\ recvd' = [recvd EXCEPT ![c] = @ + 1]
  /\ avail' = avail - 1
  /\ \E i \in DOMAIN ops :
       /\ ops[i].op = "recv" /\ ops[i].file = c
       /\ Post(i, CqeOf(ops[i], 1, more, <<UnitOf(c, recvd[c] + 1)>>))
  /\ UNCHANGED <<user, sq, flushed, kbatch, fdtab, shut, nconn, eof, wire>>
  /\ KeepReuse

\* End of stream (the peer's FIN, a shutdown) or a connection error.
KernelRecvEnd(c) ==
  /\ eof' = eof \cup {c}
  /\ \E i \in DOMAIN ops :
       /\ ops[i].op = "recv" /\ ops[i].file = c
       /\ Post(i, CqeOf(ops[i], 0, FALSE, <<>>))
  /\ UNCHANGED <<user, sq, flushed, kbatch, avail, fdtab, shut, nconn, recvd, wire>>
  /\ KeepReuse

\* ENOBUFS: data waits, but every provided buffer is in use.
KernelRecvNoBufs(c) ==
  /\ c \notin eof
  /\ recvd[c] < MaxData
  /\ avail = 0
  /\ \E i \in DOMAIN ops :
       /\ ops[i].op = "recv" /\ ops[i].file = c
       /\ Post(i, CqeOf(ops[i], -1, FALSE, <<>>))
  /\ UNCHANGED <<user, sq, flushed, kbatch, avail, fdtab, shut, nconn, recvd, eof, wire>>
  /\ KeepReuse

\* A complete or a short write.
KernelWrite(c, n) ==
  /\ c \notin shut
  /\ wire' = [wire EXCEPT ![c] = @ + n]
  /\ \E i \in DOMAIN ops :
       /\ ops[i].op = "write" /\ ops[i].file = c /\ n <= Len(ops[i].data)
       /\ Post(i, CqeOf(ops[i], n, FALSE, <<>>))
  /\ UNCHANGED <<user, sq, flushed, kbatch, avail, fdtab, shut, nconn, recvd, eof>>
  /\ KeepReuse

\* EPIPE, ECONNRESET
KernelWriteFail(c) ==
  /\ \E i \in DOMAIN ops :
       /\ ops[i].op = "write" /\ ops[i].file = c
       /\ Post(i, CqeOf(ops[i], -1, FALSE, <<>>))
  /\ UNCHANGED <<user, sq, flushed, kbatch, avail, fdtab, shut, nconn, recvd, eof, wire>>
  /\ KeepReuse

Kernel ==
  \/ KernelTake
  \/ \E f \in Fd, more \in MoreFlags : KernelAccept(f, more)
  \/ KernelAcceptError
  \/ \E c \in Conn :
       \/ \E more \in MoreFlags : KernelRecv(c, more)
       \/ KernelRecvEnd(c)
       \/ KernelRecvNoBufs(c)
       \/ \E n \in 1..WriteCap : KernelWrite(c, n)
       \/ KernelWriteFail(c)

Worker ==
  \/ RingSubmit \/ PeekBatch \/ CompleteChannel
  \/ AcceptFailed \/ AcceptTerminates \/ AcceptAssign \/ AcceptDrop
  \/ BatchDone \/ BatchRead \/ ReadsDone
Next == Worker \/ Kernel

Spec == Init /\ [][Next]_vars

\* The thread keeps running its loop and the kernel keeps taking submissions;
\* a write ends (the peer reads, or the connection fails) and so does a
\* receive on a connection that was shut down.
Fairness ==
  /\ WF_vars(Worker)
  /\ WF_vars(KernelTake)
  /\ \A c \in Conn :
       /\ WF_vars(KernelWriteFail(c) \/ \E n \in 1..WriteCap : KernelWrite(c, n))
       /\ WF_vars(c \in shut /\ KernelRecvEnd(c))

FairSpec == Spec /\ Fairness
-----------------------------------------------------------------------------
(***************************************************************************)
(* Properties.  The ones that start with ~reused say what the worker keeps *)
(* as long as no name the ring holds has become available to a second      *)
(* connection.                                                             *)
(***************************************************************************)
\* TcpChannelPool hands a channel to one connection at a time: the free queue
\* names no channel twice, and a channel in it has no socket (release,
\* acquire, on_drained).
PoolSound ==
  ~reused =>
    /\ IsInjective(free_queue)
    /\ \A h \in Range(free_queue) : chan[h].fd = NoFd

\* No wake-up of the writer is lost: a writer parked on the NotifyToken has no
\* data to send and no notification it did not see (notify, await_ready).
NoLostWakeup ==
  \A h \in Chan : chan[h].wr = "notify" => chan[h].send = <<>> /\ ~chan[h].pending

\* pending_reads_ names exactly the marked channels, once each: on_read is
\* called once per batch and channel (mark_pending_read, on_batch_done).
PendingReadsExact ==
  /\ IsInjective(pending_reads)
  /\ Range(pending_reads) = {h \in Chan : chan[h].marked}
=============================================================================
