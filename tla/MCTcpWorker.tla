---------------------------- MODULE MCTcpWorker ----------------------------
(***************************************************************************)
(* The properties of TcpWorker that count things or speak of eventuality,  *)
(* and what the documentation says of the worker, for TLC.                 *)
(***************************************************************************)
EXTENDS TcpWorker, FiniteSets

\* Entries of a queue of the ring that are for operation op of channel h.
Held(q, h, op) == Cardinality({i \in DOMAIN q : q[i].ch = h /\ q[i].op = op})

\* Last completions of such operations in the completion queue q.
Ended(q, h, op) ==
  Cardinality({i \in DOMAIN q : q[i].ch = h /\ q[i].op = op /\ ~q[i].more})

\* Operations of channel h whose last completion the worker has not seen.
Unfinished(h, op) == Held(sq, h, op) + Held(ops, h, op) + Ended(cq, h, op)

\* A closing channel whose writer is parked has an operation in the ring whose
\* completion will wake the writer (tcp_write_loop's test of has_in_flight).
ClosingWriterHasWaker ==
  ~reused => \A h \in Chan :
    chan[h].closed /\ chan[h].wr = "notify"
      => Unfinished(h, "recv") + Unfinished(h, "write") > 0

\* A channel has one write in the ring while its writer waits for it and none
\* otherwise.
OneWrite ==
  ~reused => \A h \in Chan :
    Held(sq, h, "write") + Held(ops, h, "write") + Held(cq, h, "write")
      = (IF chan[h].wr = "await" THEN 1 ELSE 0)

\* The asserts of tcp_write_loop and consume_written: a completed write is
\* within what was submitted, and that is still in the send queue.
WrittenWasSubmitted ==
  ~reused => \A e \in Range(cq) :
    e.op = "write" =>
      /\ e.res <= chan[e.ch].submitted
      /\ chan[e.ch].wr = "await" => chan[e.ch].submitted <= Len(chan[e.ch].send)

\* The bytes of a write continue its connection's stream exactly where the
\* last write ended: nothing lost, repeated, reordered or of another
\* connection (peek_iovec, consume_written, short writes, reset).
StreamOrder ==
  ~reused => \A o \in Range(ops) :
    o.op = "write" =>
      o.data = [i \in 1..Len(o.data) |-> <<o.file, wire[o.file] + i>>]

\* A channel in the pool carries nothing over to its next connection.
PooledIsClean ==
  ~reused => \A h \in Range(free_queue) :
    /\ chan[h].send = <<>> /\ chan[h].draft = <<>> /\ chan[h].read_buf = <<>>
    /\ chan[h].in_flight = 0
    /\ chan[h].rd \in {"none", "done"} /\ chan[h].wr \in {"none", "done"}

\* A channel goes back to the pool while the ring still holds an operation of
\* it only if data was received on its connection: nothing but a multishot
\* receive, whose completions all decrement in_flight_, lets the count reach
\* zero early (in_flight_inc, in_flight_dec, on_drained).
OnlyDriftReturnsEarly ==
  [][~reused => \A h \in Chan :
       (InPool(h) /\ Busy(h))' => recvd[chan[h].conn] > 0]_vars

\* How deep the submission queue must be.  The accept, and one receive and one
\* write per channel, are all that a worker has prepared at a time; with SQPOLL
\* almost as many again may be in a batch that the kernel took but whose
\* entries it has not given back.
SqBound ==
  ~reused => Len(sq) + kbatch.taken <=
               IF SqPoll THEN 4 * PoolSize + 1 ELSE 2 * PoolSize + 1

\* Every provided buffer is with the kernel, in a channel's read buffer or in
\* a completion on its way there.
BuffersConserved ==
  ~reused =>
    avail + Cardinality({i \in DOMAIN cq : cq[i].op = "recv" /\ cq[i].res > 0})
      + Cardinality(UNION {{h} \X DOMAIN chan[h].read_buf : h \in Chan}) = BufNum

\* Bytes submitted on an open connection get written, unless it is closed.
SendsDrain ==
  \A h \in Chan :
    (chan[h].send # <<>> /\ ~chan[h].closed)
      ~> (chan[h].send = <<>> \/ chan[h].closed \/ reused)

\* Both coroutines of a closed channel come to their end.
ClosingEnds ==
  \A h \in Chan :
    chan[h].closed ~> \/ chan[h].rd = "done" /\ chan[h].wr = "done"
                      \/ ~chan[h].closed \/ reused

\* A channel that is closed while it counts an operation in flight comes back
\* to the pool (in_flight_dec, on_drained, release).
ClosingReturns ==
  \A h \in Chan :
    (chan[h].closed /\ chan[h].in_flight > 0) ~> (InPool(h) \/ reused)
-----------------------------------------------------------------------------
(***************************************************************************)
(* What the documentation says without a condition.                        *)
(***************************************************************************)
\* README.md:85: "at most one write SQE in flight per connection".
OneWritePerConnection ==
  \A c \in Conn :
    LET W(q) == Cardinality({i \in DOMAIN q : q[i].op = "write" /\ q[i].conn = c})
    IN  W(sq) + W(ops) + W(cq) <= 1

\* README.md:85: "TCP maintains byte-stream ordering".
ByteStreamOrdering ==
  \A o \in Range(ops) :
    o.op = "write" =>
      o.data = [i \in 1..Len(o.data) |-> <<o.file, wire[o.file] + i>>]

\* README.md:60 pipes one line into "nc -N", which ends its side of the
\* connection right after the data: what was received for a channel that waits
\* for its on_read is still there when on_read is called.
DataReachesOnRead ==
  [][\A h \in Chan :
       chan[h].marked /\ chan'[h].marked
         => Len(chan'[h].read_buf) >= Len(chan[h].read_buf)]_vars
=============================================================================
