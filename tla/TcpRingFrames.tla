---------------------------- MODULE TcpRingFrames ----------------------------
(***************************************************************************)
(* What the handlers of a TCP channel do to the counts of TcpRingProofs:   *)
(* the operations of the channel in the ring, in_flight_, the provided     *)
(* buffers and the state of the two coroutines.                            *)
(***************************************************************************)
EXTENDS TcpWorkerProofs, MCTcpWorker

USE ZenonT(30)

Entry == Sqe \cup Op \cup Cqe
OpsOf(h, op) == {x \in Entry : x.ch = h /\ x.op = op}
EndsOf(h, op) == {x \in Cqe : x.ch = h /\ x.op = op /\ ~x.more}

\* What Held counts.
LEMMA HeldOccurs ==
  ASSUME NEW S \in SUBSET Entry, NEW q \in Seq(S), NEW h, NEW op
  PROVE  Held(q, h, op) = Occurs(q, OpsOf(h, op)) /\ Held(q, h, op) \in Nat
<1>1. \A i \in DOMAIN q : q[i] \in Entry
  BY SMTT(30)
<1>2. {i \in DOMAIN q : q[i].ch = h /\ q[i].op = op} = Places(q, OpsOf(h, op))
  BY <1>1 DEF Places, OpsOf
<1>3. Held(q, h, op) = Occurs(q, OpsOf(h, op))
  BY <1>2 DEF Held, Occurs
<1> QED
  BY <1>3, OccursType, SMTT(30)

\* What Ended counts.
LEMMA EndedOccurs ==
  ASSUME NEW q \in Seq(Cqe), NEW h, NEW op
  PROVE  Ended(q, h, op) = Occurs(q, EndsOf(h, op)) /\ Ended(q, h, op) \in Nat
<1>1. \A i \in DOMAIN q : q[i] \in Cqe
  BY SMTT(30)
<1>2. {i \in DOMAIN q : q[i].ch = h /\ q[i].op = op /\ ~q[i].more}
        = Places(q, EndsOf(h, op))
  BY <1>1 DEF Places, EndsOf
<1>3. Ended(q, h, op) = Occurs(q, EndsOf(h, op))
  BY <1>2 DEF Ended, Occurs
<1> QED
  BY <1>3, OccursType

\* One more entry in a queue.
LEMMA HeldAppend ==
  ASSUME NEW S \in SUBSET Entry, NEW q \in Seq(S), NEW x \in S, NEW h, NEW op
  PROVE  Held(Append(q, x), h, op)
           = IF x.ch = h /\ x.op = op THEN Held(q, h, op) + 1 ELSE Held(q, h, op)
<1> DEFINE q1 == Append(q, x)
<1>1. q1 \in Seq(S) /\ (x \in OpsOf(h, op) <=> x.ch = h /\ x.op = op)
  BY SMTT(30) DEF OpsOf
<1> HIDE DEF q1
<1>2. Held(q1, h, op) = Occurs(q1, OpsOf(h, op))
  BY <1>1, HeldOccurs
<1> USE DEF q1
<1>3. Held(q, h, op) = Occurs(q, OpsOf(h, op))
  BY HeldOccurs
<1> QED
  BY <1>1, <1>2, <1>3, OccursAppend, SMTT(30)

\* The head of a queue leaves it.
LEMMA HeldTail ==
  ASSUME NEW S \in SUBSET Entry, NEW q \in Seq(S), q # <<>>, NEW h, NEW op
  PROVE  Held(q, h, op)
           = IF Head(q).ch = h /\ Head(q).op = op THEN Held(Tail(q), h, op) + 1
                                                  ELSE Held(Tail(q), h, op)
<1>1. Tail(q) \in Seq(S) /\ Head(q) \in S
  BY SMTT(30)
<1>2. Head(q) \in OpsOf(h, op) <=> Head(q).ch = h /\ Head(q).op = op
  BY <1>1 DEF OpsOf
<1>3. Held(Tail(q), h, op) = Occurs(Tail(q), OpsOf(h, op))
  BY <1>1, HeldOccurs
<1>4. Held(q, h, op) = Occurs(q, OpsOf(h, op))
  BY HeldOccurs
<1> QED
  BY <1>2, <1>3, <1>4, OccursTail

\* Sequence q without its i-th element.
Cut(q, i) == SubSeq(q, 1, i - 1) \o SubSeq(q, i + 1, Len(q))

\* An operation leaves the kernel's list.
LEMMA HeldCut ==
  ASSUME NEW S \in SUBSET Entry, NEW q \in Seq(S), NEW i \in DOMAIN q, NEW h, NEW op, NEW r,
         r = Cut(q, i)
  PROVE  Held(q, h, op)
           = IF q[i].ch = h /\ q[i].op = op THEN Held(r, h, op) + 1 ELSE Held(r, h, op)
<1>1. r \in Seq(S) /\ q[i] \in S
  BY CutSet, SMTT(30) DEF Cut
<1>2. q[i] \in OpsOf(h, op) <=> q[i].ch = h /\ q[i].op = op
  BY <1>1 DEF OpsOf
<1>3. Occurs(q, OpsOf(h, op)) = IF q[i] \in OpsOf(h, op) THEN Occurs(r, OpsOf(h, op)) + 1
                                                         ELSE Occurs(r, OpsOf(h, op))
  BY OccursCut DEF Cut
<1>4. Held(r, h, op) = Occurs(r, OpsOf(h, op))
  BY <1>1, HeldOccurs
<1>5. Held(q, h, op) = Occurs(q, OpsOf(h, op))
  BY HeldOccurs
<1> QED
  BY <1>2, <1>3, <1>4, <1>5

\* A queue without operations op of channel h holds none.
LEMMA HeldNone ==
  ASSUME NEW S \in SUBSET Entry, NEW q \in Seq(S), NEW h, NEW op
  PROVE  Held(q, h, op) = 0 <=> \A x \in Range(q) : ~(x.ch = h /\ x.op = op)
<1>1. \A x \in Range(q) : x \in Entry
  BY SMTT(30) DEF Range
<1>2. Occurs(q, OpsOf(h, op)) = 0 <=> \A x \in Range(q) : x \notin OpsOf(h, op)
  BY OccursType
<1> QED
  BY <1>1, <1>2, HeldOccurs, SMTT(30) DEF OpsOf

\* A completion is posted.
LEMMA EndedAppend ==
  ASSUME NEW q \in Seq(Cqe), NEW e \in Cqe, NEW h, NEW op
  PROVE  Ended(Append(q, e), h, op)
           = IF e.ch = h /\ e.op = op /\ ~e.more THEN Ended(q, h, op) + 1
                                                 ELSE Ended(q, h, op)
<1>1. Append(q, e) \in Seq(Cqe) /\ (e \in EndsOf(h, op) <=> e.ch = h /\ e.op = op /\ ~e.more)
  BY SMTT(30) DEF EndsOf
<1>2. Ended(Append(q, e), h, op) = Occurs(Append(q, e), EndsOf(h, op))
  BY <1>1, EndedOccurs
<1>3. Ended(q, h, op) = Occurs(q, EndsOf(h, op))
  BY EndedOccurs
<1> QED
  BY <1>1, <1>2, <1>3, OccursAppend, SMTT(30)

\* The worker takes the head of the completion queue.
LEMMA EndedTail ==
  ASSUME NEW q \in Seq(Cqe), q # <<>>, NEW h, NEW op
  PROVE  Ended(q, h, op)
           = IF Head(q).ch = h /\ Head(q).op = op /\ ~Head(q).more
             THEN Ended(Tail(q), h, op) + 1 ELSE Ended(Tail(q), h, op)
<1>1. Tail(q) \in Seq(Cqe) /\ Head(q) \in Cqe
  BY SMTT(30)
<1>2. Head(q) \in EndsOf(h, op) <=> Head(q).ch = h /\ Head(q).op = op /\ ~Head(q).more
  BY <1>1 DEF EndsOf
<1>3. Ended(Tail(q), h, op) = Occurs(Tail(q), EndsOf(h, op))
  BY <1>1, EndedOccurs
<1>4. Ended(q, h, op) = Occurs(q, EndsOf(h, op))
  BY EndedOccurs
<1> QED
  BY <1>2, <1>3, <1>4, OccursTail

\* No last completion means no such entry with a clear IORING_CQE_F_MORE.
LEMMA EndedNone ==
  ASSUME NEW q \in Seq(Cqe), NEW h, NEW op
  PROVE  Ended(q, h, op) = 0
           <=> \A e \in Range(q) : ~(e.ch = h /\ e.op = op /\ ~e.more)
<1>1. \A x \in Range(q) : x \in Cqe
  BY SMTT(30) DEF Range
<1>2. Occurs(q, EndsOf(h, op)) = 0 <=> \A x \in Range(q) : x \notin EndsOf(h, op)
  BY OccursType
<1> QED
  BY <1>1, <1>2, EndedOccurs, SMTT(30) DEF EndsOf
-----------------------------------------------------------------------------
(***************************************************************************)
(* What the operators of a handler do to the frame, field by field.        *)
(***************************************************************************)
\* The frames differ at most in the writer's state, pending_, closed_ and the
\* send queue, in what close() does to the fd, and in where buffers are.
Steady(s, r) ==
  /\ s \in Frame /\ r \in Frame
  /\ r.sq = s.sq /\ r.c.conn = s.c.conn
  /\ r.c.in_flight = s.c.in_flight /\ r.c.rd = s.c.rd /\ r.c.submitted = s.c.submitted
  /\ r.avail + Len(r.c.read_buf) = s.avail + Len(s.c.read_buf)
  /\ r.c.read_buf \in {s.c.read_buf, <<>>}

\* The frames differ at most in the writer's state, pending_ and the send queue.
Alike(s, r) == Steady(s, r) /\ r.c.closed = s.c.closed

\* r is s with an SQE e of channel h added.
Added(h, op, s, e, r) ==
  /\ s \in Frame /\ r \in Frame
  /\ e \in Sqe /\ e.ch = h /\ e.op = op
  /\ r.sq = Append(s.sq, e) /\ ~SqFull(s.sq) /\ e.conn = s.c.conn
  /\ r.c.conn = s.c.conn /\ r.avail = s.avail
  /\ r.c.in_flight = s.c.in_flight + 1 /\ r.c.closed = s.c.closed
  /\ r.c.read_buf = s.c.read_buf /\ r.c.send = s.c.send
  /\ r.c.draft = s.c.draft /\ r.c.pending = s.c.pending

\* A change of the channel alone.
LEMMA ChannelShape ==
  ASSUME NEW s \in Frame, NEW x \in Channel
  PROVE  LET r == [s EXCEPT !.c = x]
         IN  /\ r \in Frame /\ r.c = x /\ r.sq = s.sq /\ r.free = s.free
             /\ r.avail = s.avail
BY DEF Frame

\* get_sqe, prep_* and set_data.
LEMMA PrepShape ==
  ASSUME NEW h \in Chan, NEW op \in {"recv", "write"}, NEW data \in Seq(Unit),
         NEW s \in Frame
  PROVE  \E e \in Sqe :
           /\ e.ch = h /\ e.op = op /\ e.data = data /\ e.conn = s.c.conn
           /\ Prep(h, op, data, s) \in Frame
           /\ Prep(h, op, data, s).c = s.c
           /\ Prep(h, op, data, s).sq = Append(s.sq, e)
           /\ Prep(h, op, data, s).free = s.free
           /\ Prep(h, op, data, s).avail = s.avail
<1> DEFINE e == [op |-> op, ch |-> h, conn |-> s.c.conn, fd |-> s.c.fd, data |-> data]
           r == Prep(h, op, data, s)
<1>1. e \in Sqe /\ e.ch = h /\ e.op = op /\ e.data = data /\ e.conn = s.c.conn
  BY DEF Frame, Channel, Sqe
<1>2. s.sq \in Seq(Sqe) /\ Append(s.sq, e) \in Seq(Sqe)
  BY <1>1, SMTT(30) DEF Frame
<1>3. r = [s EXCEPT !.sq = Append(s.sq, e)]
  BY DEF Prep
<1> HIDE DEF e, r
<1>4. /\ r \in Frame /\ r.c = s.c /\ r.reads = s.reads /\ r.free = s.free
      /\ r.sq = Append(s.sq, e) /\ r.avail = s.avail
  BY <1>2, <1>3 DEF Frame
<1> QED
  BY <1>1, <1>4 DEF r

\* tcp_read_loop arms its receive, or ends with the exception of a full queue.
LEMMA ArmRecvShape ==
  ASSUME NEW h \in Chan, NEW s \in Frame, NEW r, r = ArmRecv(h, s)
  PROVE  /\ r.c.wr = s.c.wr /\ r.c.submitted = s.c.submitted
         /\ \/ /\ SqFull(s.sq) /\ r.c.rd = "done" /\ r.c.pending = s.c.pending
               /\ r \in Frame /\ r.sq = s.sq /\ r.avail = s.avail
               /\ r.c.in_flight = s.c.in_flight /\ r.c.closed = s.c.closed
               /\ r.c.read_buf = s.c.read_buf /\ r.c.send = s.c.send
               /\ r.c.draft = s.c.draft /\ r.c.conn = s.c.conn
            \/ r.c.rd = "await" /\ \E e : Added(h, "recv", s, e, r)
<1>1. CASE SqFull(s.sq)
  <2> DEFINE x == [s.c EXCEPT !.rd = "done"]
  <2>1. /\ x \in Channel /\ x.rd = "done" /\ x.in_flight = s.c.in_flight
        /\ x.wr = s.c.wr /\ x.closed = s.c.closed /\ x.read_buf = s.c.read_buf /\ x.conn = s.c.conn
        /\ x.send = s.c.send
        /\ x.draft = s.c.draft /\ x.pending = s.c.pending /\ x.submitted = s.c.submitted
    BY DEF Frame, Channel, ReadState
  <2>2. r = [s EXCEPT !.c = x]
    BY <1>1 DEF ArmRecv, Frame
  <2> HIDE DEF x
  <2>3. r \in Frame /\ r.c = x /\ r.sq = s.sq /\ r.avail = s.avail
    BY <2>1, <2>2, ChannelShape, SMTT(30)
  <2> QED
    BY <1>1, <2>1, <2>3
<1>2. CASE ~SqFull(s.sq)
  <2> DEFINE p == Prep(h, "recv", <<>>, s)
             n == s.c.in_flight + 1
             x == [s.c EXCEPT !.in_flight = n, !.rd = "await"]
  <2>1. PICK e \in Sqe :
          /\ e.ch = h /\ e.op = "recv" /\ e.conn = s.c.conn
          /\ p \in Frame /\ p.c = s.c /\ p.sq = Append(s.sq, e)
          /\ p.free = s.free /\ p.avail = s.avail
    <3> DEFINE d == <<>>
    <3>1. d \in Seq(Unit) /\ p = Prep(h, "recv", d, s)
      BY SMTT(30)
    <3> HIDE DEF d, p
    <3>2. \E e \in Sqe :
            /\ e.ch = h /\ e.op = "recv" /\ e.conn = s.c.conn
            /\ p \in Frame /\ p.c = s.c /\ p.sq = Append(s.sq, e)
            /\ p.free = s.free /\ p.avail = s.avail
      BY <3>1, PrepShape, SMTT(30)
    <3> QED
      BY <3>2
  <2>2. n \in Int /\ n = s.c.in_flight + 1
    BY SMTT(30) DEF Frame, Channel
  <2>3. r = [p EXCEPT !.c.in_flight = p.c.in_flight + 1, !.c.rd = "await"]
    BY <1>2 DEF ArmRecv
  <2> HIDE DEF p, n
  <2>4. /\ x \in Channel /\ x.rd = "await" /\ x.in_flight = n
        /\ x.wr = s.c.wr /\ x.closed = s.c.closed /\ x.read_buf = s.c.read_buf /\ x.conn = s.c.conn
        /\ x.send = s.c.send
        /\ x.draft = s.c.draft /\ x.pending = s.c.pending /\ x.submitted = s.c.submitted
    BY <2>2 DEF Frame, Channel, ReadState
  <2>5. r = [p EXCEPT !.c = x]
    BY <2>1, <2>2, <2>3 DEF Frame
  <2> HIDE DEF x
  <2>6. /\ r \in Frame /\ r.c = x /\ r.sq = p.sq /\ r.free = p.free /\ r.avail = p.avail
    BY <2>1, <2>4, <2>5, ChannelShape, SMTT(30)
  <2>7. Added(h, "recv", s, e, r)
    BY <1>2, <2>1, <2>2, <2>4, <2>6 DEF Added
  <2> QED
    BY <2>4, <2>6, <2>7
<1> QED
  BY <1>1, <1>2

\* tcp_write_loop has written nothing and ends with the exception of a full queue.
WriteFails(s, r) ==
  Alike(s, r) /\ SqFull(s.sq) /\ r.c.wr = "done" /\ r.c.send = s.c.send /\ r.c.draft = s.c.draft

\* tcp_write_loop prepares one write of its whole send queue.
WriteArms(h, s, r) ==
  /\ r.c.wr = "await" /\ r.c.rd = s.c.rd /\ r.c.submitted = Len(s.c.send)
  /\ \E e : Added(h, "write", s, e, r) /\ Len(e.data) = Len(s.c.send)

\* prep_writev, or the exception of a full queue.
LEMMA ArmWriteShape ==
  ASSUME NEW h \in Chan, NEW s \in Frame, NEW r, r = ArmWrite(h, s)
  PROVE  WriteFails(s, r) \/ WriteArms(h, s, r)
<1>1. CASE SqFull(s.sq)
  <2> DEFINE x == [s.c EXCEPT !.wr = "done"]
  <2>1. /\ x \in Channel /\ x.wr = "done" /\ x.rd = s.c.rd /\ x.in_flight = s.c.in_flight
        /\ x.closed = s.c.closed /\ x.read_buf = s.c.read_buf /\ x.conn = s.c.conn
        /\ x.send = s.c.send
        /\ x.draft = s.c.draft /\ x.pending = s.c.pending /\ x.submitted = s.c.submitted
    BY DEF Frame, Channel, WriteState
  <2>2. r = [s EXCEPT !.c = x]
    BY <1>1 DEF ArmWrite, Frame
  <2> HIDE DEF x
  <2>3. r \in Frame /\ r.c = x /\ r.sq = s.sq /\ r.free = s.free /\ r.avail = s.avail
    BY <2>1, <2>2, ChannelShape, SMTT(30)
  <2> QED
    BY <1>1, <2>1, <2>3 DEF WriteFails, Alike, Steady
<1>2. CASE ~SqFull(s.sq)
  <2> DEFINE d == s.c.send
             p == Prep(h, "write", d, s)
             n == s.c.in_flight + 1
             m == Len(d)
             x == [s.c EXCEPT !.in_flight = n, !.wr = "await", !.submitted = m]
  <2>1. d \in Seq(Unit) /\ m \in Nat /\ n \in Int /\ n = s.c.in_flight + 1
    BY SMTT(30) DEF Frame, Channel
  <2>2. PICK e \in Sqe :
          /\ e.ch = h /\ e.op = "write" /\ e.data = d /\ e.conn = s.c.conn
          /\ p \in Frame /\ p.c = s.c /\ p.sq = Append(s.sq, e)
          /\ p.free = s.free /\ p.avail = s.avail
    <3> HIDE DEF d
    <3> QED
      BY <2>1, PrepShape, SMTT(30)
  <2>3. r = [p EXCEPT !.c.in_flight = p.c.in_flight + 1, !.c.wr = "await",
                      !.c.submitted = m]
    BY <1>2 DEF ArmWrite
  <2> HIDE DEF p, n, m
  <2>4. /\ x \in Channel /\ x.wr = "await" /\ x.in_flight = n /\ x.rd = s.c.rd
        /\ x.closed = s.c.closed /\ x.read_buf = s.c.read_buf /\ x.conn = s.c.conn
        /\ x.send = s.c.send
        /\ x.draft = s.c.draft /\ x.pending = s.c.pending /\ x.submitted = m
    BY <2>1 DEF Frame, Channel, WriteState
  <2>5. r = [p EXCEPT !.c = x]
    BY <2>1, <2>2, <2>3 DEF Frame
  <2> HIDE DEF x
  <2>6. /\ r \in Frame /\ r.c = x /\ r.sq = p.sq /\ r.free = p.free /\ r.avail = p.avail
    BY <2>2, <2>4, <2>5, ChannelShape, SMTT(30)
  <2>7. Added(h, "write", s, e, r)
    BY <1>2, <2>1, <2>2, <2>4, <2>6 DEF Added
  <2>8. Len(e.data) = Len(s.c.send) /\ r.c.submitted = Len(s.c.send)
    BY <2>2, <2>4, <2>6 DEF m
  <2> QED
    BY <2>4, <2>6, <2>7, <2>8 DEF WriteArms
<1> QED
  BY <1>1, <1>2

\* The writer parks on the NotifyToken with nothing to send.
WriteParks(woken, s, r) ==
  /\ Alike(s, r) /\ r.c.wr = "notify"
  /\ s.c.send = <<>> /\ r.c.send = s.c.send /\ r.c.draft = s.c.draft
  /\ s.c.closed => s.c.in_flight > 0 \/ (~woken /\ ~s.c.pending)

\* The writer of a closed, drained channel ends.
WriteEnds(s, r) ==
  /\ Alike(s, r) /\ s.c.closed /\ r.c.wr = "done"
  /\ r.c.send = <<>> /\ r.c.draft = <<>>

\* tcp_write_loop from the top of its loop to its next suspension.
LEMMA WriterRunShape ==
  ASSUME NEW h \in Chan, NEW woken \in BOOLEAN, NEW s \in Frame, NEW r,
         r = WriterRun(h, woken, s)
  PROVE  \/ WriteParks(woken, s, r) \/ WriteEnds(s, r) \/ WriteFails(s, r)
         \/ WriteArms(h, s, r) /\ (s.c.closed => s.c.in_flight > 0)
<1> DEFINE idle == s.c.send = <<>>
           t == IF idle THEN [s EXCEPT !.c.pending = FALSE] ELSE s
           x == IF idle THEN [s.c EXCEPT !.pending = FALSE] ELSE s.c
           Same(y) == /\ y \in Channel /\ y.rd = s.c.rd /\ y.in_flight = s.c.in_flight
                      /\ y.closed = s.c.closed /\ y.read_buf = s.c.read_buf
                      /\ y.submitted = s.c.submitted /\ y.conn = s.c.conn
<1>0. s.c.in_flight \in Int
  BY DEF Frame, Channel
<1>1. Same(x) /\ x.send = s.c.send /\ x.draft = s.c.draft
  BY DEF Frame, Channel
<1>2. t = [s EXCEPT !.c = x] /\ t \in Frame /\ t.c = x /\ (~idle => t = s)
      /\ t.sq = s.sq /\ t.free = s.free /\ t.avail = s.avail
  <2>1. t = [s EXCEPT !.c = x] /\ (~idle => t = s)
    BY DEF Frame
  <2> HIDE DEF x, t
  <2> QED
    BY <1>1, <2>1, ChannelShape
<1>3. CASE idle /\ ~woken /\ ~s.c.pending
  <2> DEFINE y == [s.c EXCEPT !.wr = "notify"]
  <2>1. Same(y) /\ y.send = s.c.send /\ y.draft = s.c.draft /\ y.wr = "notify"
    BY DEF Frame, Channel, WriteState
  <2>2. r = [s EXCEPT !.c = y]
    BY <1>3 DEF WriterRun, Frame
  <2> HIDE DEF y
  <2>3. r \in Frame /\ r.c = y /\ r.sq = s.sq /\ r.free = s.free /\ r.avail = s.avail
    BY <2>1, <2>2, ChannelShape, SMTT(30)
  <2> QED
    BY <1>3, <2>1, <2>3 DEF WriteParks, Alike, Steady
<1>4. CASE ~(idle /\ ~woken /\ ~s.c.pending)
  <2>1. CASE s.c.closed /\ s.c.in_flight <= 0
    <3> DEFINE y == [x EXCEPT !.wr = "done", !.send = <<>>, !.draft = <<>>]
    <3>1. r = [t EXCEPT !.c.wr = "done", !.c.send = <<>>, !.c.draft = <<>>]
      BY <1>4, <2>1 DEF WriterRun
    <3> HIDE DEF x, t
    <3>2. Same(y) /\ y.wr = "done" /\ y.send = <<>> /\ y.draft = <<>>
      <4>1. <<>> \in Seq(Unit)
        BY SMTT(30)
      <4> QED
        BY <1>1, <4>1 DEF Channel, WriteState
    <3>3. r = [t EXCEPT !.c = y]
      BY <1>2, <3>1 DEF Frame
    <3> HIDE DEF y
    <3>4. r \in Frame /\ r.c = y /\ r.sq = t.sq /\ r.free = t.free /\ r.avail = t.avail
      <4>1. t \in Frame /\ y \in Channel
        BY <1>2, <3>2
      <4> QED
        BY <3>3, <4>1, ChannelShape, SMTT(30)
    <3> QED
      BY <1>2, <2>1, <3>2, <3>4 DEF WriteEnds, Alike, Steady
  <2>2. CASE ~(s.c.closed /\ s.c.in_flight <= 0) /\ idle
    <3> DEFINE y == [x EXCEPT !.wr = "notify"]
    <3>1. r = [t EXCEPT !.c.wr = "notify"]
      BY <1>4, <2>2 DEF WriterRun
    <3> HIDE DEF x, t
    <3>2. Same(y) /\ y.send = s.c.send /\ y.draft = s.c.draft /\ y.wr = "notify"
      BY <1>1 DEF Channel, WriteState
    <3>3. r = [t EXCEPT !.c = y]
      BY <1>2, <3>1 DEF Frame
    <3> HIDE DEF y
    <3>4. r \in Frame /\ r.c = y /\ r.sq = t.sq /\ r.free = t.free /\ r.avail = t.avail
      <4>1. t \in Frame /\ y \in Channel
        BY <1>2, <3>2
      <4> QED
        BY <3>3, <4>1, ChannelShape, SMTT(30)
    <3>5. s.c.closed => s.c.in_flight > 0
      BY <1>0, <2>2, SMTT(30)
    <3> QED
      BY <1>2, <2>2, <3>2, <3>4, <3>5 DEF WriteParks, Alike, Steady
  <2>3. CASE ~(s.c.closed /\ s.c.in_flight <= 0) /\ ~idle
    <3>1. r = ArmWrite(h, t) /\ t = s
      BY <1>2, <1>4, <2>3 DEF WriterRun
    <3> HIDE DEF x, t
    <3>2. r = ArmWrite(h, s)
      BY <3>1
    <3>3. s.c.closed => s.c.in_flight > 0
      BY <1>0, <2>3, SMTT(30)
    <3> QED
      BY <3>2, <3>3, ArmWriteShape
  <2> QED
    BY <2>1, <2>2, <2>3
<1> QED
  BY <1>3, <1>4
-----------------------------------------------------------------------------
(***************************************************************************)
(* The parts of a handler that leave the reader alone, composed.           *)
(***************************************************************************)
Waits(state) == IF state = "await" THEN 1 ELSE 0

\* The SQEs prepared are the write the writer now waits for, each is counted
\* in in_flight_, which went down by k, and provided buffers only move to the
\* ring and back.
Counted(h, k, s, r) ==
  /\ r.c.rd = s.c.rd /\ Held(r.sq, h, "recv") = Held(s.sq, h, "recv")
  /\ Held(r.sq, h, "write") + Waits(s.c.wr) = Held(s.sq, h, "write") + Waits(r.c.wr)
  /\ r.c.in_flight + k + Held(s.sq, h, "write") = s.c.in_flight + Held(r.sq, h, "write")
  /\ r.avail + Len(r.c.read_buf) = s.avail + Len(s.c.read_buf)
  /\ r.c.read_buf \in {s.c.read_buf, <<>>}

\* A writer that waits is not disturbed.
Undisturbed(s, r) ==
  s.c.wr = "await" =>
    r.c.wr = "await" /\ r.c.submitted = s.c.submitted /\ Len(s.c.send) <= Len(r.c.send)

\* A write prepared is of submitted_bytes bytes that are in the send queue.
Writing(s, r) ==
  /\ Undisturbed(s, r)
  /\ r.c.wr = "await" => s.c.wr = "await" \/ r.c.submitted <= Len(r.c.send)
  /\ \A i \in 1..Len(r.sq) : i > Len(s.sq) /\ r.sq[i].op = "write" =>
       r.c.wr = "await" /\ Len(r.sq[i].data) = r.c.submitted

\* get_sqe finds the submission queue full.
Full(q) == kbatch.taken \in Nat => SqFull(q)

\* closed_ stays set; a writer that has ended stays so; one ends because the
\* channel is closed, having emptied the write buffer, or on a full queue.
Ending(s, r) ==
  /\ s.c.closed => r.c.closed
  /\ s.c.wr \in {"none", "done"} =>
       /\ r.c.wr = s.c.wr
       /\ \/ r.c.send = s.c.send /\ r.c.draft = s.c.draft
          \/ Careless \/ ~s.c.closed
  /\ r.c.wr = "done" =>
       \/ s.c.wr = "done" \/ Full(r.sq) \/ Careless
       \/ r.c.closed /\ r.c.send = <<>> /\ r.c.draft = <<>>
  /\ r.c.wr = "none" => s.c.wr = "none"
  /\ r.c.wr = "run" => s.c.wr = "run"

\* What is prepared is for the channel and its connection.
Extends(h, s, r) ==
  /\ s \in Frame /\ r \in Frame /\ r.c.conn = s.c.conn
  /\ Continues(h, s.c.conn, s.sq, r.sq)

Carries(h, s, r) == Extends(h, s, r) /\ Writing(s, r) /\ Ending(s, r)

Tallies(h, k, s, r) == Carries(h, s, r) /\ Counted(h, k, s, r)

\* The writer of a closed channel has ended, has an unseen notification or
\* waits for an operation in flight.
Alert(c) == c.closed => c.wr \in {"none", "done"} \/ c.pending \/ c.in_flight > 0

Awake(s) == Alert(s.c)

\* The numbers in a frame.
LEMMA FrameNumbers ==
  ASSUME NEW s \in Frame, NEW h, NEW op
  PROVE  /\ s.sq \in Seq(Sqe) /\ Len(s.sq) \in Nat /\ Held(s.sq, h, op) \in Nat
         /\ s.c.in_flight \in Int /\ s.avail \in Nat /\ Len(s.c.read_buf) \in Nat
         /\ s.c.send \in Seq(Unit) /\ Len(s.c.send) \in Nat /\ s.c.submitted \in Nat
<1>1. /\ s.sq \in Seq(Sqe) /\ s.c.in_flight \in Int /\ s.avail \in Nat
      /\ s.c.read_buf \in Seq(Unit) /\ s.c.send \in Seq(Unit) /\ s.c.submitted \in Nat
  BY DEF Frame, Channel
<1>2. Sqe \in SUBSET Entry
  BY DEF Entry
<1>3. Held(s.sq, h, op) \in Nat
  BY <1>1, <1>2, HeldOccurs
<1> QED
  BY <1>1, <1>3, SMTT(30)

\* A queue that is full stays full while a handler adds to it.
LEMMA FullStays ==
  ASSUME NEW h, NEW s, NEW r, Extends(h, s, r), Full(s.sq)
  PROVE  Full(r.sq)
<1> DEFINE k == kbatch.taken
           a == Len(s.sq)
           b == Len(r.sq)
<1>1. s \in Frame /\ r \in Frame /\ a <= b
  BY DEF Extends, Continues
<1>2. a \in Nat /\ b \in Nat /\ QueueDepth \in Nat
  BY <1>1, FrameNumbers, SizesAssumption
<1>3. k \in Nat => a + k >= QueueDepth
  BY DEF Full, SqFull
<1> HIDE DEF k, a, b
<1>4. k \in Nat => b + k >= QueueDepth
  BY <1>1, <1>2, <1>3, SMTT(30)
<1> QED
  BY <1>4 DEF Full, SqFull, k, b

\* Parts of a handler compose.
LEMMA CarriesTrans ==
  ASSUME NEW h, NEW s, NEW r, NEW t, Carries(h, s, r), Carries(h, r, t)
  PROVE  Carries(h, s, t)
<1>1. s \in Frame /\ r \in Frame /\ t \in Frame /\ Extends(h, s, t)
  <2>1. /\ s \in Frame /\ r \in Frame /\ t \in Frame
        /\ r.c.conn = s.c.conn /\ t.c.conn = r.c.conn
        /\ Continues(h, s.c.conn, s.sq, r.sq) /\ Continues(h, s.c.conn, r.sq, t.sq)
    BY DEF Carries, Extends
  <2>2. s.sq \in Seq(Sqe) /\ r.sq \in Seq(Sqe) /\ t.sq \in Seq(Sqe)
    BY <2>1, FrameNumbers
  <2>3. Continues(h, s.c.conn, s.sq, t.sq)
    BY <2>1, <2>2, ContinuesTrans
  <2> QED
    BY <2>1, <2>3 DEF Extends
<1>3. Writing(s, t)
  <2>1. /\ Writing(s, r) /\ Writing(r, t)
        /\ Len(s.sq) <= Len(r.sq) /\ \A i \in 1..Len(r.sq) : t.sq[i] = r.sq[i]
    BY DEF Carries, Extends, Continues
  <2>2. /\ Len(s.c.send) \in Nat /\ Len(r.c.send) \in Nat /\ Len(t.c.send) \in Nat
        /\ Len(s.sq) \in Nat /\ Len(r.sq) \in Nat /\ Len(t.sq) \in Nat
        /\ s.c.submitted \in Nat /\ r.c.submitted \in Nat /\ t.c.submitted \in Nat
    BY <1>1, FrameNumbers
  <2>3. ASSUME NEW i \in 1..Len(t.sq), i > Len(s.sq), t.sq[i].op = "write"
        PROVE  t.c.wr = "await" /\ Len(t.sq[i].data) = t.c.submitted
    <3>1. CASE i > Len(r.sq)
      BY <2>1, <2>3, <3>1 DEF Writing
    <3>2. CASE i <= Len(r.sq)
      <4>1. i \in 1..Len(r.sq) /\ t.sq[i] = r.sq[i]
        BY <2>1, <2>2, <3>2, SMTT(30)
      <4>2. r.c.wr = "await" /\ Len(r.sq[i].data) = r.c.submitted
        BY <2>1, <2>3, <4>1 DEF Writing
      <4> QED
        BY <2>1, <4>1, <4>2 DEF Writing, Undisturbed
    <3> QED
      BY <2>2, <3>1, <3>2, SMTT(30)
  <2>4. Undisturbed(s, r) /\ Undisturbed(r, t)
    BY <2>1 DEF Writing
  <2>5. Undisturbed(s, t)
    BY <2>2, <2>4, SMTT(30) DEF Undisturbed
  <2>6. t.c.wr = "await" => s.c.wr = "await" \/ t.c.submitted <= Len(t.c.send)
    <3>1. /\ t.c.wr = "await" => r.c.wr = "await" \/ t.c.submitted <= Len(t.c.send)
          /\ r.c.wr = "await" => s.c.wr = "await" \/ r.c.submitted <= Len(r.c.send)
      BY <2>1 DEF Writing
    <3> QED
      BY <2>2, <2>4, <3>1, SMTT(30) DEF Undisturbed
  <2> QED
    BY <2>3, <2>5, <2>6 DEF Writing
<1>4. Ending(s, t)
  <2>1. Ending(s, r) /\ Ending(r, t) /\ (Full(r.sq) => Full(t.sq))
    BY FullStays DEF Carries
  <2> QED
    BY <2>1 DEF Ending
<1> QED
  BY <1>1, <1>3, <1>4 DEF Carries

\* The counts compose.
LEMMA TalliesTrans ==
  ASSUME NEW h, NEW s, NEW r, NEW t, NEW k \in Nat, NEW m \in Nat,
         Tallies(h, k, s, r), Tallies(h, m, r, t)
  PROVE  Tallies(h, k + m, s, t)
<1>1. s \in Frame /\ r \in Frame /\ t \in Frame /\ Carries(h, s, t)
  BY CarriesTrans DEF Tallies, Carries, Extends
<1>2. Counted(h, k + m, s, t)
  <2>1. /\ Held(s.sq, h, "write") \in Nat /\ Held(r.sq, h, "write") \in Nat
        /\ Held(t.sq, h, "write") \in Nat
        /\ s.c.in_flight \in Int /\ r.c.in_flight \in Int /\ t.c.in_flight \in Int
    BY <1>1, FrameNumbers
  <2>2. Waits(s.c.wr) \in Int /\ Waits(r.c.wr) \in Int /\ Waits(t.c.wr) \in Int
    BY SMTT(30) DEF Waits
  <2>3. Counted(h, k, s, r) /\ Counted(h, m, r, t)
    BY DEF Tallies
  <2> DEFINE a == Held(s.sq, h, "write")
             b == Held(r.sq, h, "write")
             c == Held(t.sq, h, "write")
             x == Waits(s.c.wr)
             y == Waits(r.c.wr)
             z == Waits(t.c.wr)
             i == s.c.in_flight
             j == r.c.in_flight
             l == t.c.in_flight
  <2>4. /\ a \in Int /\ b \in Int /\ c \in Int /\ x \in Int /\ y \in Int /\ z \in Int
        /\ i \in Int /\ j \in Int /\ l \in Int
    BY <2>1, <2>2, SMTT(30)
  <2>5. b + x = a + y /\ c + y = b + z /\ j + k + a = i + b /\ l + m + b = j + c
    BY <2>3 DEF Counted
  <2> HIDE DEF a, b, c, i, j, l, x, y, z
  <2>6. c + x = a + z /\ l + (k + m) + a = i + c
    BY <2>4, <2>5, SMTT(30)
  <2> QED
    BY <2>3, <2>6 DEF Counted, a, c, i, l, x, z
<1> QED
  BY <1>1, <1>2 DEF Tallies

\* A part of a handler that prepares nothing, with the writer waiting or not
\* as before.
LEMMA SteadyCarries ==
  ASSUME NEW h, NEW s \in Frame, NEW r \in Frame, Ending(s, r),
         r.sq = s.sq, r.c.conn = s.c.conn, r.c.submitted = s.c.submitted,
         s.c.wr = "await" <=> r.c.wr = "await",
         s.c.wr = "await" => Len(s.c.send) <= Len(r.c.send)
  PROVE  Carries(h, s, r)
<1>1. s.sq \in Seq(Sqe) /\ Len(s.sq) \in Nat
  BY FrameNumbers
<1>2. \A i \in 1..Len(r.sq) : ~(i > Len(s.sq))
  BY <1>1, SMTT(30)
<1>3. Writing(s, r)
  BY <1>2 DEF Writing, Undisturbed
<1>4. Extends(h, s, r)
  BY <1>1, ContinuesSelf DEF Extends
<1> QED
  BY <1>3, <1>4 DEF Carries

\* The same, with the counts.
LEMMA SteadyTallies ==
  ASSUME NEW h, NEW s, NEW r, Steady(s, r), Ending(s, r),
         s.c.wr = "await" <=> r.c.wr = "await",
         s.c.wr = "await" => Len(s.c.send) <= Len(r.c.send)
  PROVE  Tallies(h, 0, s, r)
<1>1. /\ s \in Frame /\ r \in Frame /\ r.sq = s.sq
      /\ r.c.submitted = s.c.submitted /\ r.c.conn = s.c.conn
      /\ s.c.in_flight \in Int /\ r.c.in_flight = s.c.in_flight
  BY FrameNumbers DEF Steady
<1>2. Counted(h, 0, s, r)
  <2>1. r.c.in_flight + 0 = s.c.in_flight /\ Waits(r.c.wr) = Waits(s.c.wr)
    BY <1>1, SMTT(30) DEF Waits
  <2> QED
    BY <1>1, <2>1 DEF Counted, Steady
<1>3. Carries(h, s, r)
  BY <1>1, SteadyCarries
<1> QED
  BY <1>2, <1>3 DEF Tallies

\* A part of a handler that does nothing.
LEMMA TalliesSelf ==
  ASSUME NEW h, NEW s \in Frame
  PROVE  Tallies(h, 0, s, s)
<1>1. Len(s.c.send) \in Nat
  BY FrameNumbers
<1>2. Steady(s, s) /\ Ending(s, s)
  BY DEF Steady, Ending
<1> QED
  BY <1>1, <1>2, SteadyTallies, SMTT(30)

\* One write more in the queue and in in_flight_.
LEMMA ArmsTallies ==
  ASSUME NEW h \in Chan, NEW s, NEW r, WriteArms(h, s, r),
         s.c.wr \in {"notify", "run"}
  PROVE  Tallies(h, 0, s, r)
<1>1. PICK e : Added(h, "write", s, e, r) /\ Len(e.data) = Len(s.c.send)
  BY DEF WriteArms
<1>2. /\ r.c.wr = "await" /\ r.c.rd = s.c.rd /\ r.c.submitted = Len(s.c.send)
  BY DEF WriteArms
<1>3. /\ s \in Frame /\ r \in Frame /\ e \in Sqe /\ e.ch = h /\ e.op = "write"
      /\ e.conn = s.c.conn /\ r.c.conn = s.c.conn
      /\ r.sq = Append(s.sq, e) /\ r.avail = s.avail
      /\ r.c.in_flight = s.c.in_flight + 1 /\ r.c.closed = s.c.closed
      /\ r.c.read_buf = s.c.read_buf /\ r.c.send = s.c.send /\ r.c.draft = s.c.draft
  BY <1>1 DEF Added
<1>4. s.sq \in Seq(Sqe) /\ s.c.in_flight \in Int /\ Held(s.sq, h, "write") \in Nat
      /\ Len(s.c.send) \in Nat /\ Len(s.sq) \in Nat
  BY <1>3, FrameNumbers
<1>5. /\ Held(r.sq, h, "write") = Held(s.sq, h, "write") + 1
      /\ Held(r.sq, h, "recv") = Held(s.sq, h, "recv")
  <2>1. Sqe \in SUBSET Entry
    BY DEF Entry
  <2> QED
    BY <1>3, <1>4, <2>1, HeldAppend, SMTT(30)
<1>6. Counted(h, 0, s, r)
  <2>1. Waits(s.c.wr) = 0 /\ Waits(r.c.wr) = 1
    BY <1>2 DEF Waits
  <2> DEFINE a == Held(s.sq, h, "write")
             n == s.c.in_flight
  <2>2. a + 1 + 0 = a + 1 /\ (n + 1) + 0 + a = n + (a + 1)
    <3>1. a \in Int /\ n \in Int
      BY <1>4, SMTT(30)
    <3> HIDE DEF a, n
    <3> QED
      BY <3>1, SMTT(30)
  <2> QED
    BY <1>2, <1>3, <1>5, <2>1, <2>2 DEF Counted
<1>7. Writing(s, r)
  <2>1. \A i \in 1..Len(r.sq) : i > Len(s.sq) => r.sq[i] = e
    BY <1>3, <1>4, SMTT(30)
  <2> QED
    BY <1>1, <1>2, <1>3, <1>4, <2>1, SMTT(30) DEF Writing, Undisturbed
<1>8. Ending(s, r)
  BY <1>2, <1>3 DEF Ending
<1>9. Extends(h, s, r)
  <2>1. Continues(h, s.c.conn, s.sq, Append(s.sq, e))
    BY <1>3, <1>4, SMTT(30) DEF Continues, Control
  <2> QED
    BY <1>3, <2>1 DEF Extends
<1> QED
  BY <1>6, <1>7, <1>8, <1>9 DEF Tallies, Carries

\* tcp_write_loop, run or woken, to its next suspension.
LEMMA WriterRunTallies ==
  ASSUME NEW h \in Chan, NEW woken \in BOOLEAN, NEW s \in Frame,
         s.c.wr \in {"notify", "run"}, woken \/ Awake(s), NEW r, r = WriterRun(h, woken, s)
  PROVE  Tallies(h, 0, s, r) /\ r.c.wr # "run" /\ Awake(r)
<1>2. \/ WriteParks(woken, s, r) \/ WriteEnds(s, r) \/ WriteFails(s, r)
      \/ WriteArms(h, s, r) /\ (s.c.closed => s.c.in_flight > 0)
  BY WriterRunShape
<1>3. CASE WriteParks(woken, s, r)
  <2>1. Alike(s, r) /\ r.c.wr = "notify"
    BY <1>3 DEF WriteParks
  <2>2. Ending(s, r)
    BY <2>1 DEF Ending, Alike, Steady
  <2>3. Awake(r)
    BY <1>3, <2>1 DEF Awake, Alert, WriteParks, Alike, Steady
  <2> QED
    BY <2>1, <2>2, <2>3, SteadyTallies DEF Alike
<1>4. CASE WriteEnds(s, r)
  <2>1. /\ Alike(s, r) /\ r.c.wr = "done" /\ s.c.closed
        /\ r.c.send = <<>> /\ r.c.draft = <<>>
    BY <1>4 DEF WriteEnds
  <2>2. Ending(s, r) /\ Awake(r)
    BY <2>1 DEF Ending, Alike, Steady, Awake, Alert
  <2> QED
    BY <2>1, <2>2, SteadyTallies DEF Alike
<1>5. CASE WriteFails(s, r)
  <2>1. Alike(s, r) /\ r.c.wr = "done" /\ SqFull(r.sq)
    BY <1>5 DEF WriteFails, Alike, Steady
  <2>2. Ending(s, r) /\ Awake(r)
    BY <2>1 DEF Ending, Full, Alike, Steady, Awake, Alert
  <2> QED
    BY <2>1, <2>2, SteadyTallies DEF Alike
<1>6. CASE WriteArms(h, s, r) /\ (s.c.closed => s.c.in_flight > 0)
  <2>1. r.c.wr = "await" /\ r.c.closed = s.c.closed /\ r.c.in_flight = s.c.in_flight + 1
    BY <1>6 DEF WriteArms, Added
  <2>2. s.c.in_flight \in Int
    BY FrameNumbers
  <2>3. Awake(r)
    BY <1>6, <2>1, <2>2, SMTT(30) DEF Awake, Alert
  <2> QED
    BY <1>6, <2>1, <2>3, ArmsTallies
<1> QED
  BY <1>2, <1>3, <1>4, <1>5, <1>6

\* NotifyToken::notify: afterwards nothing keeps the writer of a closed channel
\* asleep.
LEMMA NotifyTallies ==
  ASSUME NEW h \in Chan, NEW s \in Frame, NEW r, r = Notify(h, s)
  PROVE  /\ Tallies(h, 0, s, r) /\ Awake(r)
         /\ s.c.wr # "notify" => r.c.wr = s.c.wr
<1>1. CASE s.c.wr = "notify"
  <2>1. r = WriterRun(h, TRUE, s)
    BY <1>1 DEF Notify
  <2> QED
    BY <1>1, <2>1, WriterRunTallies
<1>2. CASE s.c.wr # "notify"
  <2> DEFINE x == [s.c EXCEPT !.pending = TRUE]
  <2>1. /\ x \in Channel /\ x.pending = TRUE /\ x.conn = s.c.conn /\ x.rd = s.c.rd
        /\ x.in_flight = s.c.in_flight /\ x.closed = s.c.closed /\ x.wr = s.c.wr
        /\ x.read_buf = s.c.read_buf /\ x.send = s.c.send
        /\ x.draft = s.c.draft /\ x.submitted = s.c.submitted
    BY DEF Frame, Channel
  <2>2. r = [s EXCEPT !.c = x]
    BY <1>2 DEF Notify, Frame
  <2> HIDE DEF x
  <2>3. r \in Frame /\ r.c = x /\ r.sq = s.sq /\ r.avail = s.avail
    BY <2>1, <2>2, ChannelShape, SMTT(30)
  <2>4. Steady(s, r) /\ Ending(s, r) /\ Awake(r)
    BY <2>1, <2>3 DEF Steady, Ending, Awake, Alert
  <2>5. Len(s.c.send) <= Len(r.c.send)
    BY <2>1, <2>3, FrameNumbers, SMTT(30)
  <2> QED
    BY <2>1, <2>3, <2>4, <2>5, SteadyTallies
<1> QED
  BY <1>1, <1>2

\* TcpChannel::close: it notifies the writer with closed_ set.
LEMMA CloseTallies ==
  ASSUME NEW h \in Chan, NEW s \in Frame, NEW r, r = Close(h, s)
  PROVE  /\ Tallies(h, 0, s, r) /\ Awake(r)
         /\ s.c.wr # "notify" => r.c.wr = s.c.wr
<1> DEFINE x == [s.c EXCEPT !.closed = TRUE]
           u == [s EXCEPT !.c = x]
           t == Notify(h, u)
<1>1. /\ x \in Channel /\ x.closed = TRUE /\ x.conn = s.c.conn /\ x.rd = s.c.rd
      /\ x.in_flight = s.c.in_flight /\ x.pending = s.c.pending /\ x.wr = s.c.wr
      /\ x.read_buf = s.c.read_buf /\ x.send = s.c.send
      /\ x.draft = s.c.draft /\ x.submitted = s.c.submitted
  BY DEF Frame, Channel
<1>2. u = [s EXCEPT !.c.closed = TRUE]
  BY DEF Frame
<1>3. r = IF t.c.fd = NoFd THEN t
          ELSE [t EXCEPT !.c.fd = NoFd, !.fdtab[t.c.fd] = NoConn,
                         !.shut = @ \cup ({t.fdtab[t.c.fd]} \ {NoConn})]
  BY <1>2 DEF Close
<1>4. u \in Frame /\ u.c = x /\ u.sq = s.sq /\ u.avail = s.avail
  <2> HIDE DEF x
  <2> QED
    BY <1>1, ChannelShape
<1> HIDE DEF x, u
<1>5. Tallies(h, 0, s, u)
  <2>1. Steady(s, u) /\ Ending(s, u)
    BY <1>1, <1>4 DEF Steady, Ending
  <2>2. Len(s.c.send) <= Len(u.c.send)
    BY <1>1, <1>4, FrameNumbers, SMTT(30)
  <2> QED
    BY <1>1, <1>4, <2>1, <2>2, SteadyTallies
<1>6. Tallies(h, 0, u, t) /\ Awake(t) /\ (s.c.wr # "notify" => t.c.wr = s.c.wr)
  BY <1>1, <1>4, NotifyTallies
<1>7. Tallies(h, 0, s, t) /\ t \in Frame
  <2>1. Tallies(h, 0 + 0, s, t)
    BY <1>5, <1>6, TalliesTrans
  <2> QED
    BY <2>1, SMTT(30) DEF Tallies, Carries, Extends
<1>8. CASE t.c.fd = NoFd
  BY <1>3, <1>6, <1>7, <1>8
<1>9. CASE t.c.fd # NoFd
  <2> DEFINE f == t.c.fd
             z == [t.c EXCEPT !.fd = NoFd]
             g == [t.fdtab EXCEPT ![f] = NoConn]
             d == t.shut \cup ({t.fdtab[f]} \ {NoConn})
  <2> HIDE DEF t
  <2>1. /\ z \in Channel /\ z.closed = t.c.closed /\ z.conn = t.c.conn /\ z.rd = t.c.rd
        /\ z.in_flight = t.c.in_flight /\ z.pending = t.c.pending /\ z.wr = t.c.wr
        /\ z.read_buf = t.c.read_buf /\ z.send = t.c.send
        /\ z.draft = t.c.draft /\ z.submitted = t.c.submitted
    BY <1>7 DEF Frame, Channel
  <2>2. f \in Fd /\ g \in [Fd -> Conn \cup {NoConn}] /\ d \in SUBSET Conn
    BY <1>7, <1>9 DEF Frame, Channel
  <2>3. r = [t EXCEPT !.c = z, !.fdtab = g, !.shut = d]
    BY <1>3, <1>7, <1>9 DEF Frame
  <2> HIDE DEF z, g, d, f
  <2>4. r \in Frame /\ r.c = z /\ r.sq = t.sq /\ r.avail = t.avail
    BY <1>7, <2>1, <2>2, <2>3 DEF Frame
  <2>5. Steady(t, r) /\ Ending(t, r) /\ Awake(r)
    BY <1>6, <1>7, <2>1, <2>4 DEF Steady, Ending, Awake, Alert
  <2>6. Len(t.c.send) <= Len(r.c.send)
    BY <1>7, <2>1, <2>4, FrameNumbers, SMTT(30)
  <2>7. Tallies(h, 0, t, r)
    BY <2>1, <2>4, <2>5, <2>6, SteadyTallies
  <2>8. Tallies(h, 0 + 0, s, r)
    BY <1>7, <2>7, TalliesTrans
  <2> QED
    BY <1>6, <2>1, <2>4, <2>5, <2>8, SMTT(30)
<1> QED
  BY <1>8, <1>9

\* The application's close().
LEMMA AppCloseTallies ==
  ASSUME NEW h \in Chan, NEW close \in BOOLEAN, NEW s \in Frame, NEW r,
         r = AppClose(h, close, s)
  PROVE  /\ Tallies(h, 0, s, r) /\ (Awake(s) => Awake(r))
         /\ s.c.wr # "notify" => r.c.wr = s.c.wr
<1>1. CASE close /\ ~s.c.closed
  <2>1. r = Close(h, s)
    BY <1>1 DEF AppClose
  <2> QED
    BY <2>1, CloseTallies, SMTT(30)
<1>2. CASE ~(close /\ ~s.c.closed)
  <2>1. r = s
    BY <1>2 DEF AppClose
  <2> QED
    BY <2>1, TalliesSelf
<1> QED
  BY <1>1, <1>2

\* TcpChannel::submit, by an application that does not submit while closing.
LEMMA SubmitTallies ==
  ASSUME NEW h \in Chan, NEW units \in Seq(Unit), NEW s \in Frame, Awake(s), NEW r,
         r = Submit(h, units, s), Careless \/ ~s.c.closed
  PROVE  /\ Tallies(h, 0, s, r) /\ Awake(r)
         /\ s.c.wr # "notify" => r.c.wr = s.c.wr
<1> DEFINE d == Appended(units, s.c)
           q == s.c.send \o d
           n == <<>>
           fits == d # <<>> /\ Len(s.c.send) + Len(d) <= WriteCap
           x == IF fits THEN [s.c EXCEPT !.send = q, !.draft = n]
                ELSE [s.c EXCEPT !.draft = d]
           u == [s EXCEPT !.c = x]
<1>1. d \in Seq(Unit) /\ q \in Seq(Unit) /\ n \in Seq(Unit) /\ Len(s.c.send) <= Len(q)
  <2>1. d \in Seq(Unit) /\ s.c.send \in Seq(Unit)
    BY AppendedType DEF Frame, Channel
  <2> HIDE DEF d
  <2> QED
    BY <2>1, SMTT(30)
<1> HIDE DEF d
<1>2. r = IF fits THEN Notify(h, u) ELSE u
  <2> DEFINE v == [s EXCEPT !.c.send = q, !.c.draft = n]
             w == [s EXCEPT !.c.draft = d]
  <2>1. r = IF fits THEN Notify(h, v) ELSE w
    BY DEF Submit, d
  <2> HIDE DEF fits, q, n
  <2>2. fits => u = v
    BY DEF Frame
  <2>3. ~fits => u = w
    BY DEF Frame
  <2> HIDE DEF u, v, w
  <2>4. CASE fits
    BY <2>1, <2>2, <2>4
  <2>5. CASE ~fits
    BY <2>1, <2>3, <2>5
  <2> QED
    BY <2>4, <2>5
<1> HIDE DEF q, n, fits
<1>3. /\ x \in Channel /\ x.closed = s.c.closed /\ x.conn = s.c.conn /\ x.rd = s.c.rd
      /\ x.in_flight = s.c.in_flight /\ x.pending = s.c.pending /\ x.wr = s.c.wr
      /\ x.read_buf = s.c.read_buf /\ x.submitted = s.c.submitted
      /\ x.send = q \/ x.send = s.c.send
  <2>1. CASE fits
    BY <1>1, <2>1 DEF Frame, Channel
  <2>2. CASE ~fits
    BY <1>1, <2>2 DEF Frame, Channel
  <2> QED
    BY <2>1, <2>2
<1> HIDE DEF x
<1>4. u \in Frame /\ u.c = x /\ u.sq = s.sq /\ u.avail = s.avail
  BY <1>3, ChannelShape
<1> HIDE DEF u
<1>5. Len(s.c.send) <= Len(u.c.send)
  BY <1>1, <1>3, <1>4, FrameNumbers, SMTT(30)
<1>6. Tallies(h, 0, s, u) /\ Awake(u)
  <2>1. Steady(s, u) /\ Ending(s, u) /\ Awake(u)
    BY <1>3, <1>4 DEF Steady, Ending, Awake, Alert
  <2> QED
    BY <1>3, <1>4, <1>5, <2>1, SteadyTallies
<1>7. CASE fits
  <2>1. Tallies(h, 0, u, r) /\ Awake(r) /\ (s.c.wr # "notify" => r.c.wr = s.c.wr)
    BY <1>2, <1>3, <1>4, <1>7, NotifyTallies
  <2>2. Tallies(h, 0 + 0, s, r)
    BY <1>6, <2>1, TalliesTrans
  <2> QED
    BY <2>1, <2>2, SMTT(30)
<1>8. CASE ~fits
  BY <1>2, <1>3, <1>4, <1>6, <1>8
<1> QED
  BY <1>7, <1>8

\* ReadBufStream::consume of everything readable.
LEMMA ConsumeAllTallies ==
  ASSUME NEW h \in Chan, NEW s \in Frame, NEW r, r = ConsumeAll(s)
  PROVE  /\ Tallies(h, 0, s, r) /\ (Awake(s) => Awake(r))
         /\ r.c.wr = s.c.wr /\ r.c.read_buf = <<>> /\ r.c.rd = s.c.rd
         /\ r.c.closed = s.c.closed /\ r.c.send = s.c.send
         /\ r.c.draft = s.c.draft /\ r.sq = s.sq /\ r.free = s.free
<1> DEFINE b == <<>>
           x == [s.c EXCEPT !.read_buf = b]
           n == s.avail + Len(s.c.read_buf)
<1>1. n \in Nat /\ b \in Seq(Unit) /\ Len(b) = 0
  BY FrameNumbers, SMTT(30)
<1>2. r = [s EXCEPT !.avail = n, !.c = x]
  BY DEF ConsumeAll, Frame
<1>3. s.avail \in Nat /\ Len(s.c.read_buf) \in Nat
  BY FrameNumbers
<1>4. n + 0 = s.avail + Len(s.c.read_buf)
  BY <1>1, SMTT(30)
<1> HIDE DEF b, n
<1>5. /\ x \in Channel /\ x.closed = s.c.closed /\ x.conn = s.c.conn /\ x.rd = s.c.rd
      /\ x.in_flight = s.c.in_flight /\ x.pending = s.c.pending /\ x.wr = s.c.wr
      /\ x.read_buf = b /\ x.send = s.c.send
      /\ x.draft = s.c.draft /\ x.submitted = s.c.submitted
  BY <1>1 DEF Frame, Channel
<1> HIDE DEF x
<1>6. r \in Frame /\ r.c = x /\ r.sq = s.sq /\ r.avail = n /\ r.free = s.free
  BY <1>1, <1>2, <1>5 DEF Frame
<1>7. Steady(s, r) /\ Ending(s, r) /\ (Awake(s) => Awake(r))
  BY <1>1, <1>4, <1>5, <1>6, SMTT(30) DEF Steady, Ending, Awake, Alert
<1>8. Len(s.c.send) <= Len(r.c.send)
  BY <1>5, <1>6, FrameNumbers, SMTT(30)
<1>9. Tallies(h, 0, s, r)
  BY <1>5, <1>6, <1>7, <1>8, SteadyTallies
<1> QED
  BY <1>5, <1>6, <1>7, <1>9 DEF b

\* WriteBufStream::consume_written, called by the running writer.
LEMMA ConsumeWrittenTallies ==
  ASSUME NEW h \in Chan, NEW n \in Nat, NEW s \in Frame, s.c.wr = "run", NEW r,
         r = ConsumeWritten(n, s)
  PROVE  Tallies(h, 0, s, r) /\ (Awake(s) => Awake(r)) /\ r.c.wr = "run"
<1>1. CASE n > Len(s.c.send)
  <2>1. r = [s EXCEPT !.undefined = TRUE]
    BY <1>1 DEF ConsumeWritten
  <2>2. r \in Frame /\ r.c = s.c /\ r.sq = s.sq /\ r.avail = s.avail
    BY <2>1 DEF Frame
  <2>3. Steady(s, r) /\ Ending(s, r) /\ (Awake(s) => Awake(r))
    BY <2>2 DEF Steady, Ending, Awake, Alert
  <2> QED
    BY <2>2, <2>3, SteadyTallies
<1>2. CASE ~(n > Len(s.c.send))
  <2> DEFINE q == SubSeq(s.c.send, n + 1, Len(s.c.send))
             x == [s.c EXCEPT !.send = q]
  <2>1. q \in Seq(Unit)
    BY FrameNumbers, SMTT(30)
  <2>2. r = [s EXCEPT !.c = x]
    BY <1>2 DEF ConsumeWritten, Frame
  <2> HIDE DEF q
  <2>3. /\ x \in Channel /\ x.closed = s.c.closed /\ x.conn = s.c.conn /\ x.rd = s.c.rd
        /\ x.in_flight = s.c.in_flight /\ x.pending = s.c.pending /\ x.wr = s.c.wr
        /\ x.read_buf = s.c.read_buf /\ x.submitted = s.c.submitted
    BY <2>1 DEF Frame, Channel
  <2> HIDE DEF x
  <2>4. r \in Frame /\ r.c = x /\ r.sq = s.sq /\ r.avail = s.avail
    BY <2>2, <2>3, ChannelShape, SMTT(30)
  <2>5. Steady(s, r) /\ Ending(s, r) /\ (Awake(s) => Awake(r))
    BY <2>3, <2>4 DEF Steady, Ending, Awake, Alert
  <2> QED
    BY <2>3, <2>4, <2>5, SteadyTallies
<1> QED
  BY <1>1, <1>2

\* TcpChannel::in_flight_dec: it gives the channel back exactly when the last
\* operation of a closed channel was counted down, and wakes the writer then.
LEMMA InFlightDecTallies ==
  ASSUME NEW h \in Chan, NEW s \in Frame, NEW r, r = InFlightDec(h, s)
  PROVE  /\ Tallies(h, 1, s, r) /\ (Awake(s) => Awake(r))
         /\ s.c.wr # "notify" => r.c.wr = s.c.wr
         /\ r.free = s.free \/ (s.c.closed /\ s.c.in_flight = 1)
<1> DEFINE n == s.c.in_flight - 1
           x == [s.c EXCEPT !.in_flight = n]
           t == [s EXCEPT !.c = x]
<1>1. n \in Int /\ s.c.in_flight \in Int /\ n + 1 = s.c.in_flight
  BY FrameNumbers, SMTT(30)
<1>2. t = [s EXCEPT !.c.in_flight = s.c.in_flight - 1]
  BY DEF Frame
<1> HIDE DEF n
<1>3. /\ x \in Channel /\ x.closed = s.c.closed /\ x.conn = s.c.conn /\ x.rd = s.c.rd
      /\ x.in_flight = n /\ x.pending = s.c.pending /\ x.wr = s.c.wr
      /\ x.read_buf = s.c.read_buf /\ x.send = s.c.send
      /\ x.draft = s.c.draft /\ x.submitted = s.c.submitted
  BY <1>1 DEF Frame, Channel
<1>4. t \in Frame /\ t.c = x /\ t.sq = s.sq /\ t.avail = s.avail /\ t.free = s.free
  <2> HIDE DEF x
  <2> QED
    BY <1>3, ChannelShape
<1>5. r = IF t.c.in_flight = 0 THEN OnDrained(h, t) ELSE t
  BY <1>2 DEF InFlightDec
<1> HIDE DEF x, t
<1>6. Tallies(h, 1, s, t)
  <2>1. Ending(s, t)
    BY <1>3, <1>4 DEF Ending
  <2>2. Len(s.c.send) <= Len(t.c.send)
    BY <1>3, <1>4, FrameNumbers, SMTT(30)
  <2>3. Carries(h, s, t)
    BY <1>3, <1>4, <2>1, <2>2, SteadyCarries
  <2>4. Counted(h, 1, s, t)
    BY <1>1, <1>3, <1>4 DEF Counted
  <2> QED
    BY <2>3, <2>4 DEF Tallies
<1>7. CASE n = 0 /\ s.c.closed
  <2> DEFINE v == Notify(h, t)
             f == Append(v.free, h)
  <2>1. r = [v EXCEPT !.free = f]
    BY <1>3, <1>4, <1>5, <1>7 DEF OnDrained, Release
  <2>2. Tallies(h, 0, t, v) /\ Awake(v) /\ (s.c.wr # "notify" => v.c.wr = s.c.wr)
    BY <1>3, <1>4, NotifyTallies
  <2> HIDE DEF v
  <2>3. v \in Frame /\ f \in Seq(Chan)
    BY <2>2, SMTT(30) DEF Tallies, Carries, Extends, Frame
  <2> HIDE DEF f
  <2>4. r \in Frame /\ r.c = v.c /\ r.sq = v.sq /\ r.avail = v.avail
    BY <2>1, <2>3 DEF Frame
  <2>5. Tallies(h, 0, v, r) /\ Awake(r)
    <3>1. Steady(v, r) /\ Ending(v, r) /\ Awake(r)
      BY <2>2, <2>3, <2>4 DEF Steady, Ending, Awake, Alert
    <3>2. Len(v.c.send) <= Len(r.c.send)
      BY <2>3, <2>4, FrameNumbers, SMTT(30)
    <3> QED
      BY <2>4, <3>1, <3>2, SteadyTallies
  <2>6. Tallies(h, 1 + 0, s, v)
    BY <1>6, <2>2, TalliesTrans
  <2>7. Tallies(h, 1 + 0, s, r)
    BY <2>5, <2>6, TalliesTrans, SMTT(30)
  <2> QED
    BY <1>1, <1>7, <2>2, <2>4, <2>5, <2>7, SMTT(30)
<1>8. CASE ~(n = 0 /\ s.c.closed)
  <2>1. r = t
    BY <1>3, <1>4, <1>5, <1>8 DEF OnDrained
  <2>2. Awake(s) => Awake(t)
    BY <1>1, <1>3, <1>4, <1>8, SMTT(30) DEF Awake, Alert
  <2> QED
    BY <1>3, <1>4, <1>6, <2>1, <2>2
<1> QED
  BY <1>7, <1>8
-----------------------------------------------------------------------------
(***************************************************************************)
(* What the handlers do to a channel and the queue.                        *)
(***************************************************************************)
\* Of channel h the handler has seen the end of a receives and b writes and
\* counted in_flight_ down by k; each coroutine that now waits has one
\* operation prepared for it.
Outcome(h, a, b, k, s, r) ==
  /\ Held(r.sq, h, "recv") + Waits(s.c.rd) = Held(s.sq, h, "recv") + Waits(r.c.rd) + a
  /\ Held(r.sq, h, "write") + Waits(s.c.wr) = Held(s.sq, h, "write") + Waits(r.c.wr) + b
  /\ r.c.in_flight + k + Held(s.sq, h, "recv") + Held(s.sq, h, "write")
       = s.c.in_flight + Held(r.sq, h, "recv") + Held(r.sq, h, "write")

\* Every buffer the handler was given, n of them in the completion, is in the
\* ring or in the read buffer.
Kept(n, s, r) == r.avail + Len(r.c.read_buf) = s.avail + Len(s.c.read_buf) + n

\* tcp_read_loop appends what was received and marks the channel.
LEMMA TakeData ==
  ASSUME NEW h \in Chan, NEW d \in Seq(Unit), NEW s \in Frame, NEW r,
         r = MarkPendingRead(h, [s EXCEPT !.c.read_buf = @ \o d])
  PROVE  /\ Carries(h, s, r) /\ (Awake(s) => Awake(r)) /\ Kept(Len(d), s, r)
         /\ r.sq = s.sq /\ r.free = s.free /\ r.c.wr = s.c.wr /\ r.c.rd = s.c.rd
         /\ r.c.in_flight = s.c.in_flight
<1> DEFINE q == s.c.read_buf \o d
           x == [s.c EXCEPT !.read_buf = q]
           u == [s EXCEPT !.c = x]
           Same(v) == /\ v.in_flight = s.c.in_flight /\ v.wr = s.c.wr /\ v.rd = s.c.rd
                      /\ v.closed = s.c.closed /\ v.conn = s.c.conn /\ v.send = s.c.send
                      /\ v.draft = s.c.draft
                      /\ v.pending = s.c.pending /\ v.submitted = s.c.submitted
                      /\ v.read_buf = q
<1>1. /\ q \in Seq(Unit) /\ s.c.read_buf \in Seq(Unit)
      /\ Len(q) = Len(s.c.read_buf) + Len(d)
  BY SMTT(30) DEF Frame, Channel
<1>2. u = [s EXCEPT !.c.read_buf = s.c.read_buf \o d]
  BY DEF Frame
<1> HIDE DEF q
<1>3. x \in Channel /\ Same(x)
  BY <1>1 DEF Frame, Channel
<1>4. u \in Frame /\ u.c = x /\ u.sq = s.sq /\ u.avail = s.avail /\ u.free = s.free
  <2> HIDE DEF x
  <2> QED
    BY <1>3, ChannelShape
<1>5. r = MarkPendingRead(h, u)
  BY <1>2
<1> HIDE DEF x, u
<1>6. r \in Frame /\ Same(r.c) /\ r.sq = s.sq /\ r.avail = s.avail /\ r.free = s.free
  <2>1. CASE u.c.marked
    BY <1>3, <1>4, <1>5, <2>1 DEF MarkPendingRead
  <2>2. CASE ~u.c.marked
    <3> DEFINE y == [u.c EXCEPT !.marked = TRUE]
               p == Append(u.reads, h)
    <3>1. r = [u EXCEPT !.c = y, !.reads = p]
      BY <1>4, <1>5, <2>2 DEF MarkPendingRead, Frame
    <3>2. y \in Channel /\ Same(y)
      BY <1>3, <1>4 DEF Channel
    <3>3. p \in Seq(Chan)
      BY <1>4, SMTT(30) DEF Frame
    <3> HIDE DEF y, p
    <3>4. r \in Frame /\ r.c = y /\ r.sq = u.sq /\ r.avail = u.avail /\ r.free = u.free
      BY <1>4, <3>1, <3>2, <3>3 DEF Frame
    <3> QED
      BY <1>4, <3>2, <3>4
  <2> QED
    BY <2>1, <2>2
<1>7. Ending(s, r) /\ (Awake(s) => Awake(r))
  BY <1>6 DEF Ending, Awake, Alert
<1>8. Len(s.c.send) <= Len(r.c.send)
  BY <1>6, FrameNumbers, SMTT(30)
<1>9. Carries(h, s, r)
  BY <1>6, <1>7, <1>8, SteadyCarries
<1>10. Kept(Len(d), s, r)
  <2> DEFINE i == Len(s.c.read_buf)
             j == Len(d)
             a == s.avail
  <2>1. i \in Int /\ j \in Int /\ a \in Int
    BY FrameNumbers, SMTT(30)
  <2>2. r.avail = a /\ Len(r.c.read_buf) = i + j
    BY <1>1, <1>6
  <2> HIDE DEF i, j, a
  <2>3. r.avail + Len(r.c.read_buf) = a + i + j
    BY <2>1, <2>2, SMTT(30)
  <2> QED
    BY <2>3 DEF Kept, i, j, a
<1> QED
  BY <1>6, <1>7, <1>9, <1>10

\* What tcp_read_loop has done when it suspends or ends after completion e.
Received(h, e, s, r) ==
  /\ Carries(h, s, r) /\ (Awake(s) => Awake(r))
  /\ Outcome(h, IF e.more THEN 0 ELSE 1, 0, 1, s, r)
  /\ r.c.rd \in {"await", "done"}
  /\ r.c.rd = "done" => r.c.read_buf = <<>> \/ Full(r.sq)
  /\ Kept(IF e.res > 0 THEN Len(e.data) ELSE 0, s, r) \/ (r.c.rd = "done" /\ Full(r.sq))
  /\ r.free = s.free \/ (s.c.closed /\ s.c.in_flight = 1)

\* From the counts of the parts of the reader's step to its outcome.
LEMMA OutcomeFrom ==
  ASSUME NEW h, NEW s, NEW t, NEW r \in Frame, NEW a \in Nat,
         NEW n \in Int, Tallies(h, 1, s, t), r.c.wr = t.c.wr,
         Held(r.sq, h, "write") = Held(t.sq, h, "write"),
         Held(r.sq, h, "recv") = Held(t.sq, h, "recv") + n,
         r.c.in_flight = t.c.in_flight + n,
         n + Waits(s.c.rd) = Waits(r.c.rd) + a
  PROVE  Outcome(h, a, 0, 1, s, r)
<1>1. s \in Frame /\ t \in Frame /\ Counted(h, 1, s, t)
  BY DEF Tallies, Carries, Extends
<1> DEFINE sr == Held(s.sq, h, "recv")
           sw == Held(s.sq, h, "write")
           tr == Held(t.sq, h, "recv")
           tw == Held(t.sq, h, "write")
           rr == Held(r.sq, h, "recv")
           rw == Held(r.sq, h, "write")
           x == Waits(s.c.wr)
           y == Waits(t.c.wr)
           u == Waits(s.c.rd)
           v == Waits(r.c.rd)
           i == s.c.in_flight
           j == t.c.in_flight
           l == r.c.in_flight
<1>2. /\ sr \in Int /\ sw \in Int /\ tr \in Int /\ tw \in Int /\ rr \in Int /\ rw \in Int
      /\ i \in Int /\ j \in Int /\ l \in Int
  <2>1. \A f \in Frame : \A op : Held(f.sq, h, op) \in Nat /\ f.c.in_flight \in Int
    BY FrameNumbers
  <2>2. sr \in Nat /\ sw \in Nat /\ i \in Int
    BY <1>1, <2>1
  <2>3. tr \in Nat /\ tw \in Nat /\ j \in Int
    BY <1>1, <2>1
  <2>4. rr \in Nat /\ rw \in Nat /\ l \in Int
    BY <2>1
  <2> QED
    BY <2>2, <2>3, <2>4, SMTT(30)
<1>3. x \in Int /\ y \in Int /\ u \in Int /\ v \in Int
  BY SMTT(30) DEF Waits
<1>4. /\ tr = sr /\ tw + x = sw + y /\ j + 1 + sw = i + tw
      /\ rw = tw /\ rr = tr + n /\ l = j + n /\ n + u = v + a
  BY <1>1 DEF Counted
<1>5. Waits(r.c.wr) = y
  OBVIOUS
<1> HIDE DEF sr, sw, tr, tw, rr, rw, x, y, u, v, i, j, l
<1>6. /\ rr + u = sr + v + a /\ rw + x = sw + y + 0
      /\ l + 1 + sr + sw = i + rr + rw
  BY <1>2, <1>3, <1>4, SMTT(30)
<1> QED
  BY <1>5, <1>6 DEF Outcome, sr, sw, rr, rw, x, y, u, v, i, l

\* A receive more in the queue and in in_flight_, or none and the reader ends.
LEMMA ArmRecvCounts ==
  ASSUME NEW h \in Chan, NEW s \in Frame, NEW r, r = ArmRecv(h, s)
  PROVE  /\ Carries(h, s, r) /\ (Awake(s) => Awake(r))
         /\ r.c.rd \in {"await", "done"} /\ (r.c.rd = "done" => Full(r.sq))
         /\ r.c.wr = s.c.wr /\ Held(r.sq, h, "write") = Held(s.sq, h, "write")
         /\ Held(r.sq, h, "recv") = Held(s.sq, h, "recv") + Waits(r.c.rd)
         /\ r.c.in_flight = s.c.in_flight + Waits(r.c.rd)
         /\ r.avail = s.avail /\ r.c.read_buf = s.c.read_buf
         /\ r.c.send = s.c.send /\ r.c.draft = s.c.draft /\ r.c.closed = s.c.closed
<1>1. /\ s.sq \in Seq(Sqe) /\ Len(s.sq) \in Nat /\ s.c.in_flight \in Int
      /\ Held(s.sq, h, "recv") \in Nat /\ Len(s.c.send) \in Nat
  BY FrameNumbers
<1>2. CASE SqFull(s.sq) /\ r.c.rd = "done"
  <2>1. /\ r \in Frame /\ r.sq = s.sq /\ r.avail = s.avail /\ r.c.pending = s.c.pending
        /\ r.c.in_flight = s.c.in_flight /\ r.c.closed = s.c.closed
        /\ r.c.read_buf = s.c.read_buf /\ r.c.send = s.c.send
        /\ r.c.draft = s.c.draft /\ r.c.conn = s.c.conn
        /\ r.c.wr = s.c.wr /\ r.c.submitted = s.c.submitted
    BY <1>2, ArmRecvShape
  <2>2. Ending(s, r) /\ (Awake(s) => Awake(r)) /\ Waits(r.c.rd) = 0
    BY <1>2, <2>1 DEF Ending, Awake, Alert, Waits
  <2>3. Carries(h, s, r)
    BY <1>1, <2>1, <2>2, SteadyCarries, SMTT(30)
  <2>4. /\ Held(s.sq, h, "recv") + 0 = Held(s.sq, h, "recv")
        /\ s.c.in_flight + 0 = s.c.in_flight
    BY <1>1, SMTT(30)
  <2> QED
    BY <1>2, <2>1, <2>2, <2>3, <2>4 DEF Full
<1>3. CASE r.c.rd = "await" /\ \E e : Added(h, "recv", s, e, r)
  <2>1. PICK e : Added(h, "recv", s, e, r)
    BY <1>3
  <2>2. r.c.wr = s.c.wr /\ r.c.submitted = s.c.submitted
    BY ArmRecvShape
  <2>3. /\ r \in Frame /\ e \in Sqe /\ e.ch = h /\ e.op = "recv" /\ e.conn = s.c.conn
        /\ r.sq = Append(s.sq, e) /\ r.c.conn = s.c.conn /\ r.avail = s.avail
        /\ r.c.in_flight = s.c.in_flight + 1 /\ r.c.closed = s.c.closed
        /\ r.c.read_buf = s.c.read_buf /\ r.c.send = s.c.send
        /\ r.c.draft = s.c.draft /\ r.c.pending = s.c.pending
    BY <2>1 DEF Added
  <2>4. Waits(r.c.rd) = 1
    BY <1>3 DEF Waits
  <2>5. /\ Held(r.sq, h, "recv") = Held(s.sq, h, "recv") + 1
        /\ Held(r.sq, h, "write") = Held(s.sq, h, "write")
    <3>1. Sqe \in SUBSET Entry
      BY DEF Entry
    <3> QED
      BY <1>1, <2>3, <3>1, HeldAppend, SMTT(30)
  <2>6. Ending(s, r) /\ (Awake(s) => Awake(r))
    BY <1>1, <2>2, <2>3, SMTT(30) DEF Ending, Awake, Alert
  <2>7. Writing(s, r)
    <3>1. \A i \in 1..Len(r.sq) : i > Len(s.sq) => r.sq[i] = e
      BY <1>1, <2>3, SMTT(30)
    <3> QED
      BY <1>1, <2>2, <2>3, <3>1, SMTT(30) DEF Writing, Undisturbed
  <2>8. Extends(h, s, r)
    <3>1. Continues(h, s.c.conn, s.sq, Append(s.sq, e))
      BY <1>1, <2>3, SMTT(30) DEF Continues, Control
    <3> QED
      BY <2>3, <3>1 DEF Extends
  <2> QED
    BY <1>3, <2>2, <2>3, <2>4, <2>5, <2>6, <2>7, <2>8 DEF Carries
<1> QED
  BY <1>2, <1>3, ArmRecvShape

\* tcp_read_loop from a completion to its next suspension.
LEMMA ReadResumeReceived ==
  ASSUME NEW h \in Chan, NEW e \in Cqe, e.more => e.res > 0, NEW s \in Frame,
         s.c.rd = "await", NEW r, r = ReadResume(h, e, s)
  PROVE  Received(h, e, s, r)
<1> DEFINE s1 == InFlightDec(h, s)
<1>1. /\ Tallies(h, 1, s, s1) /\ (Awake(s) => Awake(s1))
      /\ s1.free = s.free \/ (s.c.closed /\ s.c.in_flight = 1)
  BY InFlightDecTallies
<1>2. /\ s1 \in Frame /\ s1.c.rd = "await" /\ Carries(h, s, s1)
      /\ s1.avail + Len(s1.c.read_buf) = s.avail + Len(s.c.read_buf)
  BY <1>1 DEF Tallies, Carries, Extends, Counted
<1>3. e.res \in Int /\ e.data \in Seq(Unit) /\ e.more \in BOOLEAN
  BY DEF Cqe
<1>4. s.avail + Len(s.c.read_buf) \in Nat
  BY FrameNumbers, SMTT(30)
<1>5. CASE e.res <= 0
  <2> DEFINE s2 == IF s1.c.closed THEN s1 ELSE Close(h, s1)
             x == [s2.c EXCEPT !.rd = "done"]
             s3 == [s2 EXCEPT !.c = x]
  <2>1. r = ConsumeAll([s2 EXCEPT !.c.rd = "done"]) /\ ~e.more
    BY <1>3, <1>5, SMTT(30) DEF ReadResume
  <2>2. Tallies(h, 0, s1, s2) /\ (Awake(s1) => Awake(s2)) /\ s2.free = s1.free
    <3>1. CASE s1.c.closed
      BY <1>2, <3>1, TalliesSelf
    <3>2. CASE ~s1.c.closed
      <4>1. Within(h, s1, Close(h, s1))
        BY <1>2, CloseWithin
      <4>2. Close(h, s1).free = s1.free
        BY <4>1 DEF Within
      <4> QED
        BY <1>2, <3>2, <4>2, CloseTallies
    <3> QED
      BY <3>1, <3>2
  <2> HIDE DEF s1, s2
  <2>3. Tallies(h, 1, s, s2)
    <3>1. Tallies(h, 1 + 0, s, s2)
      BY <1>1, <2>2, TalliesTrans
    <3> QED
      BY <3>1, SMTT(30)
  <2>4. s2 \in Frame /\ Counted(h, 1, s, s2) /\ Carries(h, s, s2)
    BY <2>3 DEF Tallies, Carries, Extends
  <2>5. /\ x \in Channel /\ x.closed = s2.c.closed /\ x.conn = s2.c.conn /\ x.rd = "done"
        /\ x.in_flight = s2.c.in_flight /\ x.pending = s2.c.pending /\ x.wr = s2.c.wr
        /\ x.read_buf = s2.c.read_buf /\ x.send = s2.c.send
        /\ x.draft = s2.c.draft /\ x.submitted = s2.c.submitted
    BY <2>4 DEF Frame, Channel, ReadState
  <2>6. s3 = [s2 EXCEPT !.c.rd = "done"]
    BY <2>4 DEF Frame
  <2> HIDE DEF x
  <2>7. /\ s3 \in Frame /\ s3.c = x /\ s3.sq = s2.sq /\ s3.avail = s2.avail
        /\ s3.free = s2.free
    BY <2>4, <2>5, ChannelShape
  <2> HIDE DEF s3
  <2>8. Carries(h, s2, s3) /\ (Awake(s2) => Awake(s3))
    <3>1. Ending(s2, s3) /\ (Awake(s2) => Awake(s3))
      BY <2>5, <2>7 DEF Ending, Awake, Alert
    <3>2. Len(s2.c.send) <= Len(s3.c.send)
      BY <2>4, <2>5, <2>7, FrameNumbers, SMTT(30)
    <3> QED
      BY <2>4, <2>5, <2>7, <3>1, <3>2, SteadyCarries
  <2>9. r = ConsumeAll(s3)
    BY <2>1, <2>6
  <2>10. /\ Tallies(h, 0, s3, r) /\ (Awake(s3) => Awake(r))
         /\ r.c.read_buf = <<>> /\ r.c.rd = "done" /\ r.c.wr = s3.c.wr
         /\ r.sq = s3.sq /\ r.free = s3.free
    BY <2>5, <2>7, <2>9, ConsumeAllTallies, SMTT(30)
  <2>11. Carries(h, s, r) /\ r \in Frame /\ Counted(h, 0, s3, r)
    <3>1. Carries(h, s, s3) /\ Carries(h, s3, r) /\ Counted(h, 0, s3, r)
      BY <2>4, <2>8, <2>10, CarriesTrans DEF Tallies
    <3> QED
      BY <3>1, CarriesTrans DEF Carries, Extends
  <2>12. r.c.in_flight = s2.c.in_flight
    <3> DEFINE i == r.c.in_flight
               j == s3.c.in_flight
               n == Held(s3.sq, h, "write")
    <3>1. i \in Int /\ j \in Int /\ n \in Int
      BY <2>7, <2>11, FrameNumbers, SMTT(30)
    <3>2. i + 0 + n = j + n
      BY <2>10, <2>11 DEF Counted
    <3> HIDE DEF i, j, n
    <3>3. i = j
      BY <3>1, <3>2, SMTT(30)
    <3> QED
      BY <2>5, <2>7, <3>3 DEF i, j
  <2>13. Outcome(h, 1, 0, 1, s, r)
    <3> DEFINE n == 0
    <3>1. /\ n \in Int /\ n + Waits(s.c.rd) = Waits(r.c.rd) + 1
      BY <2>10, SMTT(30) DEF Waits
    <3>2. /\ Held(r.sq, h, "recv") = Held(s2.sq, h, "recv") + n
          /\ r.c.in_flight = s2.c.in_flight + n
      <4>1. r.sq = s2.sq
        BY <2>7, <2>10
      <4>2. Held(s2.sq, h, "recv") \in Nat /\ s2.c.in_flight \in Int
        BY <2>4, FrameNumbers
      <4> QED
        BY <2>12, <4>1, <4>2, SMTT(30)
    <3> HIDE DEF n
    <3> QED
      BY <2>3, <2>5, <2>7, <2>10, <2>11, <3>1, <3>2, OutcomeFrom
  <2>14. Kept(0, s, r)
    <3>1. r.avail + Len(r.c.read_buf) = s.avail + Len(s.c.read_buf)
      <4>1. s3.avail + Len(s3.c.read_buf) = s.avail + Len(s.c.read_buf)
        BY <2>4, <2>5, <2>7 DEF Counted
      <4>2. r.avail + Len(r.c.read_buf) = s3.avail + Len(s3.c.read_buf)
        BY <2>11 DEF Counted
      <4> QED
        BY <4>1, <4>2
    <3> QED
      BY <1>4, <3>1, SMTT(30) DEF Kept
  <2> QED
    BY <1>1, <1>3, <1>5, <2>1, <2>2, <2>7, <2>8, <2>10, <2>11, <2>13, <2>14, SMTT(30) DEF Received
<1>6. CASE ~(e.res <= 0) /\ e.more
  <2>1. r = MarkPendingRead(h, [s1 EXCEPT !.c.read_buf = @ \o e.data])
    BY <1>2, <1>6 DEF ReadResume
  <2> HIDE DEF s1
  <2>2. /\ Carries(h, s1, r) /\ (Awake(s1) => Awake(r)) /\ Kept(Len(e.data), s1, r)
        /\ r.sq = s1.sq /\ r.free = s1.free /\ r.c.wr = s1.c.wr /\ r.c.rd = s1.c.rd
        /\ r.c.in_flight = s1.c.in_flight
    BY <1>2, <1>3, <2>1, TakeData
  <2>3. Carries(h, s, r) /\ r \in Frame
    BY <1>2, <2>2, CarriesTrans DEF Carries, Extends
  <2>4. Outcome(h, 0, 0, 1, s, r)
    <3> DEFINE n == 0
    <3>1. /\ n \in Int /\ n + Waits(s.c.rd) = Waits(r.c.rd) + 0
      BY <1>2, <2>2, SMTT(30) DEF Waits
    <3>2. /\ Held(r.sq, h, "recv") = Held(s1.sq, h, "recv") + n
          /\ r.c.in_flight = s1.c.in_flight + n
      BY <1>2, <2>2, FrameNumbers, SMTT(30)
    <3> HIDE DEF n
    <3> QED
      BY <1>1, <2>2, <2>3, <3>1, <3>2, OutcomeFrom
  <2>5. Kept(Len(e.data), s, r)
    BY <1>2, <2>2 DEF Kept
  <2> QED
    BY <1>1, <1>2, <1>3, <1>6, <2>2, <2>3, <2>4, <2>5 DEF Received
<1>7. CASE ~(e.res <= 0) /\ ~e.more
  <2> DEFINE s2 == ArmRecv(h, s1)
  <2>1. r = IF s2.c.rd = "done" THEN s2
            ELSE MarkPendingRead(h, [s2 EXCEPT !.c.read_buf = @ \o e.data])
    BY <1>7 DEF ReadResume
  <2>2. Within(h, s1, s2)
    BY <1>2, ArmRecvWithin
  <2>3. /\ Carries(h, s1, s2) /\ (Awake(s1) => Awake(s2))
        /\ s2.c.rd \in {"await", "done"} /\ (s2.c.rd = "done" => Full(s2.sq))
        /\ s2.c.wr = s1.c.wr /\ Held(s2.sq, h, "write") = Held(s1.sq, h, "write")
        /\ Held(s2.sq, h, "recv") = Held(s1.sq, h, "recv") + Waits(s2.c.rd)
        /\ s2.c.in_flight = s1.c.in_flight + Waits(s2.c.rd)
        /\ s2.avail = s1.avail /\ s2.c.read_buf = s1.c.read_buf
    BY <1>2, ArmRecvCounts, SMTT(30)
  <2> HIDE DEF s1, s2
  <2>4. s2 \in Frame /\ s2.free = s1.free
    BY <2>2 DEF Within
  <2>5. /\ Carries(h, s2, r) /\ (Awake(s2) => Awake(r)) /\ r.sq = s2.sq /\ r.free = s2.free
        /\ r.c.wr = s2.c.wr /\ r.c.rd = s2.c.rd /\ r.c.in_flight = s2.c.in_flight
        /\ s2.c.rd = "await" => Kept(Len(e.data), s2, r)
    <3>1. CASE s2.c.rd = "done"
      <4>1. r = s2
        BY <2>1, <3>1
      <4>2. Tallies(h, 0, s2, s2)
        BY <2>4, TalliesSelf
      <4>3. Carries(h, s2, s2)
        BY <4>2 DEF Tallies
      <4> QED
        BY <3>1, <4>1, <4>3
    <3>2. CASE s2.c.rd # "done"
      <4>1. r = MarkPendingRead(h, [s2 EXCEPT !.c.read_buf = @ \o e.data])
        BY <2>1, <3>2
      <4>2. s2 \in Frame /\ e.data \in Seq(Unit)
        BY <1>3, <2>4
      <4>3. /\ Carries(h, s2, r) /\ (Awake(s2) => Awake(r)) /\ Kept(Len(e.data), s2, r)
            /\ r.sq = s2.sq /\ r.free = s2.free /\ r.c.wr = s2.c.wr /\ r.c.rd = s2.c.rd
            /\ r.c.in_flight = s2.c.in_flight
        BY <4>1, <4>2, TakeData
      <4> QED
        BY <4>3
    <3> QED
      BY <3>1, <3>2
  <2>6. Carries(h, s, r) /\ r \in Frame
    <3>1. Carries(h, s, s2)
      BY <1>2, <2>3, CarriesTrans
    <3> QED
      BY <2>5, <3>1, CarriesTrans DEF Carries, Extends
  <2>7. Outcome(h, 1, 0, 1, s, r)
    <3> DEFINE n == Waits(s2.c.rd)
    <3>1. /\ n \in Int /\ n + Waits(s.c.rd) = Waits(r.c.rd) + 1
      BY <2>5, SMTT(30) DEF Waits
    <3>2. /\ Held(r.sq, h, "recv") = Held(s1.sq, h, "recv") + n
          /\ Held(r.sq, h, "write") = Held(s1.sq, h, "write")
          /\ r.c.in_flight = s1.c.in_flight + n /\ r.c.wr = s1.c.wr
      BY <2>3, <2>5
    <3> HIDE DEF n
    <3> QED
      BY <1>1, <2>6, <3>1, <3>2, OutcomeFrom
  <2>8. Kept(Len(e.data), s, r) \/ (r.c.rd = "done" /\ Full(r.sq))
    BY <1>2, <2>3, <2>5 DEF Kept
  <2> QED
    BY <1>1, <1>2, <1>3, <1>7, <2>3, <2>4, <2>5, <2>6, <2>7, <2>8, SMTT(30) DEF Received
<1> QED
  BY <1>5, <1>6, <1>7

\* z is the frame in which a handler that began with s runs its coroutine: the
\* writer may be running, and fd, connection and closed_ may be new.
Starts(s, z) ==
  /\ s \in Frame /\ z \in Frame /\ z.sq = s.sq /\ z.avail = s.avail
  /\ z.c.send = s.c.send /\ z.c.draft = s.c.draft /\ z.c.submitted = s.c.submitted
  /\ z.c.read_buf = s.c.read_buf /\ z.c.rd = s.c.rd /\ z.c.in_flight = s.c.in_flight

\* A handler of channel h, from s by way of z to r.
Serves(h, a, b, k, s, z, r) ==
  /\ Starts(s, z) /\ Carries(h, z, r) /\ Outcome(h, a, b, k, s, r)
  /\ z.c.wr = "run" \/ (z = s /\ b = 0)
  /\ r.c.wr # "run" /\ Awake(r)
  /\ \/ r.c.rd = s.c.rd /\ r.c.read_buf \in {s.c.read_buf, <<>>}
     \/ r.c.rd = "await"
     \/ r.c.rd = "done" /\ (r.c.read_buf = <<>> \/ Full(r.sq))
  /\ r.free = s.free \/ (s.c.closed /\ s.c.in_flight = 1 /\ k = 1)

\* The reader's completion handler.
LEMMA ReadServes ==
  ASSUME NEW h \in Chan, NEW e \in Cqe, e.more => e.res > 0, NEW s \in Frame,
         s.c.rd = "await", s.c.wr # "run", Awake(s), NEW r, r = ReadResume(h, e, s)
  PROVE  /\ Serves(h, IF e.more THEN 0 ELSE 1, 0, 1, s, s, r)
         /\ \/ Kept(IF e.res > 0 THEN Len(e.data) ELSE 0, s, r)
            \/ r.c.rd = "done" /\ Full(r.sq)
<1>1. Received(h, e, s, r)
  BY ReadResumeReceived
<1>2. Ending(s, r)
  BY <1>1 DEF Received, Carries
<1>3. r.c.wr # "run"
  BY <1>2 DEF Ending
<1> QED
  BY <1>1, <1>3 DEF Received, Serves, Starts

\* Counts that leave the reader alone are an outcome.
LEMMA OutcomeOfCounted ==
  ASSUME NEW h, NEW k \in Nat, NEW b \in Nat, NEW s, NEW z, NEW r, Starts(s, z),
         Tallies(h, k, z, r), Waits(s.c.wr) = Waits(z.c.wr) + b
  PROVE  Outcome(h, 0, b, k, s, r)
<1>1. z \in Frame /\ r \in Frame /\ Counted(h, k, z, r)
  BY DEF Tallies, Carries, Extends
<1> DEFINE sr == Held(s.sq, h, "recv")
           sw == Held(s.sq, h, "write")
           rr == Held(r.sq, h, "recv")
           rw == Held(r.sq, h, "write")
           x == Waits(s.c.wr)
           w == Waits(z.c.wr)
           y == Waits(r.c.wr)
           u == Waits(s.c.rd)
           i == s.c.in_flight
           l == r.c.in_flight
<1>2. /\ sr \in Int /\ sw \in Int /\ rr \in Int /\ rw \in Int /\ i \in Int /\ l \in Int
  <2>1. \A f \in Frame : \A op : Held(f.sq, h, op) \in Nat /\ f.c.in_flight \in Int
    BY FrameNumbers
  <2>2. s \in Frame
    BY DEF Starts
  <2>3. sr \in Nat /\ sw \in Nat /\ i \in Int
    BY <2>1, <2>2
  <2>4. rr \in Nat /\ rw \in Nat /\ l \in Int
    BY <1>1, <2>1
  <2> QED
    BY <2>3, <2>4, SMTT(30)
<1>3. x \in Int /\ y \in Int /\ u \in Int /\ w \in Int
  BY SMTT(30) DEF Waits
<1>4. rr = sr /\ rw + w = sw + y /\ l + k + sw = i + rw /\ x = w + b
  BY <1>1 DEF Counted, Starts
<1>5. Waits(r.c.rd) = u
  BY <1>1 DEF Counted, Starts
<1> HIDE DEF sr, sw, rr, rw, x, y, u, w, i, l
<1>6. /\ rr + u = sr + u + 0 /\ rw + x = sw + y + b
      /\ l + k + sr + sw = i + rr + rw
  BY <1>2, <1>3, <1>4, SMTT(30)
<1> QED
  BY <1>5, <1>6 DEF Outcome, sr, sw, rr, rw, x, y, u, i, l

\* The writer's completion handler.
LEMMA WriteServes ==
  ASSUME NEW h \in Chan, NEW e \in Cqe, NEW close \in BOOLEAN, NEW s \in Frame,
         s.c.wr = "await", Awake(s), NEW r, r = WriteResume(h, e, close, s)
  PROVE  \E z : /\ z.c.wr = "run" /\ z.c.closed = s.c.closed
                /\ Serves(h, 0, 1, 1, s, z, r) /\ Kept(0, s, r)
<1> DEFINE x == [s.c EXCEPT !.wr = "run"]
           z == [s EXCEPT !.c = x]
           s1 == InFlightDec(h, z)
<1>1. /\ x \in Channel /\ x.closed = s.c.closed /\ x.conn = s.c.conn /\ x.rd = s.c.rd
      /\ x.in_flight = s.c.in_flight /\ x.pending = s.c.pending /\ x.wr = "run"
      /\ x.read_buf = s.c.read_buf /\ x.send = s.c.send
      /\ x.draft = s.c.draft /\ x.submitted = s.c.submitted
  BY DEF Frame, Channel, WriteState
<1>2. z = [s EXCEPT !.c.wr = "run"]
  BY DEF Frame
<1>3. z \in Frame /\ z.c = x /\ z.sq = s.sq /\ z.avail = s.avail /\ z.free = s.free
  <2> HIDE DEF x
  <2> QED
    BY <1>1, ChannelShape
<1> HIDE DEF x
<1>4. Starts(s, z) /\ Awake(z)
  BY <1>1, <1>3 DEF Starts, Awake, Alert
<1> DEFINE s2 == IF s1.c.closed THEN s1 ELSE Close(h, s1)
           c1 == ConsumeWritten(e.res, s1)
           s3 == AppClose(h, close, c1)
<1>5. r = IF e.res <= 0 THEN [s2 EXCEPT !.c.wr = "done", !.c.send = <<>>, !.c.draft = <<>>]
          ELSE WriterRun(h, FALSE, s3)
  BY <1>2 DEF WriteResume
<1> HIDE DEF z
<1>6. /\ Tallies(h, 1, z, s1) /\ Awake(s1) /\ s1.c.wr = "run"
      /\ s1.free = z.free \/ (z.c.closed /\ z.c.in_flight = 1)
  BY <1>1, <1>3, <1>4, InFlightDecTallies
<1> HIDE DEF s1
<1>7. s1 \in Frame
  BY <1>6 DEF Tallies, Carries, Extends
<1>8. e.res \in Int
  BY DEF Cqe
<1>9. /\ Tallies(h, 0, s1, r) /\ Awake(r) /\ r.c.wr # "run" /\ r.free = s1.free
  <2>1. CASE e.res <= 0
    <3>1. /\ Tallies(h, 0, s1, s2) /\ s2.c.wr = "run" /\ s2.c.closed = TRUE
          /\ s2.free = s1.free
      <4>1. CASE s1.c.closed
        <5>1. s2 = s1 /\ s1.c.closed = TRUE
          BY <1>7, <4>1 DEF Frame, Channel
        <5> QED
          BY <1>6, <1>7, <5>1, TalliesSelf
      <4>2. CASE ~s1.c.closed
        <5>1. s2 = Close(h, s1)
          BY <4>2
        <5>2. Within(h, s1, s2) /\ s2.c.closed = TRUE
          BY <1>7, <5>1, CloseWithin
        <5>3. Tallies(h, 0, s1, s2) /\ s2.c.wr = "run"
          BY <1>6, <1>7, <5>1, CloseTallies
        <5> QED
          BY <5>2, <5>3 DEF Within
      <4> QED
        BY <4>1, <4>2
    <3> DEFINE q == <<>>
               y == [s2.c EXCEPT !.wr = "done", !.send = q, !.draft = q]
    <3> HIDE DEF s2
    <3>2. s2 \in Frame /\ q \in Seq(Unit)
      BY <3>1, SMTT(30) DEF Tallies, Carries, Extends
    <3>3. r = [s2 EXCEPT !.c = y]
      BY <1>5, <2>1, <3>2 DEF Frame
    <3>4. q = <<>>
      OBVIOUS
    <3> HIDE DEF q
    <3>5. /\ y \in Channel /\ y.closed = s2.c.closed /\ y.conn = s2.c.conn
          /\ y.rd = s2.c.rd /\ y.in_flight = s2.c.in_flight /\ y.wr = "done" /\ y.send = q
          /\ y.draft = q /\ y.read_buf = s2.c.read_buf /\ y.submitted = s2.c.submitted
      BY <3>2 DEF Frame, Channel, WriteState
    <3> HIDE DEF y
    <3>6. r \in Frame /\ r.c = y /\ r.sq = s2.sq /\ r.avail = s2.avail /\ r.free = s2.free
      BY <3>2, <3>3, <3>5, ChannelShape, SMTT(30)
    <3>7. Steady(s2, r) /\ Ending(s2, r) /\ Awake(r) /\ r.c.wr = "done"
      BY <3>1, <3>2, <3>4, <3>5, <3>6 DEF Steady, Ending, Awake, Alert
    <3>8. Tallies(h, 0, s2, r)
      BY <3>1, <3>7, SteadyTallies
    <3>9. Tallies(h, 0 + 0, s1, r)
      BY <3>1, <3>8, TalliesTrans
    <3> QED
      BY <3>1, <3>6, <3>7, <3>9, SMTT(30)
  <2>2. CASE ~(e.res <= 0)
    <3>1. Tallies(h, 0, s1, c1) /\ Awake(c1) /\ c1.c.wr = "run" /\ Within(h, s1, c1)
      <4>1. e.res \in Nat
        BY <1>8, <2>2, SMTT(30)
      <4> QED
        BY <1>6, <1>7, <4>1, ConsumeWrittenTallies, ConsumeWrittenWithin
    <3>2. r = WriterRun(h, FALSE, s3)
      BY <1>5, <2>2
    <3> HIDE DEF c1
    <3>3. c1 \in Frame /\ c1.free = s1.free
      BY <3>1 DEF Within
    <3>4. Tallies(h, 0, c1, s3) /\ Awake(s3) /\ s3.c.wr = "run"
      BY <3>1, <3>3, AppCloseTallies
    <3>5. s3.free = c1.free
      <4>1. CASE close /\ ~c1.c.closed
        <5>1. s3 = Close(h, c1)
          BY <4>1 DEF AppClose
        <5>2. Within(h, c1, s3)
          BY <3>3, <5>1, CloseWithin
        <5> QED
          BY <5>2 DEF Within
      <4>2. CASE ~(close /\ ~c1.c.closed)
        BY <4>2 DEF AppClose
      <4> QED
        BY <4>1, <4>2
    <3> HIDE DEF s3
    <3>6. s3 \in Frame
      BY <3>4 DEF Tallies, Carries, Extends
    <3>7. Tallies(h, 0, s3, r) /\ r.c.wr # "run" /\ Awake(r)
      BY <3>2, <3>4, <3>6, WriterRunTallies
    <3>8. r.free = s3.free
      <4>1. Within(h, s3, r)
        BY <3>2, <3>6, WriterRunWithin
      <4> QED
        BY <4>1 DEF Within
    <3>9. Tallies(h, 0 + 0, s1, s3)
      BY <3>1, <3>4, TalliesTrans
    <3>10. Tallies(h, 0 + 0, s1, r)
      BY <3>7, <3>9, TalliesTrans, SMTT(30)
    <3> QED
      BY <3>3, <3>5, <3>7, <3>8, <3>10, SMTT(30)
  <2> QED
    BY <2>1, <2>2
<1>10. Tallies(h, 1, z, r)
  <2>1. Tallies(h, 1 + 0, z, r)
    BY <1>6, <1>9, TalliesTrans
  <2> QED
    BY <2>1, SMTT(30)
<1>11. Outcome(h, 0, 1, 1, s, r)
  <2>1. Waits(s.c.wr) = Waits(z.c.wr) + 1
    BY <1>1, <1>3, SMTT(30) DEF Waits
  <2> QED
    BY <1>4, <1>10, <2>1, OutcomeOfCounted
<1>12. Counted(h, 1, z, r) /\ Carries(h, z, r)
  BY <1>10 DEF Tallies
<1>13. Kept(0, s, r)
  <2>1. r.avail + Len(r.c.read_buf) = s.avail + Len(s.c.read_buf)
    BY <1>4, <1>12 DEF Counted, Starts
  <2>2. s.avail + Len(s.c.read_buf) \in Nat
    BY FrameNumbers, SMTT(30)
  <2> QED
    BY <2>1, <2>2, SMTT(30) DEF Kept
<1>14. r.c.rd = s.c.rd /\ r.c.read_buf \in {s.c.read_buf, <<>>}
  BY <1>4, <1>12 DEF Counted, Starts
<1> QED
  BY <1>1, <1>3, <1>4, <1>6, <1>9, <1>11, <1>12, <1>13, <1>14 DEF Serves

\* The application's on_read.
LEMMA OnReadServes ==
  ASSUME NEW h \in Chan, NEW echo \in BOOLEAN, NEW close \in BOOLEAN, NEW s \in Frame,
         s.c.wr # "run", Awake(s), Shut(s), Parked(s), NEW r, r = OnRead(h, echo, close, s)
  PROVE  Serves(h, 0, 0, 0, s, s, r) /\ Kept(0, s, r)
<1> DEFINE units == s.c.read_buf
           c == ConsumeAll(s)
           answers == echo /\ units # <<>> /\ Answers(s.c)
           t == IF answers THEN Submit(h, units, c) ELSE s
<1>1. r = AppClose(h, close, t)
  BY DEF OnRead
<1>2. Tallies(h, 0, s, t) /\ Awake(t)
  <2>1. Tallies(h, 0, s, c) /\ c.c.closed = s.c.closed /\ Awake(c)
    BY ConsumeAllTallies
  <2>2. units \in Seq(Unit) /\ (answers => Careless \/ ~s.c.closed)
    BY DEF Frame, Channel, Answers
  <2> HIDE DEF units, answers
  <2>3. CASE answers
    <3>1. t = Submit(h, units, c) /\ (Careless \/ ~c.c.closed)
      BY <2>1, <2>2, <2>3
    <3> HIDE DEF c, t
    <3>2. c \in Frame
      BY <2>1 DEF Tallies, Carries, Extends
    <3>3. Tallies(h, 0, c, t) /\ Awake(t)
      BY <2>1, <2>2, <3>1, <3>2, SubmitTallies
    <3>4. Tallies(h, 0 + 0, s, t)
      BY <2>1, <3>3, TalliesTrans
    <3> QED
      BY <3>3, <3>4, SMTT(30)
  <2>4. CASE ~answers
    <3>1. t = s
      BY <2>4
    <3> HIDE DEF t
    <3> QED
      BY <3>1, TalliesSelf
  <2> QED
    BY <2>3, <2>4
<1> HIDE DEF t
<1>3. t \in Frame
  BY <1>2 DEF Tallies, Carries, Extends
<1>4. Tallies(h, 0, t, r) /\ Awake(r)
  BY <1>1, <1>2, <1>3, AppCloseTallies
<1>5. Tallies(h, 0, s, r)
  <2>1. Tallies(h, 0 + 0, s, r)
    BY <1>2, <1>4, TalliesTrans
  <2> QED
    BY <2>1, SMTT(30)
<1>6. Counted(h, 0, s, r) /\ Carries(h, s, r) /\ Starts(s, s)
  BY <1>5 DEF Tallies, Starts
<1>7. Outcome(h, 0, 0, 0, s, r)
  <2>1. Waits(s.c.wr) = Waits(s.c.wr) + 0
    BY SMTT(30) DEF Waits
  <2> QED
    BY <1>5, <1>6, <2>1, OutcomeOfCounted
<1>8. r.c.wr # "run"
  BY <1>6 DEF Carries, Ending
<1>9. Kept(0, s, r)
  <2>1. s.avail + Len(s.c.read_buf) \in Nat
    BY FrameNumbers, SMTT(30)
  <2> QED
    BY <1>6, <2>1, SMTT(30) DEF Kept, Counted
<1>10. r.free = s.free
  <2>1. Within(h, s, r)
    BY OnReadWithin
  <2> QED
    BY <2>1 DEF Within
<1>11. r.c.rd = s.c.rd /\ r.c.read_buf \in {s.c.read_buf, <<>>}
  BY <1>6 DEF Counted
<1> QED
  BY <1>4, <1>6, <1>7, <1>8, <1>9, <1>10, <1>11 DEF Serves

\* TcpChannel::assign: the coroutines start anew.
LEMMA AssignServes ==
  ASSUME NEW h \in Chan, NEW fd \in Fd, NEW conn \in Conn, NEW close \in BOOLEAN,
         NEW s \in Frame, NEW r, r = Assign(h, fd, conn, close, s)
  PROVE  /\ r.c.wr \notin {"run", "none"} /\ Awake(r) /\ r.c.rd \in {"await", "done"}
         /\ s.c.rd # "await" /\ s.c.wr # "await" =>
              \E z : z.c.wr = "run" /\ Serves(h, 0, 0, 0, s, z, r)
                     /\ (Kept(0, s, r) \/ (r.c.rd = "done" /\ Full(r.sq)))
                     /\ (r.c.rd = "done" => Full(r.sq))
<1> DEFINE x == [s.c EXCEPT !.fd = fd, !.conn = conn, !.pending = FALSE,
                            !.closed = FALSE, !.wr = "run"]
           z == [s EXCEPT !.c = x]
           a == ArmRecv(h, z)
           w == WriterRun(h, FALSE, a)
<1>1. /\ x \in Channel /\ x.closed = FALSE /\ x.conn = conn /\ x.rd = s.c.rd
      /\ x.in_flight = s.c.in_flight /\ x.wr = "run"
      /\ x.read_buf = s.c.read_buf /\ x.send = s.c.send
      /\ x.draft = s.c.draft /\ x.submitted = s.c.submitted
  BY DEF Frame, Channel, WriteState
<1>2. z = [s EXCEPT !.c.fd = fd, !.c.conn = conn,
                    !.c.pending = FALSE, !.c.closed = FALSE, !.c.wr = "run"]
  BY DEF Frame
<1>3. z \in Frame /\ z.c = x /\ z.sq = s.sq /\ z.avail = s.avail /\ z.free = s.free
  <2> HIDE DEF x
  <2> QED
    BY <1>1, ChannelShape
<1>4. r = OnAccept(h, close, w)
  BY <1>2 DEF Assign
<1> HIDE DEF x, z
<1>5. Starts(s, z) /\ Awake(z)
  BY <1>1, <1>3 DEF Starts, Awake, Alert
<1>6. /\ Carries(h, z, a) /\ Awake(a)
      /\ a.c.rd \in {"await", "done"} /\ (a.c.rd = "done" => Full(a.sq))
      /\ a.c.wr = "run" /\ Held(a.sq, h, "write") = Held(z.sq, h, "write")
      /\ Held(a.sq, h, "recv") = Held(z.sq, h, "recv") + Waits(a.c.rd)
      /\ a.c.in_flight = z.c.in_flight + Waits(a.c.rd)
      /\ a.avail = z.avail /\ a.c.read_buf = z.c.read_buf /\ a.c.closed = FALSE
  BY <1>1, <1>3, <1>5, ArmRecvCounts, SMTT(30)
<1> HIDE DEF a
<1>7. a \in Frame
  BY <1>6 DEF Carries, Extends
<1>8. Tallies(h, 0, a, w) /\ w.c.wr # "run" /\ Awake(w) /\ w.c.closed = FALSE
  BY <1>6, <1>7, WriterRunTallies, WriterRunWithin
<1> HIDE DEF w
<1>9. w \in Frame
  BY <1>8 DEF Tallies, Carries, Extends
<1>10. Tallies(h, 0, w, r) /\ Awake(r)
  <2> DEFINE d == <<<<w.c.conn, 1>>>>
             g == IF Greets THEN Submit(h, d, w) ELSE w
  <2>1. r = AppClose(h, close, g)
    BY <1>4 DEF OnAccept
  <2>2. Tallies(h, 0, w, g) /\ Awake(g)
    <3>1. CASE Greets
      <4>1. g = Submit(h, d, w)
        BY <3>1
      <4>2. w.c.conn \in Conn
        BY <1>1, <1>3, <1>6, <1>8 DEF Tallies, Carries, Extends
      <4>3. d \in Seq(Unit)
        BY <4>2, SizesAssumption, SMTT(30) DEF Unit
      <4> HIDE DEF d, g
      <4> QED
        BY <1>8, <1>9, <4>1, <4>3, SubmitTallies
    <3>2. CASE ~Greets
      <4>1. g = w
        BY <3>2
      <4> QED
        BY <1>8, <1>9, <4>1, TalliesSelf
    <3> QED
      BY <3>1, <3>2
  <2> HIDE DEF g
  <2>3. g \in Frame
    BY <2>2 DEF Tallies, Carries, Extends
  <2>4. Tallies(h, 0, g, r) /\ Awake(r)
    BY <2>1, <2>2, <2>3, AppCloseTallies
  <2>5. Tallies(h, 0 + 0, w, r)
    BY <2>2, <2>4, TalliesTrans
  <2> QED
    BY <2>4, <2>5, SMTT(30)
<1>11. Tallies(h, 0, a, r)
  <2>1. Tallies(h, 0 + 0, a, r)
    BY <1>8, <1>10, TalliesTrans
  <2> QED
    BY <2>1, SMTT(30)
<1>12. r.c.wr \notin {"run", "none"}
  <2>1. Ending(a, w) /\ Ending(w, r)
    BY <1>8, <1>10 DEF Tallies, Carries
  <2> QED
    BY <1>6, <1>8, <2>1 DEF Ending
<1>13. Carries(h, z, r) /\ Counted(h, 0, a, r) /\ r \in Frame
  <2>1. Carries(h, a, r) /\ Counted(h, 0, a, r)
    BY <1>11 DEF Tallies
  <2> QED
    BY <1>6, <2>1, CarriesTrans DEF Carries, Extends
<1>14. r.c.rd = a.c.rd /\ r.c.read_buf \in {s.c.read_buf, <<>>}
  BY <1>1, <1>3, <1>6, <1>13 DEF Counted
<1>15. r.c.rd = "done" => Full(r.sq)
  <2>1. Extends(h, a, r)
    BY <1>11 DEF Tallies, Carries
  <2> QED
    BY <1>6, <1>14, <2>1, FullStays
<1>16. r.free = s.free
  BY AssignStarts
<1>17. ASSUME s.c.rd # "await", s.c.wr # "await"
       PROVE  Outcome(h, 0, 0, 0, s, r)
  <2> DEFINE sr == Held(s.sq, h, "recv")
             sw == Held(s.sq, h, "write")
             ar == Held(a.sq, h, "recv")
             aw == Held(a.sq, h, "write")
             rr == Held(r.sq, h, "recv")
             rw == Held(r.sq, h, "write")
             y == Waits(r.c.wr)
             u == Waits(r.c.rd)
             i == s.c.in_flight
             j == a.c.in_flight
             l == r.c.in_flight
  <2>1. /\ sr \in Int /\ sw \in Int /\ rr \in Int /\ rw \in Int /\ i \in Int /\ l \in Int
        /\ ar \in Int /\ aw \in Int /\ j \in Int
    <3>1. \A f \in Frame : \A op : Held(f.sq, h, op) \in Nat /\ f.c.in_flight \in Int
      BY FrameNumbers
    <3>2. sr \in Nat /\ sw \in Nat /\ i \in Int
      BY <3>1
    <3>3. ar \in Nat /\ aw \in Nat /\ j \in Int
      BY <1>7, <3>1
    <3>4. rr \in Nat /\ rw \in Nat /\ l \in Int
      BY <1>13, <3>1
    <3> QED
      BY <3>2, <3>3, <3>4, SMTT(30)
  <2>2. y \in Int /\ u \in Int /\ Waits(s.c.wr) = 0 /\ Waits(s.c.rd) = 0
    BY <1>17, SMTT(30) DEF Waits
  <2>3. ar = sr + u /\ aw = sw /\ j = i + u
    BY <1>1, <1>3, <1>6, <1>14
  <2>4. rr = ar /\ rw + 0 = aw + y /\ l + 0 + aw = j + rw
    <3>1. Waits(a.c.wr) = 0
      BY <1>6 DEF Waits
    <3> QED
      BY <1>13, <3>1 DEF Counted
  <2> HIDE DEF sr, sw, ar, aw, rr, rw, y, u, i, j, l
  <2>5. rr + 0 = sr + u + 0 /\ rw + 0 = sw + y + 0 /\ l + 0 + sr + sw = i + rr + rw
    BY <2>1, <2>2, <2>3, <2>4, SMTT(30)
  <2> QED
    BY <2>2, <2>5 DEF Outcome, sr, sw, rr, rw, y, u, i, l
<1>18. Kept(0, s, r)
  <2>1. r.avail + Len(r.c.read_buf) = s.avail + Len(s.c.read_buf)
    BY <1>1, <1>3, <1>6, <1>13 DEF Counted
  <2>2. s.avail + Len(s.c.read_buf) \in Nat
    BY FrameNumbers, SMTT(30)
  <2> QED
    BY <2>1, <2>2, SMTT(30) DEF Kept
<1>19. ASSUME s.c.rd # "await", s.c.wr # "await"
       PROVE  Serves(h, 0, 0, 0, s, z, r)
  BY <1>1, <1>3, <1>5, <1>6, <1>10, <1>12, <1>13, <1>14, <1>15, <1>16, <1>17, <1>19 DEF Serves
<1> QED
  BY <1>1, <1>3, <1>6, <1>10, <1>12, <1>14, <1>15, <1>18, <1>19
==============================================================================
