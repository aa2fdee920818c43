---------------------------- MODULE TcpRingProofs ----------------------------
(***************************************************************************)
(* What a TCP worker has in its ring, counted: one accept, and for every   *)
(* channel the receive its reader and the write its writer wait for.  From *)
(* these counts follow that a channel has one write at a time, that a      *)
(* completed write is within what was submitted and that in_flight_ never  *)
(* exceeds what the ring owes the channel.                                 *)
(***************************************************************************)
EXTENDS TcpRingFrames

USE ZenonT(30)

(***************************************************************************)
(* The invariant of the ring, on top of Inv.                               *)
(***************************************************************************)
\* No handler is under way, the writer of a closed channel has something to
\* wake it, and a channel without coroutines was never assigned.
Standing(c) ==
  /\ c.wr # "run" /\ Alert(c)
  /\ c.wr = "none" => c.rd = "none" /\ ~c.marked

\* IORING_CQE_F_MORE comes with data or a connection.
Flagged(e) == e.more => e.op # "write" /\ e.res > 0

\* The ring holds one operation of each coroutine that waits for one, and
\* in_flight_ is no more than that.
Tally(h) ==
  /\ Unfinished(h, "recv") = Waits(chan[h].rd)
  /\ Unfinished(h, "write") = Waits(chan[h].wr)
  /\ chan[h].in_flight <= Waits(chan[h].rd) + Waits(chan[h].wr)

\* A channel of the pool has nothing in flight and was closed, or never used.
Idle(h) ==
  InPool(h) => chan[h].in_flight = 0 /\ (chan[h].closed \/ chan[h].wr = "none")

\* A write is of submitted_bytes bytes, all of them in the send queue.
Sized ==
  /\ \A x \in Range(sq) \cup Range(ops) :
       x.op = "write" => Len(x.data) = chan[x.ch].submitted
  /\ \A e \in Range(cq) : e.op = "write" => e.res <= chan[e.ch].submitted
  /\ \A h \in Chan : chan[h].wr = "await" => chan[h].submitted <= Len(chan[h].send)

RingInv ==
  /\ \A h \in Chan : Standing(chan[h])
  /\ \A e \in Range(cq) : Flagged(e)
  /\ Unfinished(NoChan, "accept") <= 1
  /\ ~reused => Sized /\ \A h \in Chan : Tally(h) /\ Idle(h)

\* The types that the counts need.
LEMMA RingTypes ==
  ASSUME Inv
  PROVE  /\ sq \in Seq(Sqe) /\ ops \in Seq(Op) /\ cq \in Seq(Cqe)
         /\ \A h, op : /\ Held(sq, h, op) \in Nat /\ Held(ops, h, op) \in Nat
                       /\ Ended(cq, h, op) \in Nat
         /\ \A h \in Chan : /\ chan[h] \in Channel /\ chan[h].in_flight \in Int
                            /\ chan[h].submitted \in Nat /\ Len(chan[h].send) \in Nat
         /\ ~reused => ~NameReuse
<1>1. /\ sq \in Seq(Sqe) /\ ops \in Seq(Op) /\ cq \in Seq(Cqe) /\ chan \in [Chan -> Channel]
      /\ reused \in BOOLEAN
  BY DEF Inv, TypeOK
<1>2. Sqe \in SUBSET Entry /\ Op \in SUBSET Entry
  BY DEF Entry
<1>3. ASSUME NEW h, NEW op
      PROVE  /\ Held(sq, h, op) \in Nat /\ Held(ops, h, op) \in Nat
             /\ Ended(cq, h, op) \in Nat
  BY <1>1, <1>2, HeldOccurs, EndedOccurs
<1>4. \A h \in Chan : /\ chan[h] \in Channel /\ chan[h].in_flight \in Int
                      /\ chan[h].submitted \in Nat /\ Len(chan[h].send) \in Nat
  BY <1>1, SMTT(30) DEF Channel
<1>5. ~reused => ~NameReuse
  BY DEF Inv
<1> QED
  BY <1>1, <1>3, <1>4, <1>5

\* What the ring holds of a channel that is in the pool: nothing.
LEMMA PooledIsFree ==
  ASSUME Inv, ~reused, NEW h \in Chan, InPool(h), NEW op
  PROVE  /\ Held(sq, h, op) = 0 /\ Held(ops, h, op) = 0 /\ Ended(cq, h, op) = 0
         /\ ~Busy(h)
<1>1. ~Busy(h)
  BY RingTypes DEF NameReuse
<1>2. \A x \in Range(sq) \cup Range(ops) \cup Range(cq) : x.ch # h
  BY <1>1 DEF Busy, Ring
<1>3. sq \in Seq(Sqe) /\ ops \in Seq(Op) /\ cq \in Seq(Cqe)
  BY RingTypes
<1>4. Sqe \in SUBSET Entry /\ Op \in SUBSET Entry
  BY DEF Entry
<1>5. Held(sq, h, op) = 0 /\ Held(ops, h, op) = 0
  BY <1>2, <1>3, <1>4, HeldNone
<1>6. Ended(cq, h, op) = 0
  BY <1>2, <1>3, EndedNone
<1> QED
  BY <1>1, <1>5, <1>6

\* A handler of channel h prepares nothing for another channel.
LEMMA ContinuesOthers ==
  ASSUME NEW h, NEW c, NEW q \in Seq(Sqe), NEW r \in Seq(Sqe), Continues(h, c, q, r),
         NEW g, NEW op, g # h \/ op \in Control
  PROVE  Held(r, g, op) = Held(q, g, op)
<1>1. Len(q) \in Nat /\ Len(r) \in Nat /\ DOMAIN q = 1..Len(q) /\ DOMAIN r = 1..Len(r)
  BY SMTT(30)
<1>2. \A i \in 1..Len(r) : r[i].ch = g /\ r[i].op = op => i <= Len(q)
  BY <1>1, SMTT(30) DEF Continues
<1>3. Len(q) <= Len(r) /\ \A i \in 1..Len(q) : r[i] = q[i]
  BY DEF Continues
<1>4. {i \in DOMAIN r : r[i].ch = g /\ r[i].op = op}
        = {i \in DOMAIN q : q[i].ch = g /\ q[i].op = op}
  BY <1>1, <1>2, <1>3, SMTT(30)
<1> QED
  BY <1>4 DEF Held

\* A handler only adds.
LEMMA ContinuesGrows ==
  ASSUME NEW h, NEW c, NEW q \in Seq(Sqe), NEW r \in Seq(Sqe), Continues(h, c, q, r),
         NEW g, NEW op, Held(r, g, op) = 0
  PROVE  Held(q, g, op) = 0
<1>1. Sqe \in SUBSET Entry
  BY DEF Entry
<1>2. \A x \in Range(r) : ~(x.ch = g /\ x.op = op)
  BY <1>1, HeldNone
<1>3. ASSUME NEW x \in Range(q)
      PROVE  x \in Range(r)
  <2>1. PICK i \in 1..Len(q) : x = q[i]
    BY SMTT(30) DEF Range
  <2>2. i \in 1..Len(r) /\ r[i] = x
    BY <2>1, SMTT(30) DEF Continues
  <2> QED
    BY <2>2, SMTT(30) DEF Range
<1> QED
  BY <1>1, <1>2, <1>3, HeldNone
-----------------------------------------------------------------------------
(***************************************************************************)
(* Steps that leave the channels alone.                                    *)
(***************************************************************************)
\* A write in the ring afterwards is one that was in it before, or completed
\* within what it submitted.
SizedAlike ==
  /\ \A x \in Range(sq') \cup Range(ops') : x.op = "write" =>
       \E y \in Range(sq) \cup Range(ops) : y.op = "write" /\ y.ch = x.ch /\ y.data = x.data
  /\ \A e \in Range(cq') : e.op = "write" =>
       \/ e \in Range(cq)
       \/ \E y \in Range(sq) \cup Range(ops) :
            y.op = "write" /\ y.ch = e.ch /\ e.res <= Len(y.data)

\* A step that moves operations through the ring keeps the invariant.
LEMMA RingMoves ==
  ASSUME Inv, RingInv, UNCHANGED <<chan, free_queue>>, KeepReuse,
         \A e \in Range(cq') : Flagged(e), Unfinished(NoChan, "accept")' <= 1,
         SizedAlike, \A h \in Chan, op \in {"recv", "write"} :
                       Unfinished(h, op)' = Unfinished(h, op)
  PROVE  RingInv'
<1>1. ~reused' => ~reused
  BY DEF KeepReuse
<1>2. \A h \in Chan : Standing(chan'[h])
  BY DEF RingInv
<1>3. ASSUME ~reused', NEW h \in Chan
      PROVE  Tally(h)' /\ Idle(h)'
  <2>1. Tally(h) /\ Idle(h)
    BY <1>1, <1>3 DEF RingInv
  <2>2. Tally(h)'
    BY <2>1 DEF Tally
  <2>3. Idle(h)'
    BY <2>1 DEF Idle, InPool
  <2> QED
    BY <2>2, <2>3
<1>4. ASSUME ~reused'
      PROVE  Sized'
  <2>1. Sized
    BY <1>1, <1>4 DEF RingInv
  <2> QED
    BY <2>1, SMTT(30) DEF Sized, SizedAlike
<1> QED
  BY <1>2, <1>3, <1>4 DEF RingInv

\* Steps of the loop between the handlers.
LEMMA LoopRing ==
  ASSUME Inv, RingInv, RingSubmit \/ PeekBatch \/ BatchDone \/ ReadsDone
  PROVE  RingInv'
<1>1. UNCHANGED <<chan, free_queue, sq, cq, ops>> /\ KeepReuse
  BY DEF RingSubmit, PeekBatch, BatchDone, ReadsDone, kernel
<1>2. \A h, op : Unfinished(h, op)' = Unfinished(h, op)
  BY <1>1 DEF Unfinished
<1>3. SizedAlike /\ \A e \in Range(cq') : Flagged(e)
  BY <1>1 DEF SizedAlike, RingInv
<1>4. Unfinished(NoChan, "accept")' <= 1
  BY <1>2 DEF RingInv
<1> QED
  BY <1>1, <1>2, <1>3, <1>4, RingMoves

\* The completion of an accept leaves the completion queue.
LEMMA AcceptTaken ==
  ASSUME Inv, cq # <<>>, NEW e, NextCqe(e), e.op = "accept"
  PROVE  /\ \A h \in Chan : \A op : Ended(cq', h, op) = Ended(cq, h, op)
         /\ Ended(cq, NoChan, "accept")
              = IF e.more THEN Ended(cq', NoChan, "accept")
                          ELSE Ended(cq', NoChan, "accept") + 1
         /\ Range(cq') \subseteq Range(cq) /\ ops' = ops
<1>1. /\ e = Head(cq) /\ cq' = Tail(cq) /\ cq \in Seq(Cqe) /\ ops' = ops
  BY DEF NextCqe, kernel, Inv, TypeOK
<1>2. e.ch = NoChan /\ Range(cq') \subseteq Range(cq)
  BY CqeTaken DEF Formed, Control
<1>3. \A h \in Chan : h # NoChan
  BY SizesAssumption, SMTT(30) DEF Chan, NoChan
<1>4. ASSUME NEW h \in Chan, NEW op
      PROVE  Ended(cq', h, op) = Ended(cq, h, op)
  BY <1>1, <1>2, <1>3, EndedTail
<1>5. Ended(cq, NoChan, "accept")
        = IF e.more THEN Ended(cq', NoChan, "accept") ELSE Ended(cq', NoChan, "accept") + 1
  BY <1>1, <1>2, EndedTail
<1> QED
  BY <1>1, <1>2, <1>4, <1>5

\* accept_loop ends, or terminates the process.
LEMMA AcceptFailedRing ==
  ASSUME Inv, RingInv, AcceptFailed \/ AcceptTerminates, Inv'
  PROVE  RingInv'
<1>1. PICK e : cq # <<>> /\ NextCqe(e) /\ e.op = "accept"
  BY DEF AcceptFailed, AcceptTerminates
<1>2. UNCHANGED <<chan, free_queue, sq>> /\ KeepReuse
  BY DEF AcceptFailed, AcceptTerminates
<1>3. /\ \A h \in Chan : \A op : Ended(cq', h, op) = Ended(cq, h, op)
      /\ Ended(cq, NoChan, "accept")
           = IF e.more THEN Ended(cq', NoChan, "accept")
                       ELSE Ended(cq', NoChan, "accept") + 1
      /\ Range(cq') \subseteq Range(cq) /\ ops' = ops
  BY <1>1, AcceptTaken
<1>4. \A h \in Chan, op \in {"recv", "write"} : Unfinished(h, op)' = Unfinished(h, op)
  BY <1>2, <1>3 DEF Unfinished
<1>5. Unfinished(NoChan, "accept")' <= 1
  <2> DEFINE a == Held(sq, NoChan, "accept")
             b == Held(ops, NoChan, "accept")
             c == Ended(cq, NoChan, "accept")
             d == Ended(cq', NoChan, "accept")
  <2>1. a \in Nat /\ b \in Nat /\ c \in Nat /\ d \in Nat
    <3>1. cq' \in Seq(Cqe)
      BY DEF Inv, TypeOK
    <3> QED
      BY <3>1, RingTypes, EndedOccurs
  <2>2. (c = d \/ c = d + 1) /\ a + b + c <= 1
    BY <1>3 DEF RingInv, Unfinished
  <2>3. Unfinished(NoChan, "accept")' = a + b + d
    BY <1>2, <1>3 DEF Unfinished
  <2> HIDE DEF a, b, c, d
  <2> QED
    BY <2>1, <2>2, <2>3, SMTT(30)
<1>6. SizedAlike /\ \A x \in Range(cq') : Flagged(x)
  BY <1>2, <1>3 DEF SizedAlike, RingInv
<1> QED
  BY <1>2, <1>4, <1>5, <1>6, RingMoves

\* The queue after the acceptor's re-arm holds one accept more, and nothing
\* more of a channel.
LEMMA AcceptSqCounts ==
  ASSUME Inv, NEW e
  PROVE  /\ \A h \in Chan : \A op : Held(AcceptSq(e), h, op) = Held(sq, h, op)
         /\ Held(AcceptSq(e), NoChan, "accept")
              = IF e.more THEN Held(sq, NoChan, "accept") ELSE Held(sq, NoChan, "accept") + 1
         /\ \A x \in Range(AcceptSq(e)) : x \in Range(sq) \/ x.op = "accept"
<1>1. CASE e.more
  BY <1>1 DEF AcceptSq
<1>2. CASE ~e.more
  <2> DEFINE x == AcceptSqe
  <2>1. AcceptSq(e) = Append(sq, x) /\ x.ch = NoChan /\ x.op = "accept"
    BY <1>2 DEF AcceptSq, AcceptSqe
  <2>2. x \in Sqe
    <3>1. <<>> \in Seq(Unit)
      BY SMTT(30)
    <3> QED
      BY <3>1 DEF AcceptSqe, Sqe
  <2> HIDE DEF x
  <2>3. sq \in Seq(Sqe) /\ Sqe \in SUBSET Entry /\ \A h \in Chan : h # NoChan
    BY SizesAssumption, SMTT(30) DEF Inv, TypeOK, Entry, Chan, NoChan
  <2>4. \A h, op : Held(Append(sq, x), h, op)
          = IF x.ch = h /\ x.op = op THEN Held(sq, h, op) + 1 ELSE Held(sq, h, op)
    BY <2>2, <2>3, HeldAppend
  <2>5. Range(Append(sq, x)) = Range(sq) \cup {x}
    BY <2>2, <2>3, AppendSet, SMTT(30)
  <2> QED
    BY <1>2, <2>1, <2>3, <2>4, <2>5
<1> QED
  BY <1>1, <1>2

\* accept_loop with an exhausted pool.
LEMMA AcceptDropRing ==
  ASSUME Inv, RingInv, AcceptDrop, Inv'
  PROVE  RingInv'
<1> DEFINE e == Head(cq)
<1>1. /\ cq # <<>> /\ NextCqe(e) /\ e.op = "accept" /\ sq' = AcceptSq(e)
      /\ KeepReuse /\ UNCHANGED <<chan, free_queue>>
  BY DEF AcceptDrop
<1> HIDE DEF e
<1>3. /\ \A h \in Chan : \A op : Ended(cq', h, op) = Ended(cq, h, op)
      /\ Ended(cq, NoChan, "accept")
           = IF e.more THEN Ended(cq', NoChan, "accept")
                       ELSE Ended(cq', NoChan, "accept") + 1
      /\ Range(cq') \subseteq Range(cq) /\ ops' = ops
  BY <1>1, AcceptTaken
<1>4. /\ \A h \in Chan : \A op : Held(sq', h, op) = Held(sq, h, op)
      /\ Held(sq', NoChan, "accept")
           = IF e.more THEN Held(sq, NoChan, "accept") ELSE Held(sq, NoChan, "accept") + 1
      /\ \A x \in Range(sq') : x \in Range(sq) \/ x.op = "accept"
  BY <1>1, AcceptSqCounts
<1>5. \A h \in Chan, op \in {"recv", "write"} : Unfinished(h, op)' = Unfinished(h, op)
  BY <1>3, <1>4 DEF Unfinished
<1>6. Unfinished(NoChan, "accept")' <= 1
  <2> DEFINE a == Held(sq, NoChan, "accept")
             f == Held(sq', NoChan, "accept")
             b == Held(ops, NoChan, "accept")
             c == Ended(cq, NoChan, "accept")
             d == Ended(cq', NoChan, "accept")
  <2>1. a \in Nat /\ b \in Nat /\ c \in Nat /\ d \in Nat
    <3>1. cq' \in Seq(Cqe)
      BY DEF Inv, TypeOK
    <3> QED
      BY <3>1, RingTypes, EndedOccurs
  <2>2. ((c = d /\ f = a) \/ (c = d + 1 /\ f = a + 1)) /\ a + b + c <= 1
    BY <1>3, <1>4 DEF RingInv, Unfinished
  <2>3. Unfinished(NoChan, "accept")' = f + b + d
    BY <1>3 DEF Unfinished
  <2> HIDE DEF a, b, c, d, f
  <2> QED
    BY <2>1, <2>2, <2>3, SMTT(30)
<1>7. SizedAlike /\ \A x \in Range(cq') : Flagged(x)
  BY <1>3, <1>4 DEF SizedAlike, RingInv
<1> QED
  BY <1>1, <1>5, <1>6, <1>7, RingMoves

\* The kernel takes an SQE.
LEMMA KernelTakeRing ==
  ASSUME Inv, RingInv, KernelTake
  PROVE  RingInv'
<1> DEFINE e == Head(sq)
           file == IF e.fd = NoFd THEN NoConn ELSE fdtab[e.fd]
           o == [op |-> e.op, ch |-> e.ch, conn |-> e.conn, file |-> file, data |-> e.data]
           d == CqeOf(e, -1, FALSE, <<>>)
<1>1. /\ flushed > 0 /\ sq' = Tail(sq) /\ KeepReuse /\ UNCHANGED <<chan, free_queue>>
      /\ \/ e.ch # NoChan /\ cq' = Append(cq, d) /\ ops' = ops
         \/ ops' = Append(ops, o) /\ cq' = cq
  BY DEF KernelTake, user
<1>2. /\ sq \in Seq(Sqe) /\ ops \in Seq(Op) /\ cq \in Seq(Cqe) /\ sq # <<>>
  BY <1>1, SMTT(30) DEF Inv, TypeOK
<1>3. /\ e \in Sqe /\ sq' \in Seq(Sqe) /\ Range(sq) = {e} \cup Range(sq')
  BY <1>1, <1>2, TailSet
<1>4. Sqe \in SUBSET Entry /\ Op \in SUBSET Entry
  BY DEF Entry
<1>5. \A h, op : Held(sq, h, op)
        = IF e.ch = h /\ e.op = op THEN Held(sq', h, op) + 1 ELSE Held(sq', h, op)
  BY <1>1, <1>2, <1>4, HeldTail, SMTT(30)
<1> HIDE DEF e
<1>6. file \in Conn \cup {NoConn}
  BY <1>3 DEF Inv, TypeOK, Sqe
<1> HIDE DEF file
<1>7. o \in Op /\ o.op = e.op /\ o.ch = e.ch /\ o.data = e.data
  BY <1>3, <1>6 DEF Sqe, Op
<1>8. /\ d.op = e.op /\ d.ch = e.ch /\ d.res = -1 /\ d.more = FALSE
      /\ e.ch # NoChan => d \in Cqe
  <2>1. <<>> \in Seq(Unit) /\ -1 \in Int
    BY SMTT(30)
  <2>2. d.op = e.op /\ d.ch = e.ch /\ d.res = -1 /\ d.more = FALSE
    BY DEF CqeOf
  <2>3. e.ch # NoChan => e.op \in {"recv", "write"}
    <3>1. Formed(e)
      BY <1>3 DEF Inv, Ring
    <3> QED
      BY <1>3, <3>1 DEF Formed, Control, Sqe
  <2> QED
    BY <1>3, <2>1, <2>2, <2>3 DEF Sqe, Cqe, CqeOf
<1> HIDE DEF o, d
<1>9. \A h, op : Unfinished(h, op)' = Unfinished(h, op)
  <2> SUFFICES ASSUME NEW h, NEW op PROVE Unfinished(h, op)' = Unfinished(h, op)
    OBVIOUS
  <2> DEFINE a == Held(sq, h, op)
             b == Held(ops, h, op)
             c == Ended(cq, h, op)
             x == Held(sq', h, op)
             y == Held(ops', h, op)
             w == Ended(cq', h, op)
             n == IF e.ch = h /\ e.op = op THEN 1 ELSE 0
  <2>1. a \in Nat /\ b \in Nat /\ c \in Nat /\ x \in Nat /\ n \in Nat
    <3>1. x \in Nat
      BY <1>3, <1>4, HeldOccurs
    <3> QED
      BY <3>1, RingTypes
  <2>2. a = x + n
    BY <1>5, <2>1, SMTT(30)
  <2>3. (y = b + n /\ w = c) \/ (y = b /\ w = c + n)
    <3>1. CASE e.ch # NoChan /\ cq' = Append(cq, d) /\ ops' = ops
      <4>1. w = IF d.ch = h /\ d.op = op /\ ~d.more THEN c + 1 ELSE c
        BY <1>2, <1>8, <3>1, EndedAppend, SMTT(30)
      <4>2. y = b
        BY <3>1
      <4> QED
        BY <1>8, <2>1, <4>1, <4>2, SMTT(30)
    <3>2. CASE ops' = Append(ops, o) /\ cq' = cq
      <4>1. y = IF o.ch = h /\ o.op = op THEN b + 1 ELSE b
        BY <1>2, <1>4, <1>7, <3>2, HeldAppend, SMTT(30)
      <4>2. w = c
        BY <3>2
      <4> QED
        BY <1>7, <2>1, <4>1, <4>2, SMTT(30)
    <3> QED
      BY <1>1, <3>1, <3>2
  <2>4. Unfinished(h, op) = a + b + c /\ Unfinished(h, op)' = x + y + w
    BY DEF Unfinished
  <2> HIDE DEF a, b, c, x, y, w, n
  <2> QED
    BY <2>1, <2>2, <2>3, <2>4, SMTT(30)
<1>10. /\ Range(ops') \subseteq Range(ops) \cup {o}
       /\ Range(cq') \subseteq Range(cq) \cup {d}
  <2>1. CASE e.ch # NoChan /\ cq' = Append(cq, d) /\ ops' = ops
    BY <1>2, <1>8, <2>1, AppendSet
  <2>2. CASE ops' = Append(ops, o) /\ cq' = cq
    BY <1>2, <1>7, <2>2, AppendSet
  <2> QED
    BY <1>1, <2>1, <2>2
<1>11. \A x \in Range(cq') : Flagged(x)
  BY <1>8, <1>10 DEF RingInv, Flagged
<1>12. SizedAlike
  <2>1. e \in Range(sq) /\ e.data \in Seq(Unit)
    BY <1>3 DEF Sqe
  <2>2. d.res <= Len(e.data)
    BY <1>8, <2>1, SMTT(30)
  <2> QED
    BY <1>3, <1>7, <1>8, <1>10, <2>1, <2>2 DEF SizedAlike
<1>13. Unfinished(NoChan, "accept")' <= 1
  BY <1>9 DEF RingInv
<1> QED
  BY <1>1, <1>9, <1>11, <1>12, <1>13, RingMoves

\* A kernel step that posts a completion of operation i.
LEMMA PostRing ==
  ASSUME Inv, RingInv, NEW i \in DOMAIN ops, NEW e \in Cqe, Post(i, e),
         e.op = ops[i].op, e.ch = ops[i].ch, Flagged(e),
         e.op = "write" => e.res <= Len(ops[i].data),
         UNCHANGED <<chan, free_queue, sq>>, KeepReuse
  PROVE  RingInv'
<1> DEFINE r == Cut(ops, i)
<1>1. cq \in Seq(Cqe) /\ ops \in Seq(Op) /\ Op \in SUBSET Entry
  BY DEF Inv, TypeOK, Entry
<1>2. cq' = Append(cq, e) /\ ops' = IF e.more THEN ops ELSE r
  BY DEF Post, Cut
<1>3. Range(cq') = Range(cq) \cup {e} /\ Range(ops') \subseteq Range(ops) /\ r \in Seq(Op)
  <2>1. r \in Seq(Op) /\ Range(r) \subseteq Range(ops)
    BY <1>1, CutSet DEF Cut
  <2>2. Range(cq') = Range(cq) \cup {e}
    BY <1>1, <1>2, AppendSet, SMTT(30)
  <2> HIDE DEF r
  <2>3. ops' = ops \/ ops' = r
    BY <1>2
  <2> QED
    BY <2>1, <2>2, <2>3
<1>4. \A h, op : Held(ops, h, op)
        = IF ops[i].ch = h /\ ops[i].op = op THEN Held(r, h, op) + 1 ELSE Held(r, h, op)
  <2>1. r = Cut(ops, i)
    OBVIOUS
  <2> HIDE DEF r
  <2>2. ASSUME NEW h, NEW op
        PROVE  Held(ops, h, op) = IF ops[i].ch = h /\ ops[i].op = op
                                  THEN Held(r, h, op) + 1 ELSE Held(r, h, op)
    BY <1>1, <2>1, HeldCut, SMTT(30)
  <2> QED
    BY <2>2
<1>5. \A h, op : Ended(cq', h, op)
        = IF e.ch = h /\ e.op = op /\ ~e.more THEN Ended(cq, h, op) + 1 ELSE Ended(cq, h, op)
  BY <1>1, <1>2, EndedAppend
<1> HIDE DEF r
<1>6. \A h, op : Unfinished(h, op)' = Unfinished(h, op)
  <2> SUFFICES ASSUME NEW h, NEW op PROVE Unfinished(h, op)' = Unfinished(h, op)
    OBVIOUS
  <2> DEFINE a == Held(sq, h, op)
             b == Held(ops, h, op)
             c == Ended(cq, h, op)
             x == Held(r, h, op)
             y == Held(ops', h, op)
             w == Ended(cq', h, op)
  <2>1. a \in Nat /\ b \in Nat /\ c \in Nat /\ x \in Nat
    <3>1. x \in Nat
      BY <1>1, <1>3, HeldOccurs
    <3> QED
      BY <3>1, RingTypes
  <2>2. (y = b /\ w = c) \/ (b = y + 1 /\ w = c + 1)
    <3>1. CASE e.more
      BY <1>2, <1>5, <3>1
    <3>2. CASE ~e.more
      BY <1>2, <1>4, <1>5, <3>2
    <3> QED
      BY <3>1, <3>2
  <2>3. Unfinished(h, op) = a + b + c /\ Unfinished(h, op)' = a + y + w
    BY DEF Unfinished
  <2>4. y \in Nat
    BY <1>2, <2>1
  <2> HIDE DEF a, b, c, x, y, w
  <2> QED
    BY <2>1, <2>2, <2>3, <2>4, SMTT(30)
<1>7. \A x \in Range(cq') : Flagged(x)
  BY <1>3 DEF RingInv
<1>8. SizedAlike
  <2>1. ops[i] \in Range(ops)
    BY DEF Range
  <2> QED
    BY <1>3, <2>1 DEF SizedAlike
<1>9. Unfinished(NoChan, "accept")' <= 1
  BY <1>6 DEF RingInv
<1> QED
  BY <1>6, <1>7, <1>8, <1>9, RingMoves

\* A connection arrives.
LEMMA KernelAcceptRing ==
  ASSUME Inv, RingInv, NEW f \in Fd, NEW more \in MoreFlags, KernelAccept(f, more)
  PROVE  RingInv'
<1>1. PICK i \in DOMAIN ops :
        /\ ops[i].op = "accept"
        /\ Post(i, [CqeOf(ops[i], f, more, <<>>) EXCEPT !.conn = nconn + 1])
  BY DEF KernelAccept
<1> DEFINE c == nconn + 1
           d == CqeOf(ops[i], f, more, <<>>)
           e == [d EXCEPT !.conn = c]
<1>2. ops[i] \in Op /\ <<>> \in Seq(Unit) /\ f \in Int /\ f > 0
  BY SMTT(30) DEF Inv, TypeOK, Fd
<1>3. c \in Conn
  BY SizesAssumption, SMTT(30) DEF Inv, TypeOK, KernelAccept, Conn
<1>4. Post(i, e)
  BY <1>1
<1>5. d \in Cqe /\ d.op = ops[i].op /\ d.ch = ops[i].ch /\ d.res = f
  <2>1. more \in BOOLEAN
    BY MoreFlagsType
  <2> QED
    BY <1>1, <1>2, <2>1 DEF Op, Cqe, CqeOf
<1> HIDE DEF c, d
<1>6. e \in Cqe /\ e.op = ops[i].op /\ e.ch = ops[i].ch /\ e.op = "accept" /\ e.res = f
  BY <1>1, <1>3, <1>5 DEF Cqe
<1> HIDE DEF e
<1>7. Flagged(e) /\ (e.op = "write" => e.res <= Len(ops[i].data))
  BY <1>2, <1>6 DEF Flagged
<1>8. UNCHANGED <<chan, free_queue, sq>> /\ KeepReuse
  BY DEF KernelAccept, user
<1> QED
  BY <1>4, <1>6, <1>7, <1>8, PostRing

\* The completions that carry an error or the end of the stream.
LEMMA KernelFailureRing ==
  ASSUME Inv, RingInv, NEW c \in Conn,
         \/ KernelAcceptError \/ KernelRecvEnd(c) \/ KernelRecvNoBufs(c)
         \/ KernelWriteFail(c)
  PROVE  RingInv'
<1>1. PICK i \in DOMAIN ops, n \in {-1, 0} :
        ops[i].op # "wakeup" /\ Post(i, CqeOf(ops[i], n, FALSE, <<>>))
  BY DEF KernelAcceptError, KernelRecvEnd, KernelRecvNoBufs, KernelWriteFail
<1> DEFINE e == CqeOf(ops[i], n, FALSE, <<>>)
<1>2. ops[i] \in Op /\ n \in Int /\ n <= 0 /\ <<>> \in Seq(Unit) /\ FALSE \in BOOLEAN
  BY SMTT(30) DEF Inv, TypeOK
<1>3. /\ e \in Cqe /\ e.op = ops[i].op /\ e.ch = ops[i].ch /\ e.res = n
  BY <1>1, <1>2, CqeOfType
<1>4. Post(i, e)
  BY <1>1
<1>5. ~e.more
  BY DEF CqeOf
<1> HIDE DEF e
<1>6. Flagged(e) /\ e.res <= Len(ops[i].data)
  <2>1. Len(ops[i].data) \in Nat
    BY <1>2, SMTT(30) DEF Op
  <2> QED
    BY <1>2, <1>3, <1>5, <2>1, SMTT(30) DEF Flagged
<1>7. UNCHANGED <<chan, free_queue, sq>> /\ KeepReuse
  BY DEF KernelAcceptError, KernelRecvEnd, KernelRecvNoBufs, KernelWriteFail, user
<1> QED
  BY <1>3, <1>4, <1>6, <1>7, PostRing

\* Data arrives.
LEMMA KernelRecvRing ==
  ASSUME Inv, RingInv, NEW c \in Conn, NEW more \in MoreFlags, KernelRecv(c, more)
  PROVE  RingInv'
<1>1. PICK i \in DOMAIN ops :
        /\ ops[i].op = "recv"
        /\ Post(i, CqeOf(ops[i], 1, more, <<UnitOf(c, recvd[c] + 1)>>))
  BY DEF KernelRecv
<1> DEFINE n == recvd[c] + 1
           data == <<UnitOf(c, n)>>
           e == CqeOf(ops[i], 1, more, data)
<1>2. n \in 1..MaxData
  <2>1. recvd \in [Conn -> 0..MaxData]
    BY DEF Inv, TypeOK
  <2>2. recvd[c] < MaxData
    BY DEF KernelRecv
  <2> QED
    BY <2>1, <2>2, SizesAssumption, SMTT(30)
<1>3. Post(i, e)
  BY <1>1
<1> HIDE DEF n
<1>4. UnitOf(c, n) \in Unit
  BY <1>2, SizesAssumption, SMTT(30) DEF UnitOf, Unit
<1>5. ops[i] \in Op /\ data \in Seq(Unit) /\ 1 \in Int
  BY <1>4, SMTT(30) DEF Inv, TypeOK
<1> HIDE DEF data
<1>6. /\ e \in Cqe /\ e.op = ops[i].op /\ e.ch = ops[i].ch /\ e.res = 1
  <2>1. more \in BOOLEAN
    BY MoreFlagsType
  <2> QED
    BY <1>1, <1>5, <2>1 DEF Op, Cqe, CqeOf
<1> HIDE DEF e
<1>7. Flagged(e) /\ (e.op = "write" => e.res <= Len(ops[i].data))
  BY <1>1, <1>6, SMTT(30) DEF Flagged
<1>8. UNCHANGED <<chan, free_queue, sq>> /\ KeepReuse
  BY DEF KernelRecv, user
<1> QED
  BY <1>3, <1>6, <1>7, <1>8, PostRing

\* A write completes, wholly or in part.
LEMMA KernelWriteRing ==
  ASSUME Inv, RingInv, NEW c \in Conn, NEW n \in 1..WriteCap, KernelWrite(c, n)
  PROVE  RingInv'
<1>1. PICK i \in DOMAIN ops :
        /\ ops[i].op = "write" /\ n <= Len(ops[i].data)
        /\ Post(i, CqeOf(ops[i], n, FALSE, <<>>))
  BY DEF KernelWrite
<1> DEFINE e == CqeOf(ops[i], n, FALSE, <<>>)
<1>2. ops[i] \in Op /\ n \in Int /\ <<>> \in Seq(Unit) /\ FALSE \in BOOLEAN
  BY SizesAssumption, SMTT(30) DEF Inv, TypeOK
<1>3. /\ e \in Cqe /\ e.op = ops[i].op /\ e.ch = ops[i].ch /\ e.res = n
  BY <1>1, <1>2, CqeOfType
<1>4. Post(i, e) /\ ~e.more
  BY <1>1 DEF CqeOf
<1> HIDE DEF e
<1>5. Flagged(e) /\ e.res <= Len(ops[i].data)
  BY <1>1, <1>3, <1>4 DEF Flagged
<1>6. UNCHANGED <<chan, free_queue, sq>> /\ KeepReuse
  BY DEF KernelWrite, user
<1> QED
  BY <1>3, <1>4, <1>5, <1>6, PostRing
-----------------------------------------------------------------------------
(***************************************************************************)
(* Steps that run a handler.                                               *)
(***************************************************************************)
\* A step in which a handler of channel h takes frame s, by way of z, to r.
\* It has taken the last completion of a receives and b writes.
Handling(h, a, b, k, s, z, r) ==
  /\ Serves(h, a, b, k, s, z, r) /\ Commit(h, r) /\ ops' = ops
  /\ a \in {0, 1} /\ b \in {0, 1} /\ k \in {0, 1} /\ a + b <= k
  /\ s.c.rd = chan[h].rd /\ s.c.wr = chan[h].wr /\ s.c.in_flight = chan[h].in_flight
  /\ s.c.closed = chan[h].closed /\ s.c.send = chan[h].send
  /\ s.c.draft = chan[h].draft /\ s.c.submitted = chan[h].submitted
  /\ \A g \in Chan, op \in {"recv", "write"} : Held(s.sq, g, op) = Held(sq, g, op)
  /\ \A x \in Range(s.sq) : x \in Range(sq) \/ x.op = "accept"
  /\ \A g \in Chan : \A op : g # h => Ended(cq', g, op) = Ended(cq, g, op)
  /\ Ended(cq, h, "recv") = Ended(cq', h, "recv") + a
  /\ Ended(cq, h, "write") = Ended(cq', h, "write") + b
  /\ Range(cq') \subseteq Range(cq) /\ Range(s.free) \subseteq Range(free_queue)
  /\ Range(free_queue') \subseteq Range(free_queue) \cup {h}
  /\ z.c.wr = "run" => b = 1 \/ chan[h].wr # "await"
  /\ h \in Range(free_queue') =>
       z.c.closed = s.c.closed /\ (k = 1 => Busy(h)) /\ (k = 0 => z = s)

\* The other channels are left alone.
LEMMA HandlingOthers ==
  ASSUME Inv, NEW h \in Chan, NEW a, NEW b, NEW k, NEW s, NEW z, NEW r,
         Handling(h, a, b, k, s, z, r), NEW g \in Chan, g # h
  PROVE  /\ chan'[g] = chan[g]
         /\ \A op \in {"recv", "write"} : Unfinished(g, op)' = Unfinished(g, op)
<1>1. Commit(h, r) /\ ops' = ops /\ Starts(s, z) /\ Extends(h, z, r)
  BY DEF Handling, Serves, Carries
<1>2. chan'[g] = chan[g] /\ sq' = r.sq
  BY <1>1 DEF Inv, TypeOK, Commit
<1>3. /\ s.sq \in Seq(Sqe) /\ r.sq \in Seq(Sqe)
      /\ Continues(h, z.c.conn, s.sq, r.sq)
  BY <1>1 DEF Starts, Extends, Frame
<1>4. ASSUME NEW op \in {"recv", "write"}
      PROVE  Unfinished(g, op)' = Unfinished(g, op)
  <2>1. Held(r.sq, g, op) = Held(s.sq, g, op)
    BY <1>3, ContinuesOthers, SMTT(30)
  <2>2. Held(s.sq, g, op) = Held(sq, g, op) /\ Ended(cq', g, op) = Ended(cq, g, op)
    BY DEF Handling
  <2> QED
    BY <1>1, <1>2, <2>1, <2>2 DEF Unfinished
<1> QED
  BY <1>2, <1>4

\* The channel's own counts.
LEMMA HandlingTally ==
  ASSUME Inv, RingInv, Inv', ~reused, NEW h \in Chan, NEW a, NEW b, NEW k,
         NEW s, NEW z, NEW r, Handling(h, a, b, k, s, z, r), NEW g \in Chan
  PROVE  Tally(g)'
<1>1. Tally(g)
  BY DEF RingInv
<1>2. CASE g # h
  BY <1>1, <1>2, HandlingOthers DEF Tally
<1>3. CASE g = h
  <2>1. Outcome(h, a, b, k, s, r) /\ sq' = r.sq /\ chan'[h] = r.c /\ ops' = ops
    BY DEF Handling, Serves, Commit, Inv, TypeOK
  <2> DEFINE R0 == Held(sq, h, "recv")
             W0 == Held(sq, h, "write")
             R1 == Held(sq', h, "recv")
             W1 == Held(sq', h, "write")
             ro == Held(ops, h, "recv")
             wo == Held(ops, h, "write")
             rc0 == Ended(cq, h, "recv")
             wc0 == Ended(cq, h, "write")
             rc1 == Ended(cq', h, "recv")
             wc1 == Ended(cq', h, "write")
             rd0 == Waits(chan[h].rd)
             wr0 == Waits(chan[h].wr)
             rd1 == Waits(chan'[h].rd)
             wr1 == Waits(chan'[h].wr)
             f0 == chan[h].in_flight
             f1 == chan'[h].in_flight
  <2>2. /\ R0 \in Nat /\ W0 \in Nat /\ ro \in Nat /\ wo \in Nat /\ rc0 \in Nat /\ wc0 \in Nat
        /\ f0 \in Int
    BY RingTypes
  <2>3. /\ R1 \in Nat /\ W1 \in Nat /\ rc1 \in Nat /\ wc1 \in Nat /\ f1 \in Int
    <3>1. sq' \in Seq(Sqe) /\ cq' \in Seq(Cqe) /\ chan' \in [Chan -> Channel]
      BY DEF Inv, TypeOK
    <3>2. Sqe \in SUBSET Entry
      BY DEF Entry
    <3>3. f1 \in Int
      BY <3>1 DEF Channel
    <3> QED
      BY <3>1, <3>2, <3>3, HeldOccurs, EndedOccurs
  <2>4. rd0 \in Nat /\ wr0 \in Nat /\ rd1 \in Nat /\ wr1 \in Nat
    BY DEF Waits
  <2>5. /\ s.c.rd = chan[h].rd /\ s.c.wr = chan[h].wr /\ s.c.in_flight = f0
        /\ Held(s.sq, h, "recv") = R0 /\ Held(s.sq, h, "write") = W0
        /\ rc0 = rc1 + a /\ wc0 = wc1 + b
        /\ a \in {0, 1} /\ b \in {0, 1} /\ k \in {0, 1} /\ a + b <= k
    BY DEF Handling
  <2>6. /\ R1 + rd0 = R0 + rd1 + a
        /\ W1 + wr0 = W0 + wr1 + b
        /\ f1 + k + R0 + W0 = f0 + R1 + W1
    BY <2>1, <2>5 DEF Outcome
  <2>7. /\ R0 + ro + rc0 = rd0 /\ W0 + wo + wc0 = wr0 /\ f0 <= rd0 + wr0
    BY <1>1, <1>3 DEF Tally, Unfinished
  <2>8. /\ Unfinished(h, "recv")' = R1 + ro + rc1
        /\ Unfinished(h, "write")' = W1 + wo + wc1
    BY <2>1 DEF Unfinished
  <2>9. Tally(h)' <=> /\ Unfinished(h, "recv")' = rd1 /\ Unfinished(h, "write")' = wr1
                      /\ f1 <= rd1 + wr1
    BY DEF Tally
  <2> HIDE DEF R0, W0, R1, W1, ro, wo, rc0, wc0, rc1, wc1, rd0, wr0, rd1, wr1, f0, f1
  <2>10. R1 + ro + rc1 = rd1 /\ W1 + wo + wc1 = wr1
    <3>1. a \in Int /\ b \in Int
      BY <2>5, SMTT(30)
    <3>2. R1 + ro + rc1 = rd1
      BY <2>2, <2>3, <2>4, <2>5, <2>6, <2>7, <3>1, SMTT(30)
    <3>3. W1 + wo + wc1 = wr1
      BY <2>2, <2>3, <2>4, <2>5, <2>6, <2>7, <3>1, SMTT(30)
    <3> QED
      BY <3>2, <3>3
  <2>11. f1 <= rd1 + wr1
    BY <2>2, <2>3, <2>4, <2>5, <2>6, <2>7, SMTT(30)
  <2> QED
    BY <1>3, <2>8, <2>9, <2>10, <2>11
<1> QED
  BY <1>2, <1>3

\* A channel given back to the pool has nothing in flight.
LEMMA HandlingIdle ==
  ASSUME Inv, RingInv, Inv', ~reused, ~reused', NEW h \in Chan, NEW a, NEW b, NEW k,
         NEW s, NEW z, NEW r, Handling(h, a, b, k, s, z, r), NEW g \in Chan
  PROVE  Idle(g)'
<1>1. Idle(g)
  BY DEF RingInv
<1>2. CASE g # h
  <2>1. InPool(g)' => InPool(g)
    BY <1>2 DEF Handling, InPool
  <2> QED
    BY <1>1, <1>2, <2>1, HandlingOthers DEF Idle
<1>3. CASE g = h /\ InPool(h)'
  <2>1. /\ Serves(h, a, b, k, s, z, r) /\ z.c.closed = s.c.closed
        /\ (k = 1 => Busy(h)) /\ (k = 0 => z = s) /\ k \in {0, 1}
        /\ s.c.closed = chan[h].closed /\ s.c.in_flight = chan[h].in_flight
        /\ s.c.wr = chan[h].wr /\ Range(s.free) \subseteq Range(free_queue)
        /\ Held(s.sq, h, "recv") = Held(sq, h, "recv")
        /\ Held(s.sq, h, "write") = Held(sq, h, "write")
    BY <1>3 DEF Handling, InPool
  <2>2. sq' = r.sq /\ chan'[h] = r.c /\ free_queue' = r.free
    BY DEF Handling, Commit, Inv, TypeOK
  <2>3. Ending(z, r) /\ Extends(h, z, r) /\ Starts(s, z) /\ Outcome(h, a, b, k, s, r)
    BY <2>1 DEF Serves, Carries
  <2>4. Held(sq', h, "recv") = 0 /\ Held(sq', h, "write") = 0
    <3>1. ~Busy(h)'
      <4>1. ~NameReuse'
        BY DEF Inv
      <4> QED
        BY <1>3, <4>1 DEF NameReuse
    <3>2. \A x \in Range(sq') : x.ch # h
      BY <3>1 DEF Busy, Ring
    <3>3. sq' \in Seq(Sqe) /\ Sqe \in SUBSET Entry
      BY DEF Inv, TypeOK, Entry
    <3> QED
      BY <3>2, <3>3, HeldNone
  <2>5. Held(sq, h, "recv") = 0 /\ Held(sq, h, "write") = 0
    <3>1. /\ s.sq \in Seq(Sqe) /\ r.sq \in Seq(Sqe)
          /\ Continues(h, z.c.conn, s.sq, r.sq)
      BY <2>3 DEF Starts, Extends, Frame
    <3>2. Held(s.sq, h, "recv") = 0
      BY <2>2, <2>4, <3>1, ContinuesGrows
    <3>3. Held(s.sq, h, "write") = 0
      BY <2>2, <2>4, <3>1, ContinuesGrows
    <3> QED
      BY <2>1, <3>2, <3>3
  <2>6. chan'[h].in_flight + k = chan[h].in_flight
    <3> DEFINE f == chan[h].in_flight
               d == r.c.in_flight
    <3>1. d + k + 0 + 0 = f + 0 + 0
      <4>1. /\ r.c.in_flight + k + Held(s.sq, h, "recv") + Held(s.sq, h, "write")
                = s.c.in_flight + Held(r.sq, h, "recv") + Held(r.sq, h, "write")
        BY <2>3 DEF Outcome
      <4>2. /\ Held(s.sq, h, "recv") = 0 /\ Held(s.sq, h, "write") = 0
            /\ Held(r.sq, h, "recv") = 0 /\ Held(r.sq, h, "write") = 0
        BY <2>1, <2>2, <2>4, <2>5
      <4> QED
        BY <2>1, <4>1, <4>2
    <3>2. d \in Int /\ f \in Int /\ k \in Int
      <4>1. r \in Frame
        BY <2>3 DEF Extends
      <4>2. r.c.in_flight \in Int
        BY <4>1, FrameNumbers
      <4>3. chan[h].in_flight \in Int
        BY RingTypes
      <4> QED
        BY <2>1, <4>2, <4>3, SMTT(30)
    <3> HIDE DEF d, f
    <3>3. d + k = f
      BY <3>1, <3>2, SMTT(30)
    <3> QED
      BY <2>2, <3>3 DEF d, f
  <2>7. chan'[h].in_flight \in Int /\ chan[h].in_flight \in Int
    BY <2>2, <2>3, RingTypes, FrameNumbers DEF Extends
  <2>8. CASE InPool(h)
    <3>1. k = 0 /\ z = s
      BY <2>1, <2>8, PooledIsFree
    <3>2. chan[h].in_flight = 0 /\ (chan[h].closed \/ chan[h].wr = "none")
      BY <1>1, <1>3, <2>8 DEF Idle
    <3>3. chan'[h].in_flight = 0
      BY <2>6, <2>7, <3>1, <3>2, SMTT(30)
    <3>4. chan'[h].closed \/ chan'[h].wr = "none"
      BY <2>1, <2>2, <2>3, <3>1, <3>2 DEF Ending
    <3> QED
      BY <1>3, <3>3, <3>4 DEF Idle
  <2>9. CASE ~InPool(h)
    <3>1. r.free # s.free
      BY <1>3, <2>1, <2>2, <2>9 DEF InPool
    <3>2. s.c.closed /\ s.c.in_flight = 1 /\ k = 1
      BY <2>1, <3>1 DEF Serves
    <3>3. chan'[h].in_flight = 0
      BY <2>1, <2>6, <2>7, <3>2, SMTT(30)
    <3>4. chan'[h].closed
      BY <2>1, <2>2, <2>3, <3>2 DEF Ending
    <3> QED
      BY <1>3, <3>3, <3>4 DEF Idle
  <2> QED
    BY <2>8, <2>9
<1>4. CASE g = h /\ ~InPool(h)'
  BY <1>4 DEF Idle
<1> QED
  BY <1>2, <1>3, <1>4

\* A write of the channel that the ring keeps: the writer waits for it and is
\* not disturbed.
LEMMA HandlingWrite ==
  ASSUME Inv, RingInv, Inv', ~reused, NEW h \in Chan, NEW a, NEW b, NEW k,
         NEW s, NEW z, NEW r, Handling(h, a, b, k, s, z, r),
         NEW x \in Range(sq) \cup Range(ops) \cup Range(cq'), x.op = "write", x.ch = h
  PROVE  /\ chan[h].wr = "await" /\ s.c.wr = "await" /\ z = s
         /\ chan'[h].submitted = chan[h].submitted
<1> DEFINE p == Held(sq, h, "write")
           q == Held(ops, h, "write")
           c == Ended(cq, h, "write")
           d == Ended(cq', h, "write")
           w == Waits(chan[h].wr)
<1>1. p \in Nat /\ q \in Nat /\ c \in Nat /\ d \in Nat /\ w \in {0, 1}
  <2>1. cq' \in Seq(Cqe)
    BY DEF Inv, TypeOK
  <2>2. d \in Nat
    BY <2>1, EndedOccurs
  <2>3. w \in {0, 1}
    BY DEF Waits
  <2> QED
    BY <2>2, <2>3, RingTypes
<1>2. p # 0 \/ q # 0 \/ d # 0
  <2>1. sq \in Seq(Sqe) /\ ops \in Seq(Op) /\ cq' \in Seq(Cqe)
    BY DEF Inv, TypeOK
  <2>2. Sqe \in SUBSET Entry /\ Op \in SUBSET Entry
    BY DEF Entry
  <2>3. CASE x \in Range(sq)
    BY <2>1, <2>2, <2>3, HeldNone
  <2>4. CASE x \in Range(ops)
    BY <2>1, <2>2, <2>4, HeldNone
  <2>5. CASE x \in Range(cq')
    <3>1. ~x.more
      BY <2>5 DEF Handling, RingInv, Flagged
    <3> QED
      BY <2>1, <2>5, <3>1, EndedNone
  <2> QED
    BY <2>3, <2>4, <2>5
<1>3. p + q + c = w /\ c = d + b /\ b \in {0, 1}
  BY DEF RingInv, Tally, Unfinished, Handling
<1>4. w = 1 /\ b = 0
  <2> HIDE DEF p, q, c, d, w
  <2> QED
    BY <1>1, <1>2, <1>3, SMTT(30)
<1>5. chan[h].wr = "await" /\ s.c.wr = "await"
  BY <1>4, SMTT(30) DEF Waits, Handling
<1>6. z = s
  BY <1>4, <1>5, SMTT(30) DEF Handling, Serves
<1>7. Undisturbed(s, r) /\ chan'[h] = r.c /\ s.c.submitted = chan[h].submitted
  BY <1>6 DEF Handling, Serves, Carries, Writing, Commit, Inv, TypeOK
<1> QED
  BY <1>5, <1>6, <1>7 DEF Undisturbed

\* The writes in the ring are of submitted_bytes bytes.
LEMMA HandlingSized ==
  ASSUME Inv, RingInv, Inv', ~reused, NEW h \in Chan, NEW a, NEW b, NEW k,
         NEW s, NEW z, NEW r, Handling(h, a, b, k, s, z, r)
  PROVE  Sized'
<1>1. /\ sq' = r.sq /\ chan'[h] = r.c /\ ops' = ops /\ Starts(s, z) /\ Extends(h, z, r)
      /\ Writing(z, r) /\ Range(cq') \subseteq Range(cq)
  BY DEF Handling, Serves, Carries, Commit, Inv, TypeOK
<1>2. \A g \in Chan : g # h => chan'[g] = chan[g]
  BY HandlingOthers
<1>3. Sized
  BY DEF RingInv
<1>4. \A x \in Range(sq) \cup Range(ops) \cup Range(cq) : x.op = "write" => x.ch \in Chan
  <2>1. SUFFICES ASSUME NEW x \in Range(sq) \cup Range(ops) \cup Range(cq), x.op = "write"
                 PROVE  x.ch \in Chan
    OBVIOUS
  <2>2. Formed(x)
    BY DEF Inv, Ring
  <2>3. x \in Sqe \/ x \in Op \/ x \in Cqe
    BY SMTT(30) DEF Inv, TypeOK, Range
  <2>4. x.ch \in Chan \cup {NoChan}
    BY <2>3 DEF Sqe, Op, Cqe
  <2> QED
    BY <2>1, <2>2, <2>4 DEF Formed, Control
<1>5. ASSUME NEW x \in Range(sq) \cup Range(ops), x.op = "write"
      PROVE  Len(x.data) = chan'[x.ch].submitted
  <2>1. Len(x.data) = chan[x.ch].submitted /\ x.ch \in Chan
    BY <1>3, <1>4, <1>5 DEF Sized
  <2>2. CASE x.ch = h
    BY <1>5, <2>1, <2>2, HandlingWrite
  <2> QED
    BY <1>2, <2>1, <2>2
<1>6. ASSUME NEW x \in Range(sq'), x.op = "write", x \notin Range(sq)
      PROVE  Len(x.data) = chan'[x.ch].submitted
  <2>1. PICK i \in 1..Len(r.sq) : x = r.sq[i]
    BY <1>1, SMTT(30) DEF Range, Inv, TypeOK
  <2>2. i > Len(z.sq)
    <3>1. Continues(h, z.c.conn, z.sq, r.sq) /\ z.sq = s.sq /\ s.sq \in Seq(Sqe)
      BY <1>1 DEF Extends, Starts, Frame
    <3>2. ASSUME ~(i > Len(z.sq)) PROVE FALSE
      <4>1. i \in 1..Len(s.sq) /\ x = s.sq[i] /\ DOMAIN s.sq = 1..Len(s.sq)
        BY <2>1, <3>1, <3>2, SMTT(30) DEF Continues
      <4>2. x \in Range(s.sq)
        BY <4>1 DEF Range
      <4> QED
        BY <1>6, <4>2 DEF Handling
    <3> QED
      BY <3>2
  <2>3. Len(x.data) = r.c.submitted
    BY <1>1, <1>6, <2>1, <2>2 DEF Writing
  <2>4. x.ch = h
    BY <1>1, <2>1, <2>2 DEF Extends, Continues
  <2> QED
    BY <1>1, <2>3, <2>4
<1>7. ASSUME NEW e \in Range(cq'), e.op = "write"
      PROVE  e.res <= chan'[e.ch].submitted
  <2>1. e.res <= chan[e.ch].submitted /\ e.ch \in Chan
    BY <1>1, <1>3, <1>4, <1>7 DEF Sized
  <2>2. CASE e.ch = h
    BY <1>7, <2>1, <2>2, HandlingWrite
  <2> QED
    BY <1>2, <2>1, <2>2
<1>8. ASSUME NEW g \in Chan, chan'[g].wr = "await"
      PROVE  chan'[g].submitted <= Len(chan'[g].send)
  <2>1. CASE g # h
    BY <1>2, <1>3, <1>8, <2>1 DEF Sized
  <2>2. CASE g = h /\ z.c.wr = "await"
    <3>1. z = s /\ s.c.wr = "await" /\ chan[h].wr = "await"
      BY <2>2 DEF Handling, Serves
    <3>2. r.c.submitted = s.c.submitted /\ Len(s.c.send) <= Len(r.c.send)
      BY <1>1, <3>1 DEF Writing, Undisturbed
    <3>3. s.c.submitted <= Len(s.c.send)
      BY <1>3, <3>1 DEF Sized, Handling
    <3>4. s.c.submitted \in Nat /\ Len(s.c.send) \in Nat /\ Len(r.c.send) \in Nat
      <4>1. s \in Frame /\ r \in Frame
        BY <1>1 DEF Starts, Extends
      <4> QED
        BY <4>1, SMTT(30) DEF Frame, Channel
    <3> QED
      BY <1>1, <2>2, <3>2, <3>3, <3>4, SMTT(30)
  <2>3. CASE g = h /\ z.c.wr # "await"
    BY <1>1, <1>8, <2>3 DEF Writing
  <2> QED
    BY <2>1, <2>2, <2>3
<1> QED
  BY <1>1, <1>5, <1>6, <1>7, <1>8 DEF Sized

\* The n buffers of the completion are in the ring or the read buffer
\* afterwards, unless the receive could not be armed again, or there was no
\* reader; the writer of a channel that has none submitted nothing.
Buffered(h, n, s, z, r) ==
  /\ s.avail = avail /\ s.c.read_buf = chan[h].read_buf
  /\ \/ Kept(n, s, r)
     \/ r.c.rd = "done" /\ Full(r.sq)
     \/ n # 0 /\ chan[h].rd # "await"
  /\ chan[h].wr = "none" /\ z.c.wr # "run" => r.c.send = s.c.send /\ r.c.draft = s.c.draft

\* What every step that runs a handler of channel h does.
Handled(h, n, r) ==
  /\ Standing(r.c) /\ Commit(h, r) /\ KeepReuse /\ Range(cq') \subseteq Range(cq)
  /\ Unfinished(NoChan, "accept")' <= 1
  /\ ~reused /\ ~reused' =>
       \E a, b, k, s, z : Handling(h, a, b, k, s, z, r) /\ Buffered(h, n, s, z, r)

\* The buffers in a completion.
Carried(e) == IF e.op = "recv" /\ e.res > 0 THEN Len(e.data) ELSE 0

\* A handler keeps the invariant.
LEMMA HandledRing ==
  ASSUME Inv, RingInv, Inv', NEW h \in Chan, NEW n, NEW r, Handled(h, n, r)
  PROVE  RingInv'
<1>0. Standing(r.c) /\ Commit(h, r) /\ KeepReuse /\ Range(cq') \subseteq Range(cq)
  BY DEF Handled
<1>1. ~reused' => ~reused
  BY <1>0 DEF KeepReuse
<1>2. \A g \in Chan : Standing(chan'[g])
  BY <1>0 DEF RingInv, Commit, Inv, TypeOK
<1>3. \A e \in Range(cq') : Flagged(e)
  BY <1>0 DEF RingInv
<1>4. ASSUME ~reused'
      PROVE  Sized' /\ \A g \in Chan : Tally(g)' /\ Idle(g)'
  <2>1. PICK a, b, k, s, z : Handling(h, a, b, k, s, z, r)
    BY <1>1, <1>4 DEF Handled
  <2>2. Sized'
    BY <1>1, <1>4, <2>1, HandlingSized
  <2>3. ASSUME NEW g \in Chan PROVE Tally(g)'
    BY <1>1, <1>4, <2>1, HandlingTally
  <2>4. ASSUME NEW g \in Chan PROVE Idle(g)'
    BY <1>1, <1>4, <2>1, HandlingIdle
  <2> QED
    BY <2>2, <2>3, <2>4
<1> QED
  BY <1>2, <1>3, <1>4 DEF RingInv, Handled

\* What the completion queue holds once its head is taken.
LEMMA TakenCounts ==
  ASSUME Inv, cq # <<>>, NEW e, NextCqe(e), NEW h, NEW op
  PROVE  /\ Ended(cq, h, op) = IF e.ch = h /\ e.op = op /\ ~e.more
                               THEN Ended(cq', h, op) + 1 ELSE Ended(cq', h, op)
         /\ Ended(cq', h, op) \in Nat
<1>1. e = Head(cq) /\ cq' = Tail(cq) /\ cq \in Seq(Cqe) /\ cq' \in Seq(Cqe)
  BY CqeTaken DEF NextCqe, Inv, TypeOK
<1>2. Ended(cq', h, op) \in Nat
  BY <1>1, EndedOccurs
<1> QED
  BY <1>1, <1>2, EndedTail

\* A handler that does nothing.
LEMMA NothingServes ==
  ASSUME NEW h \in Chan, NEW s \in Frame, s.c.wr # "run", Awake(s)
  PROVE  Serves(h, 0, 0, 0, s, s, s) /\ Kept(0, s, s)
<1>1. Tallies(h, 0, s, s)
  BY TalliesSelf
<1>2. Starts(s, s) /\ Waits(s.c.wr) = Waits(s.c.wr) + 0
  BY SMTT(30) DEF Starts, Waits
<1>3. Outcome(h, 0, 0, 0, s, s)
  BY <1>1, <1>2, OutcomeOfCounted
<1>4. s.avail + Len(s.c.read_buf) \in Nat
  BY FrameNumbers, SMTT(30)
<1> QED
  BY <1>1, <1>2, <1>3, <1>4, SMTT(30) DEF Serves, Tallies, Kept

\* The accepts in the ring, when a handler of a channel runs.
LEMMA AcceptsKept ==
  ASSUME Inv, NEW h \in Chan, NEW c, NEW q \in Seq(Sqe), NEW r \in Seq(Sqe),
         Continues(h, c, q, r), sq' = r, ops' = ops
  PROVE  Unfinished(NoChan, "accept")'
           = Held(q, NoChan, "accept") + Held(ops, NoChan, "accept")
             + Ended(cq', NoChan, "accept")
<1>1. Held(r, NoChan, "accept") = Held(q, NoChan, "accept")
  <2>1. "accept" \in Control
    BY DEF Control
  <2> QED
    BY <2>1, ContinuesOthers, SMTT(30)
<1> QED
  BY <1>1 DEF Unfinished

\* The completion of a receive or a write.
LEMMA CompleteChannelHandled ==
  ASSUME Inv, RingInv, CompleteChannel
  PROVE  \E e, r : /\ cq # <<>> /\ NextCqe(e) /\ e.ch \in Chan /\ ops' = ops
                   /\ Handled(e.ch, Carried(e), r)
<1> DEFINE e == Head(cq)
           h == e.ch
<1>1. /\ cq # <<>> /\ NextCqe(e) /\ e.op # "accept" /\ KeepReuse
  BY DEF CompleteChannel
<1>2. PICK close \in {FALSE, Closes} : Commit(h, Complete(h, e, close, FrameOf(h)))
  BY DEF CompleteChannel
<1> HIDE DEF e
<1>3. /\ e \in Cqe /\ e \in Range(cq) /\ Formed(e) /\ Range(cq') \subseteq Range(cq)
      /\ ops' = ops
  BY <1>1, CqeTaken DEF kernel
<1>4. h \in Chan /\ (e.op = "recv" \/ e.op = "write")
  BY <1>1, <1>3 DEF Formed, Control, Cqe
<1>5. close \in BOOLEAN
  BY ModesAssumption
<1>6. Flagged(e) /\ Standing(chan[h])
  BY <1>3, <1>4 DEF RingInv
<1> DEFINE s == FrameOf(h)
           r == Complete(h, e, close, s)
<1>7. /\ s \in Frame /\ s.c = chan[h] /\ s.sq = sq /\ s.free = free_queue
      /\ Shut(s) /\ Parked(s) /\ s.avail = avail
  BY <1>4, FrameOfType DEF FrameOf
<1>8. Commit(h, r)
  BY <1>2
<1>9. Busy(h)
  BY <1>3 DEF Busy, Ring
<1>10. \A op : Ended(cq, h, op) = IF e.op = op /\ ~e.more
                                  THEN Ended(cq', h, op) + 1 ELSE Ended(cq', h, op)
  BY <1>1, TakenCounts
<1>11. \A g, op : g # h \/ op = "accept" => Ended(cq', g, op) = Ended(cq, g, op)
  <2>1. SUFFICES ASSUME NEW g, NEW op, g # h \/ op = "accept"
                 PROVE  Ended(cq', g, op) = Ended(cq, g, op)
    OBVIOUS
  <2>2. e.ch # g \/ e.op # op
    BY <1>1, <2>1
  <2> QED
    BY <1>1, <2>2, TakenCounts
<1>12. \A op : Ended(cq', h, op) \in Nat
  BY <1>1, TakenCounts
<1>0. h = e.ch
  OBVIOUS
<1> HIDE DEF h, s
<1>13. s.c.wr # "run" /\ Awake(s)
  BY <1>6, <1>7 DEF Standing, Awake
<1>14. Handles(h, s, r)
  BY <1>3, <1>4, <1>5, <1>7, CompleteHandles
<1>15. e.op = "recv" /\ s.c.rd = "await" => r = ReadResume(h, e, s)
  BY DEF Complete
<1>16. e.op = "write" /\ s.c.wr = "await" => r = WriteResume(h, e, close, s)
  BY DEF Complete
<1>17. ~(e.op = "recv" /\ s.c.rd = "await") /\ ~(e.op = "write" /\ s.c.wr = "await") => r = s
  BY DEF Complete
<1> HIDE DEF r
<1>18. /\ Range(s.free) \subseteq Range(free_queue)
       /\ Range(free_queue') \subseteq Range(free_queue) \cup {h}
  <2>1. free_queue' = free_queue \/ free_queue' = Append(free_queue, h)
    BY <1>7, <1>8, <1>14 DEF Handles, Commit
  <2>2. free_queue \in Seq(Chan)
    BY DEF Inv, TypeOK
  <2>3. Range(Append(free_queue, h)) = Range(free_queue) \cup {h}
    BY <1>4, <2>2, AppendSet, SMTT(30)
  <2> QED
    BY <1>7, <2>1, <2>3
<1> DEFINE Rest(a, b) ==
             /\ ops' = ops /\ a \in {0, 1} /\ b \in {0, 1}
             /\ s.c.rd = chan[h].rd /\ s.c.wr = chan[h].wr
             /\ s.c.in_flight = chan[h].in_flight /\ s.c.closed = chan[h].closed
             /\ s.c.send = chan[h].send /\ s.c.draft = chan[h].draft
             /\ s.c.submitted = chan[h].submitted
             /\ \A g \in Chan, op \in {"recv", "write"} : Held(s.sq, g, op) = Held(sq, g, op)
             /\ \A x \in Range(s.sq) : x \in Range(sq) \/ x.op = "accept"
             /\ \A g \in Chan : \A op : g # h => Ended(cq', g, op) = Ended(cq, g, op)
             /\ Ended(cq, h, "recv") = Ended(cq', h, "recv") + a
             /\ Ended(cq, h, "write") = Ended(cq', h, "write") + b
             /\ Range(cq') \subseteq Range(cq) /\ Range(s.free) \subseteq Range(free_queue)
             /\ Range(free_queue') \subseteq Range(free_queue) \cup {h}
<1>19. ASSUME NEW a \in {0, 1}, NEW b \in {0, 1},
              a = 1 <=> e.op = "recv" /\ ~e.more, b = 1 <=> e.op = "write" /\ ~e.more
       PROVE  Rest(a, b)
  <2>1. Ended(cq, h, "recv") = Ended(cq', h, "recv") + a
    <3>1. CASE a = 1
      BY <1>10, <1>19, <3>1
    <3>2. CASE a = 0
      BY <1>10, <1>12, <1>19, <3>2, SMTT(30)
    <3> QED
      BY <3>1, <3>2
  <2>2. Ended(cq, h, "write") = Ended(cq', h, "write") + b
    <3>1. CASE b = 1
      BY <1>10, <1>19, <3>1
    <3>2. CASE b = 0
      BY <1>10, <1>12, <1>19, <3>2, SMTT(30)
    <3> QED
      BY <3>1, <3>2
  <2> QED
    BY <1>3, <1>7, <1>11, <1>18, <2>1, <2>2
<1> DEFINE n == Carried(e)
           Done == /\ Standing(r.c)
                   /\ ~reused => \E a, b, k, z : /\ Handling(h, a, b, k, s, z, r)
                                               /\ Buffered(h, n, s, z, r)
<1>20. ASSUME e.op = "recv" /\ s.c.rd = "await"
       PROVE  Done
  <2> DEFINE a == IF e.more THEN 0 ELSE 1
  <2>1. /\ Serves(h, a, 0, 1, s, s, r)
        /\ \/ Kept(IF e.res > 0 THEN Len(e.data) ELSE 0, s, r)
           \/ r.c.rd = "done" /\ Full(r.sq)
    BY <1>3, <1>4, <1>6, <1>7, <1>13, <1>15, <1>20, ReadServes DEF Flagged
  <2>2. a \in {0, 1} /\ (a = 1 <=> e.op = "recv" /\ ~e.more) /\ a + 0 <= 1
    BY <1>20, SMTT(30)
  <2> HIDE DEF a
  <2>3. Rest(a, 0)
    BY <1>19, <1>20, <2>2, SMTT(30)
  <2>4. Handling(h, a, 0, 1, s, s, r)
    BY <1>8, <1>9, <1>13, <2>1, <2>2, <2>3 DEF Handling
  <2>5. Standing(r.c)
    <3>1. r.c.wr # "run" /\ Alert(r.c) /\ Ending(s, r)
      BY <2>1 DEF Serves, Awake, Carries
    <3>2. s.c.wr # "none"
      BY <1>6, <1>7, <1>20 DEF Standing
    <3> QED
      BY <3>1, <3>2 DEF Standing, Ending
  <2>6. Buffered(h, n, s, s, r)
    <3>1. n = IF e.res > 0 THEN Len(e.data) ELSE 0
      BY <1>20 DEF Carried
    <3>2. chan[h].wr # "none"
      BY <1>6, <1>7, <1>20 DEF Standing
    <3> HIDE DEF n
    <3> QED
      BY <1>7, <2>1, <3>1, <3>2 DEF Buffered
  <2> QED
    BY <2>4, <2>5, <2>6
<1>21. ASSUME e.op = "write" /\ s.c.wr = "await"
       PROVE  Done
  <2>1. PICK z : /\ z.c.wr = "run" /\ z.c.closed = s.c.closed
                 /\ Serves(h, 0, 1, 1, s, z, r) /\ Kept(0, s, r)
    BY <1>3, <1>4, <1>5, <1>7, <1>13, <1>16, <1>21, WriteServes
  <2>2. Rest(0, 1)
    BY <1>6, <1>19, <1>21, SMTT(30) DEF Flagged
  <2>3. Handling(h, 0, 1, 1, s, z, r)
    BY <1>8, <1>9, <2>1, <2>2, SMTT(30) DEF Handling
  <2>4. Standing(r.c)
    <3>1. r.c.wr # "run" /\ Alert(r.c) /\ Ending(z, r)
      BY <2>1 DEF Serves, Awake, Carries
    <3> QED
      BY <2>1, <3>1 DEF Standing, Ending
  <2>5. Buffered(h, n, s, z, r)
    <3>1. n = 0
      BY <1>21 DEF Carried
    <3> HIDE DEF n
    <3> QED
      BY <1>7, <2>1, <3>1 DEF Buffered
  <2> QED
    BY <2>3, <2>4, <2>5
<1>22. ASSUME ~(e.op = "recv" /\ s.c.rd = "await"), ~(e.op = "write" /\ s.c.wr = "await")
       PROVE  Done
  <2>1. r = s /\ Standing(r.c)
    BY <1>6, <1>7, <1>17, <1>22
  <2>2. ASSUME ~reused
        PROVE  e.op = "recv" /\ e.more
    <3> DEFINE p == Held(sq, h, e.op)
               q == Held(ops, h, e.op)
               c == Ended(cq, h, e.op)
               d == Ended(cq', h, e.op)
    <3>1. p \in Nat /\ q \in Nat /\ c \in Nat /\ d \in Nat
      BY <1>12, RingTypes
    <3>2. p + q + c = 0
      <4>1. /\ Unfinished(h, "recv") = Waits(chan[h].rd)
            /\ Unfinished(h, "write") = Waits(chan[h].wr)
        BY <1>4, <2>2 DEF RingInv, Tally
      <4>2. CASE e.op = "recv"
        BY <1>7, <1>22, <4>1, <4>2 DEF Waits, Unfinished
      <4>3. CASE e.op = "write"
        BY <1>7, <1>22, <4>1, <4>3 DEF Waits, Unfinished
      <4> QED
        BY <1>4, <4>2, <4>3
    <3>3. ~e.more => c = d + 1
      BY <1>10
    <3> HIDE DEF p, q, c, d
    <3>4. e.more
      BY <3>1, <3>2, <3>3, SMTT(30)
    <3> QED
      BY <1>4, <1>6, <3>4 DEF Flagged
  <2>3. ASSUME ~reused
        PROVE  Handling(h, 0, 0, 0, s, s, r)
    <3>1. Rest(0, 0)
      BY <1>19, <2>2, <2>3, SMTT(30)
    <3>2. Serves(h, 0, 0, 0, s, s, s)
      BY <1>4, <1>7, <1>13, NothingServes
    <3> QED
      BY <1>8, <1>13, <2>1, <3>1, <3>2, SMTT(30) DEF Handling
  <2>4. ASSUME ~reused
        PROVE  Buffered(h, n, s, s, r)
    <3>1. Kept(0, s, s)
      BY <1>4, <1>7, <1>13, NothingServes
    <3>2. chan[h].rd # "await"
      BY <1>7, <1>22, <2>2, <2>4
    <3> HIDE DEF n
    <3> QED
      BY <1>7, <2>1, <3>1, <3>2 DEF Buffered
  <2> QED
    BY <2>1, <2>3, <2>4
<1>23. Unfinished(NoChan, "accept")' <= 1
  <2>1. /\ s.sq \in Seq(Sqe) /\ r.sq \in Seq(Sqe) /\ Continues(h, s.c.conn, s.sq, r.sq)
        /\ sq' = r.sq
    BY <1>8, <1>14 DEF Handles, Frame, Commit
  <2>2. Unfinished(NoChan, "accept")'
           = Held(sq, NoChan, "accept") + Held(ops, NoChan, "accept")
             + Ended(cq', NoChan, "accept")
    BY <1>3, <1>4, <1>7, <2>1, AcceptsKept
  <2>3. Ended(cq', NoChan, "accept") = Ended(cq, NoChan, "accept")
    BY <1>11
  <2> QED
    BY <2>2, <2>3 DEF RingInv, Unfinished
<1>24. Done
  BY <1>20, <1>21, <1>22
<1>25. Handled(h, n, r)
  <2> HIDE DEF n
  <2> QED
    BY <1>1, <1>3, <1>8, <1>23, <1>24 DEF Handled
<1> QED
  BY <1>0, <1>1, <1>3, <1>4, <1>25

\* One iteration of TcpThread::on_batch_done.
LEMMA BatchReadHandled ==
  ASSUME Inv, RingInv, BatchRead
  PROVE  \E h \in Chan : \E r : cq' = cq /\ ops' = ops /\ Handled(h, 0, r)
<1> DEFINE h == Head(pending_reads)
           s == [FrameOf(h) EXCEPT !.c.marked = FALSE, !.reads = Tail(@)]
<1>1. /\ pending_reads # <<>> /\ KeepReuse /\ cq' = cq /\ ops' = ops
  BY DEF BatchRead, kernel
<1>2. PICK echo \in BOOLEAN, close \in {FALSE, Closes} :
        Commit(h, OnRead(h, echo, close, s))
  BY DEF BatchRead
<1>3. close \in BOOLEAN
  BY ModesAssumption
<1>4. /\ pending_reads \in Seq(Chan) /\ Range(pending_reads) = {g \in Chan : chan[g].marked}
  BY DEF Inv, TypeOK, PendingReadsExact
<1>5. h \in Chan /\ Tail(pending_reads) \in Seq(Chan) /\ h \in Range(pending_reads)
  BY <1>1, <1>4, TailSet, SMTT(30)
<1> HIDE DEF h
<1>6. chan[h].marked /\ Standing(chan[h])
  BY <1>4, <1>5 DEF RingInv
<1>7. /\ FrameOf(h) \in Frame /\ FrameOf(h).c = chan[h] /\ FrameOf(h).sq = sq
      /\ FrameOf(h).free = free_queue /\ FrameOf(h).reads = pending_reads
      /\ FrameOf(h).avail = avail /\ Shut(FrameOf(h)) /\ Parked(FrameOf(h))
  BY <1>5, FrameOfType DEF FrameOf
<1> DEFINE Same(c) == /\ c.rd = chan[h].rd /\ c.wr = chan[h].wr
                      /\ c.in_flight = chan[h].in_flight /\ c.closed = chan[h].closed
                      /\ c.send = chan[h].send /\ c.draft = chan[h].draft
                      /\ c.submitted = chan[h].submitted
                      /\ c.read_buf = chan[h].read_buf
                      /\ c.pending = chan[h].pending /\ c.fd = chan[h].fd
<1>8. s \in Frame /\ s.sq = sq /\ s.free = free_queue /\ s.avail = avail /\ Same(s.c)
  <2> DEFINE x == [chan[h] EXCEPT !.marked = FALSE]
             t == Tail(pending_reads)
             s0 == FrameOf(h)
  <2>1. x \in Channel /\ Same(x)
    BY <1>5 DEF Inv, TypeOK, Channel
  <2>2. s = [s0 EXCEPT !.c = x, !.reads = t]
    BY <1>7 DEF Frame
  <2>3. s0 \in Frame /\ t \in Seq(Chan)
    BY <1>5, <1>7
  <2>4. s0.sq = sq /\ s0.free = free_queue /\ s0.avail = avail
    BY <1>7
  <2> HIDE DEF x, t, s0, s, Same
  <2>5. s \in Frame /\ s.sq = s0.sq /\ s.free = s0.free /\ s.avail = s0.avail /\ s.c = x
    BY <2>1, <2>2, <2>3 DEF Frame
  <2> QED
    BY <2>1, <2>4, <2>5
<1> DEFINE r == OnRead(h, echo, close, s)
<1>9. Commit(h, r)
  BY <1>2
<1>10. Shut(s) /\ Parked(s) /\ s.c.wr # "run" /\ Awake(s)
  <2> HIDE DEF s
  <2> QED
    BY <1>6, <1>7, <1>8 DEF Shut, Parked, Standing, Awake, Alert
<1> HIDE DEF s
<1>11. Serves(h, 0, 0, 0, s, s, r) /\ Kept(0, s, r)
  BY <1>3, <1>5, <1>8, <1>10, OnReadServes
<1>12. Within(h, s, r)
  BY <1>3, <1>5, <1>8, <1>10, OnReadWithin
<1> HIDE DEF r
<1>13. Standing(r.c)
  <2>1. r.c.wr # "run" /\ Alert(r.c) /\ Ending(s, r)
    BY <1>11 DEF Serves, Awake, Carries
  <2>2. s.c.wr # "none"
    BY <1>6, <1>8 DEF Standing
  <2> QED
    BY <2>1, <2>2 DEF Standing, Ending
<1>14. free_queue' = free_queue
  BY <1>8, <1>9, <1>12 DEF Within, Commit
<1>15. Handling(h, 0, 0, 0, s, s, r)
  <2>1. \A g, op : Ended(cq', g, op) = Ended(cq, g, op) /\ Ended(cq, g, op) \in Nat
    BY <1>1, RingTypes
  <2>2. Ended(cq, h, "recv") = Ended(cq', h, "recv") + 0
    BY <2>1, SMTT(30)
  <2>3. Ended(cq, h, "write") = Ended(cq', h, "write") + 0
    BY <2>1, SMTT(30)
  <2> QED
    BY <1>1, <1>8, <1>9, <1>10, <1>11, <1>14, <2>1, <2>2, <2>3, SMTT(30) DEF Handling
<1>16. Buffered(h, 0, s, s, r)
  BY <1>6, <1>8, <1>11 DEF Buffered, Standing
<1>17. Unfinished(NoChan, "accept")' <= 1
  <2>1. /\ s.sq \in Seq(Sqe) /\ r.sq \in Seq(Sqe) /\ Continues(h, s.c.conn, s.sq, r.sq)
        /\ sq' = r.sq
    BY <1>9, <1>12 DEF Within, Frame, Commit
  <2>2. Unfinished(NoChan, "accept")'
           = Held(sq, NoChan, "accept") + Held(ops, NoChan, "accept")
             + Ended(cq', NoChan, "accept")
    BY <1>1, <1>5, <1>8, <2>1, AcceptsKept
  <2> QED
    BY <1>1, <2>2 DEF RingInv, Unfinished
<1>18. Handled(h, 0, r)
  BY <1>1, <1>9, <1>13, <1>15, <1>16, <1>17 DEF Handled
<1> QED
  BY <1>1, <1>5, <1>18

\* accept_loop takes a channel from the pool.
LEMMA AcceptAssignHandled ==
  ASSUME Inv, RingInv, AcceptAssign
  PROVE  \E e, r : \E h \in Chan :
           /\ cq # <<>> /\ NextCqe(e) /\ e.op = "accept" /\ ops' = ops /\ Handled(h, 0, r)
<1> DEFINE e == Head(cq)
           h == Head(free_queue)
           s == [FrameOf(h) EXCEPT !.free = Tail(@), !.sq = AcceptSq(e)]
<1>1. /\ cq # <<>> /\ free_queue # <<>> /\ NextCqe(e) /\ e.op = "accept" /\ e.res >= 0
      /\ KeepReuse
  BY DEF AcceptAssign
<1>2. PICK close \in {FALSE, Closes} : Commit(h, Assign(h, e.res, e.conn, close, s))
  BY DEF AcceptAssign
<1>3. close \in BOOLEAN
  BY ModesAssumption
<1> HIDE DEF e
<1>4. e \in Cqe /\ e.res \in Fd /\ e.conn \in Conn
  BY <1>1, CqeTaken DEF Accepted
<1>5. /\ \A g \in Chan : \A op : Ended(cq', g, op) = Ended(cq, g, op)
      /\ Ended(cq, NoChan, "accept")
           = IF e.more THEN Ended(cq', NoChan, "accept")
                       ELSE Ended(cq', NoChan, "accept") + 1
      /\ Range(cq') \subseteq Range(cq) /\ ops' = ops
  BY <1>1, AcceptTaken
<1>6. /\ h \in Chan /\ Tail(free_queue) \in Seq(Chan)
      /\ Range(free_queue) = {h} \cup Range(Tail(free_queue))
      /\ IsInjective(free_queue) => h \notin Range(Tail(free_queue))
  BY <1>1, TailSet DEF Inv, TypeOK
<1>7. AcceptSq(e) \in Seq(Sqe)
  BY AcceptSqSet
<1>8. /\ \A g \in Chan : \A op : Held(AcceptSq(e), g, op) = Held(sq, g, op)
      /\ Held(AcceptSq(e), NoChan, "accept")
           = IF e.more THEN Held(sq, NoChan, "accept") ELSE Held(sq, NoChan, "accept") + 1
      /\ \A x \in Range(AcceptSq(e)) : x \in Range(sq) \/ x.op = "accept"
  BY AcceptSqCounts
<1> HIDE DEF h
<1>9. /\ s \in Frame /\ s.c = chan[h] /\ s.free = Tail(free_queue) /\ s.sq = AcceptSq(e)
      /\ s.avail = avail
  <2>1. FrameOf(h).avail = avail
    BY DEF FrameOf
  <2> QED
    BY <1>6, <1>7, <2>1, FrameOfType DEF Frame
<1> DEFINE r == Assign(h, e.res, e.conn, close, s)
<1>10. Commit(h, r)
  BY <1>2
<1> HIDE DEF s
<1>11. /\ r.c.wr \notin {"run", "none"} /\ Awake(r) /\ r.c.rd \in {"await", "done"}
       /\ s.c.rd # "await" /\ s.c.wr # "await" =>
            \E z : z.c.wr = "run" /\ Serves(h, 0, 0, 0, s, z, r)
                   /\ (Kept(0, s, r) \/ (r.c.rd = "done" /\ Full(r.sq)))
  BY <1>3, <1>4, <1>6, <1>9, AssignServes, SMTT(30)
<1>12. r \in Frame /\ Continues(h, e.conn, s.sq, r.sq) /\ r.free = s.free
  BY <1>3, <1>4, <1>6, <1>9, AssignStarts, SMTT(30)
<1> HIDE DEF r
<1>13. Standing(r.c)
  BY <1>11 DEF Standing, Awake
<1>14. free_queue' = Tail(free_queue)
  BY <1>9, <1>10, <1>12 DEF Commit
<1>15. ASSUME ~reused
       PROVE  \E z : Handling(h, 0, 0, 0, s, z, r) /\ Buffered(h, 0, s, z, r)
  <2>1. InPool(h)
    BY <1>6 DEF InPool
  <2>2. Unfinished(h, "recv") = 0 /\ Unfinished(h, "write") = 0
    BY <1>6, <1>15, <2>1, PooledIsFree, SMTT(30) DEF Unfinished
  <2>3. s.c.rd # "await" /\ s.c.wr # "await"
    BY <1>6, <1>9, <1>15, <2>2, SMTT(30) DEF RingInv, Tally, Waits
  <2>4. PICK z : /\ z.c.wr = "run" /\ Serves(h, 0, 0, 0, s, z, r)
                 /\ Kept(0, s, r) \/ (r.c.rd = "done" /\ Full(r.sq))
    BY <1>11, <2>3
  <2>5. h \notin Range(free_queue')
    BY <1>6, <1>14, <1>15 DEF Inv, PoolSound
  <2>6. /\ Ended(cq, h, "recv") = Ended(cq', h, "recv") + 0
        /\ Ended(cq, h, "write") = Ended(cq', h, "write") + 0
    <3>1. Ended(cq, h, "recv") \in Nat /\ Ended(cq, h, "write") \in Nat
      BY RingTypes
    <3> QED
      BY <1>5, <1>6, <3>1, SMTT(30)
  <2>7. Handling(h, 0, 0, 0, s, z, r)
    BY <1>5, <1>6, <1>8, <1>9, <1>10, <1>14, <2>3, <2>4, <2>5, <2>6, SMTT(30) DEF Handling
  <2>8. Buffered(h, 0, s, z, r)
    BY <1>9, <2>4 DEF Buffered
  <2> QED
    BY <2>7, <2>8
<1>16. Unfinished(NoChan, "accept")' <= 1
  <2> DEFINE a == Held(sq, NoChan, "accept")
             f == Held(s.sq, NoChan, "accept")
             b == Held(ops, NoChan, "accept")
             c == Ended(cq, NoChan, "accept")
             d == Ended(cq', NoChan, "accept")
  <2>1. a \in Nat /\ b \in Nat /\ c \in Nat /\ d \in Nat
    BY <1>1, RingTypes, TakenCounts
  <2>2. ((c = d /\ f = a) \/ (c = d + 1 /\ f = a + 1)) /\ a + b + c <= 1
    BY <1>5, <1>8, <1>9 DEF RingInv, Unfinished
  <2>3. s.sq \in Seq(Sqe) /\ r.sq \in Seq(Sqe) /\ sq' = r.sq
    BY <1>9, <1>10, <1>12 DEF Frame, Commit
  <2>4. Unfinished(NoChan, "accept")' = f + b + d
    BY <1>5, <1>6, <1>12, <2>3, AcceptsKept
  <2> HIDE DEF a, b, c, d, f
  <2> QED
    BY <2>1, <2>2, <2>4, SMTT(30)
<1>17. Handled(h, 0, r)
  BY <1>1, <1>5, <1>10, <1>13, <1>15, <1>16 DEF Handled
<1> QED
  BY <1>1, <1>5, <1>6, <1>17
-----------------------------------------------------------------------------
(***************************************************************************)
(* The invariant is inductive.                                             *)
(***************************************************************************)
\* The initial state: the ring holds nothing of a channel.
LEMMA RingInit == Init => RingInv
<1> SUFFICES ASSUME Init PROVE RingInv
  OBVIOUS
<1>1. Inv
  BY InitInv
<1>2. \A h \in Chan : chan[h] = NewChannel
  BY DEF Init
<1>3. sq \in Seq(Sqe) /\ ops \in Seq(Op) /\ cq \in Seq(Cqe)
  BY <1>1, RingTypes
<1>4. Sqe \in SUBSET Entry /\ Op \in SUBSET Entry
  BY DEF Entry
<1>5. /\ sq = <<AcceptSqe, WakeupSqe>> /\ Range(sq) = {AcceptSqe, WakeupSqe}
      /\ Range(ops) = {} /\ Range(cq) = {}
  BY SMTT(30) DEF Init, Range
<1>6. \A h, op : Held(ops, h, op) = 0
  BY <1>3, <1>4, <1>5, HeldNone
<1>7. \A h, op : Ended(cq, h, op) = 0
  BY <1>3, <1>5, EndedNone
<1>8. \A h \in Chan : \A op : Held(sq, h, op) = 0
  <2>1. \A h \in Chan : AcceptSqe.ch # h /\ WakeupSqe.ch # h
    BY SizesAssumption, SMTT(30) DEF AcceptSqe, WakeupSqe, Chan, NoChan
  <2> QED
    BY <1>3, <1>4, <1>5, <2>1, HeldNone
<1>9. Held(sq, NoChan, "accept") \in {0, 1}
  <2>1. {i \in DOMAIN sq : sq[i].ch = NoChan /\ sq[i].op = "accept"} \in SUBSET {1}
    BY <1>5, SMTT(30) DEF WakeupSqe
  <2>2. {i \in DOMAIN sq : sq[i].ch = NoChan /\ sq[i].op = "accept"} = {}
        \/ {i \in DOMAIN sq : sq[i].ch = NoChan /\ sq[i].op = "accept"} = {1}
    BY <2>1
  <2> QED
    BY <2>2, FS_EmptySet, FS_Singleton DEF Held
<1>10. Unfinished(NoChan, "accept") <= 1
  BY <1>6, <1>7, <1>9, SMTT(30) DEF Unfinished
<1>11. \A h \in Chan : Tally(h) /\ Idle(h)
  BY <1>2, <1>6, <1>7, <1>8, SMTT(30) DEF Tally, Idle, Unfinished, NewChannel, Waits
<1>12. Sized
  BY <1>2, <1>5, SMTT(30) DEF Sized, NewChannel, AcceptSqe, WakeupSqe
<1>13. \A h \in Chan : Standing(chan[h])
  BY <1>2, SMTT(30) DEF Standing, Alert, NewChannel
<1> QED
  BY <1>5, <1>10, <1>11, <1>12, <1>13 DEF RingInv

\* No step of the worker or the kernel breaks the counts.
LEMMA RingNext == Inv /\ RingInv /\ [Next]_vars => RingInv'
<1> SUFFICES ASSUME Inv, RingInv, [Next]_vars PROVE RingInv'
  OBVIOUS
<1>0. Inv'
  BY NextInv
<1>1. CASE RingSubmit \/ PeekBatch \/ BatchDone \/ ReadsDone
  BY <1>1, LoopRing
<1>2. CASE AcceptFailed \/ AcceptTerminates
  BY <1>0, <1>2, AcceptFailedRing
<1>3. CASE AcceptDrop
  BY <1>0, <1>3, AcceptDropRing
<1>4. CASE AcceptAssign
  <2>1. PICK e, r : \E h \in Chan : Handled(h, 0, r)
    BY <1>4, AcceptAssignHandled
  <2> QED
    BY <1>0, <2>1, HandledRing
<1>5. CASE CompleteChannel
  <2>1. PICK e, r : e.ch \in Chan /\ Handled(e.ch, Carried(e), r)
    BY <1>5, CompleteChannelHandled
  <2> QED
    BY <1>0, <2>1, HandledRing
<1>6. CASE BatchRead
  <2>1. PICK h \in Chan : \E r : Handled(h, 0, r)
    BY <1>6, BatchReadHandled
  <2> QED
    BY <1>0, <2>1, HandledRing
<1>7. CASE Kernel
  <2>1. CASE KernelTake
    BY <2>1, KernelTakeRing
  <2>2. ASSUME NEW f \in Fd, NEW more \in MoreFlags, KernelAccept(f, more)
        PROVE  RingInv'
    BY <2>2, KernelAcceptRing
  <2>3. CASE KernelAcceptError
    <3>1. 1 \in Conn
      BY <2>3, SizesAssumption, SMTT(30) DEF KernelAcceptError, Inv, TypeOK, Conn
    <3> QED
      BY <2>3, <3>1, KernelFailureRing
  <2>4. ASSUME NEW c \in Conn,
               KernelRecvEnd(c) \/ KernelRecvNoBufs(c) \/ KernelWriteFail(c)
        PROVE  RingInv'
    BY <2>4, KernelFailureRing
  <2>5. ASSUME NEW c \in Conn, NEW more \in MoreFlags, KernelRecv(c, more)
        PROVE  RingInv'
    BY <2>5, KernelRecvRing
  <2>6. ASSUME NEW c \in Conn, NEW n \in 1..WriteCap, KernelWrite(c, n)
        PROVE  RingInv'
    BY <2>6, KernelWriteRing
  <2> QED
    BY <1>7, <2>1, <2>2, <2>3, <2>4, <2>5, <2>6 DEF Kernel
<1>8. CASE UNCHANGED vars
  <2>1. UNCHANGED <<chan, free_queue, sq, cq, ops, reused>>
    BY <1>8 DEF vars, user, kernel
  <2>2. \A h, op : Unfinished(h, op)' = Unfinished(h, op)
    BY <2>1 DEF Unfinished
  <2>3. Sized => Sized'
    BY <2>1 DEF Sized
  <2>4. \A h \in Chan : (Tally(h) => Tally(h)') /\ (Idle(h) => Idle(h)')
    BY <2>1, <2>2 DEF Tally, Idle, InPool
  <2> QED
    BY <2>1, <2>2, <2>3, <2>4 DEF RingInv
<1> QED
  BY <1>1, <1>2, <1>3, <1>4, <1>5, <1>6, <1>7, <1>8 DEF Next, Worker

-----------------------------------------------------------------------------
(***************************************************************************)
(* What follows from the counts.                                           *)
(***************************************************************************)
\* A completion of a write is its last.
LEMMA WritesEnd ==
  ASSUME RingInv, NEW h
  PROVE  Held(cq, h, "write") = Ended(cq, h, "write")
<1>1. \A i \in DOMAIN cq : cq[i].op = "write" => ~cq[i].more
  BY DEF RingInv, Flagged, Range
<1>2. {i \in DOMAIN cq : cq[i].ch = h /\ cq[i].op = "write"}
        = {i \in DOMAIN cq : cq[i].ch = h /\ cq[i].op = "write" /\ ~cq[i].more}
  BY <1>1
<1> QED
  BY <1>2 DEF Held, Ended

\* The ring holds one write of a channel while its writer waits for it, and
\* none otherwise (tcp_write_loop in src/src/net/handler.cpp).
THEOREM OneWriteAtATime == Spec => []OneWrite
<1>1. Inv /\ RingInv => OneWrite
  BY WritesEnd DEF RingInv, Tally, Unfinished, OneWrite, Waits
<1> QED
  BY <1>1, InitInv, NextInv, RingInit, RingNext, PTL DEF Spec

\* A completed write is within what was submitted, and that is still in the
\* send queue: the asserts of tcp_write_loop and WriteBufStream::consume_written.
THEOREM WritesStayWithin == Spec => []WrittenWasSubmitted
<1>1. Inv /\ RingInv => WrittenWasSubmitted
  <2>1. SUFFICES ASSUME Inv, RingInv, ~reused, NEW e \in Range(cq), e.op = "write"
                 PROVE  /\ e.res <= chan[e.ch].submitted
                        /\ chan[e.ch].wr = "await"
                             => chan[e.ch].submitted <= Len(chan[e.ch].send)
    BY DEF WrittenWasSubmitted
  <2>2. e \in Cqe /\ Formed(e)
    <3>1. e \in Cqe
      BY <2>1, SMTT(30) DEF Inv, TypeOK, Range
    <3>2. Formed(e)
      BY <2>1 DEF Inv, Ring
    <3> QED
      BY <3>1, <3>2
  <2>3. e.ch \in Chan
    BY <2>1, <2>2 DEF Formed, Control, Cqe
  <2>4. Sized
    BY <2>1 DEF RingInv
  <2> QED
    BY <2>1, <2>3, <2>4 DEF Sized
<1> QED
  BY <1>1, InitInv, NextInv, RingInit, RingNext, PTL DEF Spec

\* A closing channel whose writer is parked has an operation in the ring whose
\* completion will wake the writer.
THEOREM ClosingWriterIsWoken == Spec => []ClosingWriterHasWaker
<1>1. Inv /\ RingInv => ClosingWriterHasWaker
  <2>1. SUFFICES ASSUME Inv, RingInv, ~reused, NEW h \in Chan, chan[h].closed,
                        chan[h].wr = "notify"
                 PROVE  Unfinished(h, "recv") + Unfinished(h, "write") > 0
    BY DEF ClosingWriterHasWaker
  <2>2. ~chan[h].pending
    BY <2>1 DEF Inv, NoLostWakeup
  <2>3. chan[h].in_flight > 0
    BY <2>1, <2>2 DEF RingInv, Standing, Alert
  <2>4. Tally(h) /\ chan[h].in_flight \in Int
    BY <2>1, RingTypes DEF RingInv
  <2> QED
    BY <2>3, <2>4, SMTT(30) DEF Tally, Waits
<1> QED
  BY <1>1, InitInv, NextInv, RingInit, RingNext, PTL DEF Spec
=============================================================================
