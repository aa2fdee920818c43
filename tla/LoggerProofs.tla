---------------------------- MODULE LoggerProofs ----------------------------
(***************************************************************************)
(* Proofs about Logger, for any number of threads, lines and days: no      *)
(* buffer is written to while the backend or the kernel refers to it, no   *)
(* line is lost, and the lines of a thread stay in their order.            *)
(***************************************************************************)
EXTENDS Logger, FiniteSetTheorems, TLAPS

USE ZenonT(60)

(***************************************************************************)
(* Queues: the elements before and after one is appended or removed.       *)
(***************************************************************************)
\* Appending adds one element.
LEMMA AppendSet ==
  ASSUME NEW S, NEW q \in Seq(S), NEW x \in S
  PROVE  Range(Append(q, x)) = Range(q) \cup {x}
<1> DEFINE r == Append(q, x)
<1>1. /\ Len(q) \in Nat /\ DOMAIN q = 1..Len(q) /\ DOMAIN r = 1..(Len(q) + 1)
      /\ r[Len(q) + 1] = x /\ \A i \in 1..Len(q) : r[i] = q[i]
  BY SMTT(30)
<1> HIDE DEF r
<1>2. Range(r) = Range(q) \cup {x}
  BY <1>1, SMTT(30) DEF Range
<1> QED
  BY <1>2 DEF r

\* The head and the rest make up the queue.
LEMMA TailSet ==
  ASSUME NEW S, NEW q \in Seq(S), q # <<>>
  PROVE  /\ Head(q) \in S /\ Tail(q) \in Seq(S)
         /\ Range(q) = {Head(q)} \cup Range(Tail(q))
<1> DEFINE r == Tail(q)
<1>1. /\ Len(q) \in Nat \ {0} /\ DOMAIN q = 1..Len(q) /\ DOMAIN r = 1..(Len(q) - 1)
      /\ Head(q) = q[1] /\ \A i \in 1..(Len(q) - 1) : r[i] = q[i + 1]
      /\ Head(q) \in S /\ r \in Seq(S)
  BY SMTT(30)
<1> HIDE DEF r
<1>2. ASSUME NEW i \in DOMAIN q, i # 1
      PROVE  q[i] \in Range(r)
  <2>1. i - 1 \in 1..(Len(q) - 1) /\ r[i - 1] = q[i]
    BY <1>1, <1>2, SMTT(30)
  <2> QED
    BY <1>1, <2>1 DEF Range
<1>3. \A i \in DOMAIN r : r[i] \in Range(q)
  BY <1>1, SMTT(30) DEF Range
<1>4. Range(q) = {Head(q)} \cup Range(r)
  BY <1>1, <1>2, <1>3, SMTT(30) DEF Range
<1> QED
  BY <1>1, <1>4 DEF r

-----------------------------------------------------------------------------
(***************************************************************************)
(* The inductive invariant.                                                *)
(***************************************************************************)
Line == Thread \X (Nat \ {0})
Place == [buf: Buf, ready: BOOLEAN]
Write == [buf: Buf, day: Day, off: Nat, len: Nat]
Buffer == [lines: Seq(Line), in_flight: BOOLEAN]
ThreadState ==
  [pc: {"run", "publish", "release", "wait", "stop", "join", "gone"},
   then: {"append", "exit", "dtor"}, guarded: BOOLEAN, write_idx: {0, 1},
   count: Nat]
BackendState ==
  [pc: {"start", "check", "rotate", "acquire", "drain", "reap", "last", "finish",
        "done"},
   today: 0..MaxDay, open: BOOLEAN, offset: Nat, in_flight: Nat, stop: BOOLEAN]

TypeOK ==
  /\ th \in [Thread -> ThreadState]
  /\ bufs \in [Buf -> Buffer]
  /\ flush_queue_ \in Seq(Place)
  /\ backend \in BackendState
  /\ sq \in Seq(Write) /\ cq \in Seq(Write)
  /\ ops \in SUBSET Write /\ IsFiniteSet(ops)
  /\ day \in Day /\ backend.today <= day
  /\ backend.pc # "start" <=> backend.today \in Day
  /\ disk \in [Day -> Seq(Line \cup {Hole, Earlier})]

\* Writes whose data the kernel has still to read, and all writes of the ring.
Unwritten == Range(sq) \cup ops
Writes == Range(sq) \cup ops \cup Range(cq)

\* No two elements of s are of the same thread.
Apart(s) == \A j, k \in DOMAIN s : s[j].buf[1] = s[k].buf[1] => j = k

\* Of the buffers of a thread one place refers to one, at most.
OnePlace ==
  /\ Apart(flush_queue_) /\ Apart(sq) /\ Apart(cq)
  /\ \A o, p \in Writes : o.buf[1] = p.buf[1] => o = p
  /\ Range(sq) \cap ops = {} /\ Range(sq) \cap Range(cq) = {}
  /\ ops \cap Range(cq) = {}
  /\ \A q \in Range(flush_queue_) : \A o \in Writes : q.buf[1] # o.buf[1]

\* in_flight_ is set exactly for the buffers referred to.
Flagged == \A b \in Buf : bufs[b].in_flight <=> b \in Referenced

\* in_flight_ counts the writes of the ring.
Counted == backend.in_flight = Len(sq) + Cardinality(ops) + Len(cq)

\* A thread that logs has its front buffer for itself, one that is handing the
\* front buffer over has the back buffer free, one that is gone has none.
FreeBuffers ==
  \A t \in Thread :
    /\ th[t].pc = "run" => Free(front(t))
    /\ th[t].pc \in {"publish", "release"} => Free(back(t))
    /\ th[t].pc = "gone" => Free(front(t)) /\ Free(back(t))

\* Main outlives the others; it alone stops the backend.
MainIsLast ==
  /\ \A t \in Thread :
       /\ th[t].pc \in {"stop", "join"} => t = Main
       /\ th[t].pc \in {"publish", "release"} /\ th[t].then = "dtor" => t = Main
       /\ \/ th[t].pc \in {"wait", "stop", "join", "gone"}
          \/ th[t].pc \in {"publish", "release"} /\ th[t].then # "append"
          => ~th[t].guarded
  /\ ~th[Main].guarded => \A t \in Thread \ {Main} : th[t].pc = "gone"
  /\ backend.stop => th[Main].pc \in {"join", "gone"}

\* A place that is not ready is being published, and after the last round of
\* the backend there is none.
Drained ==
  /\ \A q \in Range(flush_queue_) : q.ready \/ th[q.buf[1]].pc = "publish"
  /\ backend.pc \in {"last", "finish", "done"} => backend.stop
  /\ backend.pc \in {"finish", "done"} => flush_queue_ = <<>>
  /\ backend.pc = "done" => backend.in_flight = 0

Structure ==
  TypeOK /\ OnePlace /\ Flagged /\ Counted /\ FreeBuffers /\ MainIsLast /\ Drained
-----------------------------------------------------------------------------
\* A buffer holds lines of its thread, in the order they were logged.
OwnLines ==
  \A b \in Buf :
    LET l == bufs[b].lines
    IN  /\ \A k \in DOMAIN l : l[k][1] = b[1] /\ l[k][2] <= th[b[1]].count
        /\ \A j, k \in DOMAIN l : j < k => l[j][2] < l[k][2]

\* The lines of the back buffer are older than the other's.  A buffer that was
\* handed over and is free again is empty.
BackIsOlder ==
  \A t \in Thread :
    /\ Free(back(t)) => bufs[back(t)].lines = <<>>
    /\ th[t].pc \in {"publish", "release"} /\ Free(front(t)) => bufs[front(t)].lines = <<>>
    /\ \A j \in DOMAIN bufs[back(t)].lines, k \in DOMAIN bufs[front(t)].lines :
         bufs[back(t)].lines[j][2] < bufs[front(t)].lines[k][2]

\* A write takes the whole buffer, and a completed one has saved it.
WholeBuffers ==
  /\ \A o \in Unwritten : o.len = Len(bufs[o.buf].lines)
  /\ \A o \in Range(cq) : \A l \in Range(bufs[o.buf].lines) :
       OnDisk(l) \/ l \in dropped

\* What the files hold: lines of the past, once.
FileLines ==
  /\ disk[1] # <<>> /\ disk[1][1] = Earlier
  /\ \A d \in Day : \A k \in DOMAIN disk[d] :
       /\ disk[d][k] = Earlier => d = 1 /\ k = 1
       /\ disk[d][k] \in Line =>
            /\ d <= backend.today
            /\ disk[d][k][2] <= th[disk[d][k][1]].count

\* A buffer that is not yet written is younger than what the files hold, and
\* will be behind it.
YoungBuffers ==
  \A d \in Day : \A k \in DOMAIN disk[d] : disk[d][k] \in Line =>
    /\ \A b \in Buf : \A j \in DOMAIN bufs[b].lines :
         b[1] = disk[d][k][1] /\ b \notin {o.buf : o \in Range(cq)}
           => disk[d][k][2] < bufs[b].lines[j][2]
    /\ \A o \in Unwritten :
         o.buf[1] = disk[d][k][1] => d < o.day \/ (d = o.day /\ k <= o.off)

\* The writes of one day do not overlap, nor does one hit what is there.
Extents ==
  /\ \A o \in Unwritten :
       /\ o.day <= backend.today
       /\ \A k \in DOMAIN disk[o.day] :
            o.off < k /\ k <= o.off + o.len => disk[o.day][k] = Hole
  /\ \A o, p \in Unwritten :
       o # p /\ o.day = p.day => o.off + o.len <= p.off \/ p.off + p.len <= o.off
  /\ backend.pc # "rotate" =>
       /\ \A o \in Unwritten :
            o.day = backend.today /\ o.off + o.len <= backend.offset
       /\ backend.open => /\ backend.today \in Day
                          /\ Len(disk[backend.today]) <= backend.offset

Contents ==
  /\ OwnLines /\ BackIsOlder /\ WholeBuffers /\ FileLines /\ YoungBuffers /\ Extents
  /\ LinesConserved /\ LogOrder

Inv == Structure /\ Contents
-----------------------------------------------------------------------------
(***************************************************************************)
(* Sequences whose elements are of different threads.                      *)
(***************************************************************************)
\* An element of another thread may be appended.
LEMMA ApartAppend ==
  ASSUME NEW S, NEW q \in Seq(S), NEW x \in S, Apart(q),
         \A y \in Range(q) : y.buf[1] # x.buf[1]
  PROVE  Apart(Append(q, x))
<1> DEFINE r == Append(q, x)
<1>1. /\ Len(q) \in Nat /\ DOMAIN q = 1..Len(q) /\ DOMAIN r = 1..(Len(q) + 1)
      /\ r[Len(q) + 1] = x /\ \A i \in 1..Len(q) : r[i] = q[i]
  BY SMTT(30)
<1> HIDE DEF r
<1>2. \A i \in 1..Len(q) : q[i].buf[1] # x.buf[1]
  BY <1>1 DEF Range
<1>3. Apart(r)
  BY <1>1, <1>2, SMTT(30) DEF Apart
<1> QED
  BY <1>3 DEF r

\* The head is of another thread than the rest.
LEMMA ApartTail ==
  ASSUME NEW S, NEW q \in Seq(S), q # <<>>, Apart(q)
  PROVE  /\ Apart(Tail(q))
         /\ \A y \in Range(Tail(q)) : y.buf[1] # Head(q).buf[1]
<1> DEFINE r == Tail(q)
<1>1. /\ Len(q) \in Nat \ {0} /\ DOMAIN q = 1..Len(q) /\ DOMAIN r = 1..(Len(q) - 1)
      /\ Head(q) = q[1] /\ \A i \in 1..(Len(q) - 1) : r[i] = q[i + 1]
  BY SMTT(30)
<1> HIDE DEF r
<1>2. ASSUME NEW i \in DOMAIN r
      PROVE  i + 1 \in DOMAIN q /\ 1 \in DOMAIN q /\ r[i] = q[i + 1] /\ i + 1 # 1
  BY <1>1, SMTT(30)
<1>3. ASSUME NEW i \in DOMAIN r, NEW j \in DOMAIN r, r[i].buf[1] = r[j].buf[1]
      PROVE  i = j
  <2>1. i + 1 = j + 1
    BY <1>2, <1>3, SMTT(30) DEF Apart
  <2> QED
    BY <1>1, <2>1, SMTT(30)
<1>4. ASSUME NEW i \in DOMAIN r
      PROVE  r[i].buf[1] # Head(q).buf[1]
  BY <1>1, <1>2, <1>4 DEF Apart
<1>5. Apart(r) /\ \A y \in Range(r) : y.buf[1] # Head(q).buf[1]
  BY <1>3, <1>4 DEF Apart, Range
<1> QED
  BY <1>5 DEF r

\* Such a sequence has as many elements as places.
LEMMA ApartCount ==
  ASSUME NEW S, NEW q \in Seq(S), Apart(q)
  PROVE  IsFiniteSet(Range(q)) /\ Cardinality(Range(q)) = Len(q)
<1>1. Len(q) \in Nat /\ DOMAIN q = 1..Len(q)
  BY SMTT(30)
<1>2. IsFiniteSet(1..Len(q)) /\ Cardinality(1..Len(q)) = Len(q)
  BY <1>1, FS_Interval, SMTT(30)
<1>3. q \in Surjection(1..Len(q), Range(q)) /\ q \in Injection(1..Len(q), Range(q))
  <2>1. q \in [1..Len(q) -> Range(q)]
    BY <1>1, SMTT(30) DEF Range
  <2>2. \A i, j \in 1..Len(q) : q[i] = q[j] => i = j
    BY <1>1 DEF Apart
  <2>3. \A y \in Range(q) : \E i \in 1..Len(q) : q[i] = y
    BY <1>1 DEF Range
  <2> QED
    BY <2>1, <2>2, <2>3 DEF Surjection, Injection, IsInjective
<1> QED
  BY <1>2, <1>3, FS_Surjection

\* The two buffers of a thread.
LEMMA TwoBuffers ==
  TypeOK =>
    /\ \A t \in Thread : /\ front(t) \in Buf /\ front(t)[1] = t
                         /\ back(t) \in Buf /\ back(t)[1] = t /\ front(t) # back(t)
    /\ \A b \in Buf : b[1] \in Thread /\ b \in {front(b[1]), back(b[1])}
<1> SUFFICES ASSUME TypeOK
             PROVE  /\ \A t \in Thread :
                         /\ front(t) \in Buf /\ front(t)[1] = t
                         /\ back(t) \in Buf /\ back(t)[1] = t /\ front(t) # back(t)
                    /\ \A b \in Buf : b[1] \in Thread /\ b \in {front(b[1]), back(b[1])}
  OBVIOUS
<1>1. \A t \in Thread : th[t].write_idx \in {0, 1}
  BY DEF TypeOK, ThreadState
<1>2. ASSUME NEW t \in Thread
      PROVE  /\ front(t) \in Buf /\ front(t)[1] = t
             /\ back(t) \in Buf /\ back(t)[1] = t /\ front(t) # back(t)
  BY <1>1, SMTT(30) DEF front, back, Buf
<1>3. ASSUME NEW b \in Buf
      PROVE  b[1] \in Thread /\ b \in {front(b[1]), back(b[1])}
  <2>1. PICK t \in Thread, i \in {0, 1} : b = <<t, i>>
    BY SMTT(30) DEF Buf
  <2> QED
    BY <1>1, <2>1, SMTT(30) DEF front, back
<1> QED
  BY <1>2, <1>3
-----------------------------------------------------------------------------
(***************************************************************************)
(* The references to the buffers, one lemma per action.                    *)
(***************************************************************************)
\* What the queue and the ring hold.
LEMMA ElementTypes ==
  TypeOK =>
    /\ \A q \in Range(flush_queue_) : q \in Place /\ q.buf \in Buf
    /\ \A o \in Writes : o \in Write /\ o.buf \in Buf
<1> SUFFICES ASSUME TypeOK
             PROVE  /\ \A q \in Range(flush_queue_) : q \in Place /\ q.buf \in Buf
                    /\ \A o \in Writes : o \in Write /\ o.buf \in Buf
  OBVIOUS
<1>1. \A q \in Range(flush_queue_) : q \in Place
  BY SMTT(30) DEF TypeOK, Range
<1>2. \A o \in Writes : o \in Write
  BY SMTT(30) DEF TypeOK, Range, Writes
<1> QED
  BY <1>1, <1>2 DEF Place, Write

\* Nothing refers to a thread both of whose buffers are free.
LEMMA FreeIsUnreferenced ==
  ASSUME Structure, NEW t \in Thread, Free(front(t)), Free(back(t))
  PROVE  /\ \A q \in Range(flush_queue_) : q.buf[1] # t
         /\ \A o \in Writes : o.buf[1] # t
<1>1. front(t) \notin Referenced /\ back(t) \notin Referenced
  BY TwoBuffers DEF Structure, Flagged, Free
<1>2. /\ \A q \in Range(flush_queue_) : q.buf \in Buf /\ q.buf \in Referenced
      /\ \A o \in Writes : o.buf \in Buf /\ o.buf \in Referenced
  BY ElementTypes DEF Structure, Referenced, Writes
<1> QED
  BY <1>1, <1>2, TwoBuffers, SMTT(30) DEF Structure

\* While a thread has not ended the backend has not been stopped.
LEMMA RunningMeansRounds ==
  ASSUME Structure, NEW t \in Thread, th[t].pc \notin {"join", "gone"}
  PROVE  ~backend.stop /\ backend.pc \notin {"last", "finish", "done"}
<1>1. ASSUME backend.stop
      PROVE  FALSE
  <2>1. th[Main].pc \in {"join", "gone"} /\ Main \in Thread
    BY <1>1, LoggerAssumption DEF Structure, MainIsLast
  <2>2. t # Main /\ ~th[Main].guarded
    BY <2>1 DEF Structure, MainIsLast
  <2> QED
    BY <2>2 DEF Structure, MainIsLast
<1> QED
  BY <1>1 DEF Structure, Drained

\* A thread hands its front buffer over (append, ~ThreadFlushGuard, ~Logger).
LEMMA ClaimKeeps ==
  ASSUME Structure, NEW t \in Thread, NEW caller \in {"append", "exit", "dtor"},
         th[t].pc = "run", ClaimFront(t, caller),
         caller = "dtor" => t = Main,
         caller # "append" /\ t = Main =>
           \A u \in Thread \ {Main} : th[u].pc = "gone",
         UNCHANGED <<backend, ring, world, disk>>
  PROVE  Structure'
<1> DEFINE x == [buf |-> front(t), ready |-> FALSE]
<1>1. /\ th' \in [Thread -> ThreadState]
      /\ th'[t].pc = "publish" /\ th'[t].then = caller
      /\ th'[t].guarded = (th[t].guarded /\ caller = "append")
      /\ \A u \in Thread : u # t => th'[u] = th[u]
      /\ \A u \in Thread : th'[u].write_idx = th[u].write_idx
  <2> DEFINE g == th[t].guarded /\ caller = "append"
             r == [th[t] EXCEPT !.pc = "publish", !.then = caller, !.guarded = g]
  <2>1. th \in [Thread -> ThreadState] /\ th[t] \in ThreadState /\ g \in BOOLEAN
    BY DEF Structure, TypeOK
  <2>2. th' = [th EXCEPT ![t] = r]
    BY DEF ClaimFront
  <2>3. g = (th[t].guarded /\ caller = "append")
    OBVIOUS
  <2> HIDE DEF g
  <2>4. /\ r \in ThreadState /\ r.pc = "publish" /\ r.then = caller /\ r.guarded = g
        /\ r.write_idx = th[t].write_idx
    BY <2>1 DEF ThreadState
  <2> HIDE DEF r
  <2> QED
    BY <2>1, <2>2, <2>3, <2>4
<1>2. \A u \in Thread : (front(u))' = front(u) /\ (back(u))' = back(u)
  BY <1>1 DEF front, back
<1>3. /\ front(t) \in Buf /\ front(t)[1] = t /\ back(t) \in Buf /\ back(t)[1] = t
      /\ front(t) # back(t)
  BY TwoBuffers DEF Structure
<1>4. /\ bufs' \in [Buf -> Buffer]
      /\ bufs'[front(t)].in_flight
      /\ \A b \in Buf : b # front(t) => bufs'[b] = bufs[b]
  BY <1>3 DEF Structure, TypeOK, Buffer, ClaimFront
<1>5. /\ x \in Place /\ flush_queue_ \in Seq(Place) /\ flush_queue_' = Append(flush_queue_, x)
      /\ x.buf = front(t)
  BY <1>3 DEF Structure, TypeOK, Place, ClaimFront
<1> HIDE DEF x
<1>6. flush_queue_' \in Seq(Place) /\ Range(flush_queue_') = Range(flush_queue_) \cup {x}
  BY <1>5, AppendSet, SMTT(30)
<1>7. Free(front(t)) /\ Free(back(t))
  BY DEF Structure, FreeBuffers, ClaimFront
<1>8. /\ \A q \in Range(flush_queue_) : q.buf[1] # t
      /\ \A o \in Writes : o.buf[1] # t
  BY <1>7, FreeIsUnreferenced
<1>9. TypeOK'
  BY <1>1, <1>4, <1>6 DEF Structure, TypeOK, ring, world
<1>10. OnePlace'
  <2>1. Apart(flush_queue_')
    BY <1>3, <1>5, <1>8, ApartAppend DEF Structure, OnePlace
  <2> QED
    BY <1>3, <1>5, <1>6, <1>8, <2>1, SMTT(30) DEF Structure, OnePlace, Writes, ring
<1>11. Flagged'
  <2>1. Referenced' = Referenced \cup {front(t)}
    BY <1>5, <1>6 DEF Referenced, ring
  <2> QED
    BY <1>4, <2>1 DEF Structure, Flagged
<1>12. Counted'
  BY DEF Structure, Counted, ring
<1>13. FreeBuffers'
  <2>1. ASSUME NEW u \in Thread
        PROVE  /\ front(u) \in Buf /\ back(u) \in Buf
               /\ u # t => front(u) # front(t) /\ back(u) # front(t)
    BY <1>3, TwoBuffers DEF Structure
  <2> QED
    BY <1>1, <1>2, <1>3, <1>4, <1>7, <2>1, SMTT(30) DEF Structure, FreeBuffers, Free
<1>14. MainIsLast'
  BY <1>1, LoggerAssumption DEF Structure, MainIsLast
<1>15. Drained'
  <2>1. backend.pc \notin {"finish", "done"}
    BY RunningMeansRounds
  <2>2. ASSUME NEW q \in Range(flush_queue_)
        PROVE  q.ready \/ th'[q.buf[1]].pc = "publish"
    <3>1. q.buf[1] # t /\ q.buf[1] \in Thread
      BY <1>8, ElementTypes, TwoBuffers DEF Structure
    <3> QED
      BY <1>1, <3>1 DEF Structure, Drained
  <2>3. th'[x.buf[1]].pc = "publish"
    BY <1>1, <1>3, <1>5
  <2> QED
    BY <1>6, <2>1, <2>2, <2>3 DEF Structure, Drained
<1> QED
  BY <1>9, <1>10, <1>11, <1>12, <1>13, <1>14, <1>15 DEF Structure

\* An update of one thread.
LEMMA ThreadMoves ==
  ASSUME TypeOK, NEW t \in Thread, NEW r \in ThreadState, th' = [th EXCEPT ![t] = r]
  PROVE  /\ th' \in [Thread -> ThreadState] /\ th'[t] = r
         /\ \A u \in Thread : u # t => /\ th'[u] = th[u]
                                       /\ (front(u))' = front(u) /\ (back(u))' = back(u)
         /\ r.write_idx = th[t].write_idx =>
              (front(t))' = front(t) /\ (back(t))' = back(t)
<1>1. /\ th' \in [Thread -> ThreadState] /\ th'[t] = r
      /\ \A u \in Thread : u # t => th'[u] = th[u]
  BY DEF TypeOK
<1> QED
  BY <1>1 DEF front, back

\* A step that touches neither the queue, nor the ring, nor in_flight_.
LEMMA ReferencesStay ==
  ASSUME Structure, UNCHANGED <<flush_queue_, sq, ops, cq>>,
         backend'.in_flight = backend.in_flight,
         \A b \in Buf : bufs'[b].in_flight = bufs[b].in_flight
  PROVE  OnePlace' /\ Flagged' /\ Counted'
<1>1. OnePlace'
  BY DEF Structure, OnePlace, Writes
<1>2. Referenced' = Referenced
  BY DEF Referenced
<1>3. Flagged'
  BY <1>2 DEF Structure, Flagged
<1>4. Counted'
  BY DEF Structure, Counted
<1> QED
  BY <1>1, <1>3, <1>4

\* A line is put into buffer b.
LEMMA LineAdded ==
  ASSUME TypeOK, NEW t \in Thread, NEW b \in Buf,
         bufs' = [bufs EXCEPT ![b].lines = Append(@, NextLine(t))]
  PROVE  /\ bufs' \in [Buf -> Buffer]
         /\ \A c \in Buf : /\ bufs'[c].in_flight = bufs[c].in_flight
                           /\ c # b => bufs'[c].lines = bufs[c].lines
         /\ bufs'[b].lines = Append(bufs[b].lines, NextLine(t))
         /\ bufs[b].lines \in Seq(Line) /\ NextLine(t) \in Line
<1> DEFINE l == Append(bufs[b].lines, NextLine(t))
           r == [bufs[b] EXCEPT !.lines = l]
<1>1. bufs \in [Buf -> Buffer] /\ bufs[b] \in Buffer /\ th[t] \in ThreadState
  BY DEF TypeOK
<1>2. bufs[b].lines \in Seq(Line) /\ NextLine(t) \in Line
  BY <1>1, SMTT(30) DEF Buffer, NextLine, Line, ThreadState
<1>3. l \in Seq(Line) /\ l = Append(bufs[b].lines, NextLine(t))
  BY <1>2, SMTT(30)
<1>4. bufs' = [bufs EXCEPT ![b] = r]
  OBVIOUS
<1> HIDE DEF l
<1>5. r \in Buffer /\ r.lines = l /\ r.in_flight = bufs[b].in_flight
  BY <1>1, <1>3 DEF Buffer
<1> HIDE DEF r
<1> QED
  BY <1>1, <1>2, <1>3, <1>4, <1>5

\* A line goes into the front buffer, or is dropped (log, append).
LEMMA LogKeeps ==
  ASSUME Structure, NEW t \in Thread, th[t].pc = "run",
         th' = [th EXCEPT ![t].count = @ + 1],
         \/ bufs' = [bufs EXCEPT ![front(t)].lines = Append(@, NextLine(t))]
         \/ UNCHANGED bufs,
         UNCHANGED <<shared, backend, ring, world, disk>>
  PROVE  Structure'
<1> DEFINE r == [th[t] EXCEPT !.count = @ + 1]
<1>1. TypeOK /\ th[t] \in ThreadState /\ th' = [th EXCEPT ![t] = r]
  BY DEF Structure, TypeOK
<1>2. /\ r \in ThreadState /\ r.pc = "run" /\ r.guarded = th[t].guarded
      /\ r.then = th[t].then /\ r.write_idx = th[t].write_idx
  BY <1>1, SMTT(30) DEF ThreadState
<1> HIDE DEF r
<1>3. /\ th' \in [Thread -> ThreadState]
      /\ \A u \in Thread :
           /\ th'[u].pc = th[u].pc /\ th'[u].guarded = th[u].guarded
           /\ th'[u].then = th[u].then
           /\ (front(u))' = front(u) /\ (back(u))' = back(u)
  BY <1>1, <1>2, ThreadMoves
<1>4. bufs' \in [Buf -> Buffer] /\ \A b \in Buf : bufs'[b].in_flight = bufs[b].in_flight
  BY <1>1, LineAdded, TwoBuffers DEF TypeOK
<1>5. TypeOK'
  BY <1>1, <1>3, <1>4 DEF TypeOK, shared, ring, world
<1>6. OnePlace' /\ Flagged' /\ Counted'
  BY <1>4, ReferencesStay DEF shared, ring
<1>7. FreeBuffers'
  BY <1>1, <1>3, <1>4, TwoBuffers, SMTT(30) DEF Structure, FreeBuffers, Free
<1>8. MainIsLast'
  BY <1>3, LoggerAssumption DEF Structure, MainIsLast
<1>9. Drained'
  BY <1>1, <1>3, ElementTypes, TwoBuffers, SMTT(30) DEF Structure, Drained, shared
<1> QED
  BY <1>5, <1>6, <1>7, <1>8, <1>9 DEF Structure

\* The place of the front buffer becomes ready (enqueue).
LEMMA PublishKeeps ==
  ASSUME Structure, NEW t \in Thread, Publish(t)
  PROVE  Structure'
<1> DEFINE r == [th[t] EXCEPT !.pc = "release"]
           g(k) == flush_queue_[k].ready \/ flush_queue_[k].buf = front(t)
           q(k) == [flush_queue_[k] EXCEPT !.ready = g(k)]
<1>1. TypeOK /\ th[t] \in ThreadState /\ th[t].pc = "publish" /\ th' = [th EXCEPT ![t] = r]
  BY DEF Structure, TypeOK, Publish
<1>2. /\ r \in ThreadState /\ r.pc = "release" /\ r.guarded = th[t].guarded
      /\ r.then = th[t].then /\ r.write_idx = th[t].write_idx
  BY <1>1 DEF ThreadState
<1> HIDE DEF r
<1>3. /\ th' \in [Thread -> ThreadState]
      /\ th'[t].pc = "release" /\ \A u \in Thread : u # t => th'[u].pc = th[u].pc
      /\ \A u \in Thread :
           /\ th'[u].guarded = th[u].guarded /\ th'[u].then = th[u].then
           /\ (front(u))' = front(u) /\ (back(u))' = back(u)
  BY <1>1, <1>2, ThreadMoves
<1>4. /\ flush_queue_ \in Seq(Place) /\ Len(flush_queue_) \in Nat
      /\ DOMAIN flush_queue_ = 1..Len(flush_queue_)
      /\ flush_queue_' = [k \in 1..Len(flush_queue_) |-> q(k)]
  BY <1>1, SMTT(30) DEF TypeOK, Publish
<1>5. ASSUME NEW k \in 1..Len(flush_queue_)
      PROVE  /\ flush_queue_[k] \in Place /\ q(k) \in Place
             /\ q(k).buf = flush_queue_[k].buf
             /\ flush_queue_[k].ready \/ flush_queue_[k].buf = front(t) => q(k).ready
  <2>1. flush_queue_[k] \in Place /\ g(k) \in BOOLEAN
    BY <1>4, SMTT(30)
  <2>2. flush_queue_[k].ready \/ flush_queue_[k].buf = front(t) => g(k)
    OBVIOUS
  <2> HIDE DEF g
  <2> QED
    BY <2>1, <2>2 DEF Place
<1> HIDE DEF q
<1>6. /\ flush_queue_' \in Seq(Place) /\ Len(flush_queue_') = Len(flush_queue_)
      /\ DOMAIN flush_queue_' = 1..Len(flush_queue_)
      /\ \A k \in 1..Len(flush_queue_) : flush_queue_'[k] = q(k)
  BY <1>4, <1>5, SMTT(30)
<1>14. UNCHANGED <<bufs, backend, sq, ops, cq, day, disk>>
  BY DEF Publish, ring, world
<1>7. TypeOK'
  BY <1>1, <1>3, <1>6, <1>14 DEF TypeOK
<1>8. {p.buf : p \in Range(flush_queue_')} = {p.buf : p \in Range(flush_queue_)}
  BY <1>4, <1>5, <1>6, SMTT(30) DEF Range
<1>9. OnePlace'
  <2>1. Apart(flush_queue_')
    BY <1>4, <1>5, <1>6, SMTT(30) DEF Structure, OnePlace, Apart
  <2>2. \A p \in Range(flush_queue_') : \A o \in Writes : p.buf[1] # o.buf[1]
    BY <1>4, <1>5, <1>6, SMTT(30) DEF Structure, OnePlace, Range
  <2> QED
    BY <1>14, <2>1, <2>2 DEF Structure, OnePlace, Writes
<1>10. Flagged' /\ Counted'
  <2>1. Referenced' = Referenced
    BY <1>8, <1>14 DEF Referenced
  <2> QED
    BY <1>14, <2>1 DEF Structure, Flagged, Counted
<1>11. FreeBuffers'
  BY <1>1, <1>3, <1>14 DEF Structure, FreeBuffers, Free
<1>12. MainIsLast'
  BY <1>1, <1>3, <1>14, LoggerAssumption DEF Structure, MainIsLast
<1>13. Drained'
  <2>1. backend.pc \notin {"finish", "done"}
    BY <1>1, RunningMeansRounds
  <2>2. ASSUME NEW k \in 1..Len(flush_queue_)
        PROVE  flush_queue_'[k].ready \/ th'[flush_queue_'[k].buf[1]].pc = "publish"
    <3>1. /\ flush_queue_[k] \in Range(flush_queue_)
          /\ flush_queue_[k].buf \in Referenced /\ flush_queue_[k].buf \in Buf
      BY <1>1, <1>4, ElementTypes DEF Range, Referenced
    <3>2. CASE flush_queue_[k].buf[1] = t
      <4>1. Free(back(t)) /\ back(t) \in Buf
        BY <1>1, TwoBuffers DEF Structure, FreeBuffers
      <4>2. flush_queue_[k].buf = front(t)
        BY <1>1, <3>1, <3>2, <4>1, TwoBuffers DEF Structure, Flagged, Free
      <4> QED
        BY <1>5, <1>6, <4>2
    <3>3. CASE flush_queue_[k].buf[1] # t
      <4>1. flush_queue_[k].ready \/ th[flush_queue_[k].buf[1]].pc = "publish"
        BY <3>1 DEF Structure, Drained
      <4>2. flush_queue_[k].buf[1] \in Thread
        BY <1>1, <3>1, TwoBuffers
      <4> QED
        BY <1>3, <1>5, <1>6, <3>3, <4>1, <4>2, SMTT(30)
    <3> QED
      BY <3>2, <3>3
  <2> QED
    BY <1>6, <1>14, <2>1, <2>2 DEF Structure, Drained, Range
<1> QED
  BY <1>7, <1>9, <1>10, <1>11, <1>12, <1>13 DEF Structure

\* A step of a thread that leaves the queue, the ring and in_flight_ alone: the
\* hypotheses are what FreeBuffers and MainIsLast say of the thread's new state.
LEMMA ThreadStepKeeps ==
  ASSUME Structure, NEW t \in Thread, NEW r \in ThreadState,
         th' = [th EXCEPT ![t] = r], th[t].pc \notin {"publish", "gone"},
         r.pc \notin {"publish", "release"},
         r.pc = "run" => ~bufs[<<t, r.write_idx>>].in_flight,
         r.pc = "gone" => Free(front(t)) /\ Free(back(t)),
         r.pc \in {"stop", "join"} => t = Main,
         r.pc # "run" => ~r.guarded,
         t = Main /\ ~r.guarded => \A u \in Thread \ {Main} : th[u].pc = "gone",
         bufs' \in [Buf -> Buffer],
         \A b \in Buf : bufs'[b].in_flight = bufs[b].in_flight,
         backend' \in BackendState, backend'.pc = backend.pc,
         backend'.today = backend.today, backend'.in_flight = backend.in_flight,
         backend.stop => backend'.stop,
         backend'.stop => \/ t # Main /\ backend.stop
                          \/ t = Main /\ r.pc \in {"join", "gone"},
         UNCHANGED <<flush_queue_, sq, ops, cq, day, disk>>
  PROVE  Structure'
<1>1. TypeOK
  BY DEF Structure
<1>2. /\ th' \in [Thread -> ThreadState] /\ th'[t] = r
      /\ \A u \in Thread : u # t => /\ th'[u] = th[u]
                                    /\ (front(u))' = front(u) /\ (back(u))' = back(u)
  BY <1>1, ThreadMoves
<1>3. TypeOK'
  BY <1>1, <1>2 DEF TypeOK
<1>4. OnePlace' /\ Flagged' /\ Counted'
  BY ReferencesStay
<1>5. FreeBuffers'
  <2>1. ASSUME NEW u \in Thread, u # t
        PROVE  /\ th'[u].pc = "run" => (Free(front(u)))'
               /\ th'[u].pc \in {"publish", "release"} => (Free(back(u)))'
               /\ th'[u].pc = "gone" => (Free(front(u)))' /\ (Free(back(u)))'
    BY <1>1, <1>2, <2>1, TwoBuffers, SMTT(30) DEF Structure, FreeBuffers, Free
  <2>2. /\ th'[t].pc = "run" => (Free(front(t)))'
        /\ th'[t].pc = "gone" => (Free(front(t)))' /\ (Free(back(t)))'
    <3>1. /\ (front(t))' = <<t, r.write_idx>> /\ (back(t))' = <<t, 1 - r.write_idx>>
          /\ r.write_idx \in {0, 1} /\ th[t].write_idx \in {0, 1}
      BY <1>1, <1>2 DEF front, back, TypeOK, ThreadState
    <3>2. (front(t))' \in Buf /\ (back(t))' \in Buf
      BY <3>1, SMTT(30) DEF Buf
    <3>3. (front(t))' \in {front(t), back(t)} /\ (back(t))' \in {front(t), back(t)}
      BY <3>1, SMTT(30) DEF front, back
    <3> QED
      BY <1>2, <3>1, <3>2, <3>3 DEF Free
  <2> QED
    BY <1>2, <2>1, <2>2 DEF FreeBuffers
<1>6. MainIsLast'
  <2>1. ASSUME NEW u \in Thread
        PROVE  /\ th'[u].pc \in {"stop", "join"} => u = Main
               /\ th'[u].pc \in {"publish", "release"} /\ th'[u].then = "dtor" => u = Main
               /\ \/ th'[u].pc \in {"wait", "stop", "join", "gone"}
                  \/ th'[u].pc \in {"publish", "release"} /\ th'[u].then # "append"
                  => ~th'[u].guarded
    <3>1. CASE u = t
      BY <1>2, <3>1
    <3>2. CASE u # t
      BY <1>2, <3>2 DEF Structure, MainIsLast
    <3> QED
      BY <3>1, <3>2
  <2>2. ASSUME ~th'[Main].guarded, NEW u \in Thread \ {Main}
        PROVE  th'[u].pc = "gone"
    <3>1. CASE t = Main
      BY <1>2, <2>2, <3>1
    <3>2. CASE t # Main
      BY <1>2, <2>2, <3>2, LoggerAssumption DEF Structure, MainIsLast
    <3> QED
      BY <3>1, <3>2
  <2>3. backend'.stop => th'[Main].pc \in {"join", "gone"}
    BY <1>2, LoggerAssumption DEF Structure, MainIsLast
  <2> QED
    BY <2>1, <2>2, <2>3 DEF MainIsLast
<1>7. Drained'
  <2>1. ASSUME NEW q \in Range(flush_queue_)
        PROVE  q.ready \/ th'[q.buf[1]].pc = "publish"
    <3>1. q.buf[1] \in Thread
      BY <1>1, ElementTypes, TwoBuffers
    <3> QED
      BY <1>2, <3>1 DEF Structure, Drained
  <2> QED
    BY <2>1 DEF Structure, Drained
<1> QED
  BY <1>3, <1>4, <1>5, <1>6, <1>7 DEF Structure

\* semaphore_.release() and what the caller of enqueue does next.
LEMMA ReleaseKeeps ==
  ASSUME Structure, NEW t \in Thread, Release(t)
  PROVE  Structure'
<1>1. TypeOK /\ th[t] \in ThreadState /\ th[t].pc = "release" /\ backend \in BackendState
  BY DEF Structure, TypeOK, Release
<1>2. UNCHANGED <<flush_queue_, backend, sq, ops, cq, day, disk>>
  BY DEF Release, ring, world
<1>3. Free(back(t)) /\ back(t) \in Buf
  BY <1>1, TwoBuffers DEF Structure, FreeBuffers
<1>4. ~th[Main].guarded => \A u \in Thread \ {Main} : th[u].pc = "gone"
  BY DEF Structure, MainIsLast
<1>5. ~backend.stop
  BY <1>1, RunningMeansRounds
<1>6. CASE th[t].then = "append"
  <2> DEFINE i == 1 - th[t].write_idx
             n == th[t].count + 1
             r == [th[t] EXCEPT !.pc = "run", !.write_idx = i, !.count = n]
  <2>1. /\ th' = [th EXCEPT ![t] = r]
        /\ bufs' = [bufs EXCEPT ![back(t)].lines = Append(@, NextLine(t))]
    BY <1>1, <1>6 DEF Release, TypeOK
  <2>7. i \in {0, 1} /\ n \in Nat /\ i = 1 - th[t].write_idx
    BY <1>1, SMTT(30) DEF ThreadState
  <2> HIDE DEF i, n
  <2>2. r \in ThreadState /\ r.pc = "run" /\ r.guarded = th[t].guarded /\ r.write_idx = i
    BY <1>1, <2>7 DEF ThreadState
  <2> HIDE DEF r
  <2>3. bufs' \in [Buf -> Buffer] /\ \A b \in Buf : bufs'[b].in_flight = bufs[b].in_flight
    BY <1>1, <1>3, <2>1, LineAdded
  <2>4. ~bufs[<<t, r.write_idx>>].in_flight
    BY <1>3, <2>2, <2>7 DEF Free, back
  <2>5. t = Main /\ ~r.guarded => \A u \in Thread \ {Main} : th[u].pc = "gone"
    BY <1>4, <2>2
  <2> QED
    BY <1>1, <1>2, <1>5, <2>1, <2>2, <2>3, <2>4, <2>5, ThreadStepKeeps
<1>7. CASE th[t].then # "append"
  <2> DEFINE next == IF th[t].then = "exit" THEN "wait" ELSE "stop"
             r == [th[t] EXCEPT !.pc = next]
  <2>1. th' = [th EXCEPT ![t] = r] /\ UNCHANGED bufs
    BY <1>1, <1>7 DEF Release, TypeOK
  <2>2. next \in {"wait", "stop"} /\ (next = "stop" => th[t].then = "dtor")
    BY <1>1, <1>7 DEF ThreadState
  <2> HIDE DEF next
  <2>3. r \in ThreadState /\ r.pc = next /\ r.guarded = th[t].guarded
    BY <1>1, <2>2 DEF ThreadState
  <2> HIDE DEF r
  <2>4. ~th[t].guarded /\ (next = "stop" => t = Main)
    BY <1>1, <1>7, <2>2 DEF Structure, MainIsLast
  <2>5. bufs' \in [Buf -> Buffer] /\ \A b \in Buf : bufs'[b].in_flight = bufs[b].in_flight
    BY <1>1, <2>1 DEF TypeOK
  <2>6. ~r.guarded /\ (t = Main => \A u \in Thread \ {Main} : th[u].pc = "gone")
    BY <1>4, <2>3, <2>4
  <2> QED
    BY <1>1, <1>2, <1>5, <2>1, <2>2, <2>3, <2>4, <2>5, <2>6, ThreadStepKeeps
<1> QED
  BY <1>6, <1>7

\* ~ThreadFlushGuard without a hand-over.
LEMMA ExitKeeps ==
  ASSUME Structure, NEW t \in Thread, th[t].pc = "run", th[t].guarded,
         t = Main => \A u \in Thread \ {Main} : th[u].pc = "gone",
         th' = [th EXCEPT ![t].pc = "wait", ![t].guarded = FALSE],
         UNCHANGED <<bufs, flush_queue_, backend, sq, ops, cq, day, disk>>
  PROVE  Structure'
<1> DEFINE r == [th[t] EXCEPT !.pc = "wait", !.guarded = FALSE]
<1>1. TypeOK /\ th[t] \in ThreadState /\ backend \in BackendState /\ th' = [th EXCEPT ![t] = r]
  BY DEF Structure, TypeOK
<1>2. r \in ThreadState /\ r.pc = "wait" /\ ~r.guarded
  BY <1>1 DEF ThreadState
<1> HIDE DEF r
<1>3. ~backend.stop
  BY RunningMeansRounds
<1>4. bufs' \in [Buf -> Buffer] /\ \A b \in Buf : bufs'[b].in_flight = bufs[b].in_flight
  BY <1>1 DEF TypeOK
<1> QED
  BY <1>1, <1>2, <1>3, <1>4, ThreadStepKeeps

\* ~Logger without a hand-over.
LEMMA DestroyKeeps ==
  ASSUME Structure, th[Main].pc = "run", ~th[Main].guarded,
         th' = [th EXCEPT ![Main].pc = "stop"],
         UNCHANGED <<bufs, flush_queue_, backend, sq, ops, cq, day, disk>>
  PROVE  Structure'
<1> DEFINE r == [th[Main] EXCEPT !.pc = "stop"]
<1>1. /\ TypeOK /\ Main \in Thread /\ th[Main] \in ThreadState /\ backend \in BackendState
      /\ th' = [th EXCEPT ![Main] = r]
  BY LoggerAssumption DEF Structure, TypeOK
<1>2. r \in ThreadState /\ r.pc = "stop" /\ ~r.guarded
  BY <1>1 DEF ThreadState
<1> HIDE DEF r
<1>3. ~backend.stop /\ \A u \in Thread \ {Main} : th[u].pc = "gone"
  BY <1>1, RunningMeansRounds DEF Structure, MainIsLast
<1>4. bufs' \in [Buf -> Buffer] /\ \A b \in Buf : bufs'[b].in_flight = bufs[b].in_flight
  BY <1>1 DEF TypeOK
<1> QED
  BY <1>1, <1>2, <1>3, <1>4, ThreadStepKeeps

\* The stop request and its release.
LEMMA StopKeeps ==
  ASSUME Structure, StopBackend
  PROVE  Structure'
<1> DEFINE r == [th[Main] EXCEPT !.pc = "join"]
<1>1. /\ TypeOK /\ Main \in Thread /\ th[Main] \in ThreadState /\ th[Main].pc = "stop"
      /\ backend \in BackendState /\ th' = [th EXCEPT ![Main] = r]
      /\ UNCHANGED <<bufs, flush_queue_, sq, ops, cq, day, disk>>
  BY LoggerAssumption DEF Structure, TypeOK, StopBackend, ring, world
<1>2. r \in ThreadState /\ r.pc = "join" /\ r.guarded = th[Main].guarded
  BY <1>1 DEF ThreadState
<1> HIDE DEF r
<1>3. ~th[Main].guarded
  BY <1>1 DEF Structure, MainIsLast
<1>4. ~r.guarded /\ \A u \in Thread \ {Main} : th[u].pc = "gone"
  BY <1>2, <1>3 DEF Structure, MainIsLast
<1>5. bufs' \in [Buf -> Buffer] /\ \A b \in Buf : bufs'[b].in_flight = bufs[b].in_flight
  BY <1>1 DEF TypeOK
<1>6. /\ backend' \in BackendState /\ backend'.pc = backend.pc /\ backend'.stop
      /\ backend'.today = backend.today /\ backend'.in_flight = backend.in_flight
  BY <1>1 DEF StopBackend, BackendState
<1> QED
  BY <1>1, <1>2, <1>4, <1>5, <1>6, ThreadStepKeeps

\* delete ts, when both buffers are free.
LEMMA FreeKeeps ==
  ASSUME Structure, NEW t \in Thread, NEW next \in {"run", "gone"},
         th[t].pc \in {"wait", "join"}, FreeState(t, next),
         Free(front(t)), Free(back(t)),
         backend' \in BackendState, backend'.pc = backend.pc,
         backend'.today = backend.today, backend'.in_flight = backend.in_flight,
         backend.stop <=> backend'.stop,
         backend.stop /\ t = Main => next = "gone",
         UNCHANGED <<flush_queue_, sq, ops, cq, day, disk>>
  PROVE  Structure'
<1> DEFINE r == [th[t] EXCEPT !.pc = next, !.write_idx = 0]
<1>1. /\ TypeOK /\ th[t] \in ThreadState /\ th' = [th EXCEPT ![t] = r]
      /\ bufs \in [Buf -> Buffer]
      /\ bufs' = [b \in Buf |-> IF b[1] = t THEN Fresh ELSE bufs[b]]
  BY DEF Structure, TypeOK, FreeState
<1>2. /\ r \in ThreadState /\ r.pc = next /\ r.guarded = th[t].guarded
      /\ r.write_idx = 0
  BY <1>1 DEF ThreadState
<1> HIDE DEF r
<1>3. ~th[t].guarded
  BY <1>1 DEF Structure, MainIsLast
<1>4. ~r.guarded /\ (t = Main => \A u \in Thread \ {Main} : th[u].pc = "gone")
  BY <1>2, <1>3 DEF Structure, MainIsLast
<1>5. Fresh \in Buffer /\ ~Fresh.in_flight
  BY SMTT(30) DEF Fresh, Buffer
<1>6. bufs' \in [Buf -> Buffer]
  BY <1>1, <1>5
<1>7. ASSUME NEW b \in Buf, b[1] = t
      PROVE  b \in {front(t), back(t)} /\ bufs[b].in_flight \in BOOLEAN /\ ~bufs[b].in_flight
  <2>1. b \in {front(t), back(t)} /\ bufs[b] \in Buffer
    BY <1>1, <1>7, TwoBuffers
  <2> QED
    BY <2>1 DEF Free, Buffer
<1>8. ASSUME NEW b \in Buf
      PROVE  bufs'[b].in_flight = bufs[b].in_flight
  <2>1. CASE b[1] = t
    <3>1. bufs'[b].in_flight = FALSE
      BY <1>1, <2>1 DEF Fresh
    <3> QED
      BY <1>7, <2>1, <3>1
  <2>2. CASE b[1] # t
    BY <1>1, <2>2
  <2> QED
    BY <2>1, <2>2
<1>9. <<t, 0>> \in Buf /\ <<t, 0>>[1] = t
  BY DEF Buf
<1>10. ~bufs[<<t, r.write_idx>>].in_flight
  BY <1>2, <1>7, <1>9
<1>11. backend'.stop => \/ t # Main /\ backend.stop
                        \/ t = Main /\ r.pc \in {"join", "gone"}
  BY <1>2
<1> QED
  BY <1>1, <1>2, <1>4, <1>6, <1>8, <1>10, <1>11, ThreadStepKeeps

\* ~ThreadFlushGuard after its wait.
LEMMA DeleteKeeps ==
  ASSUME Structure, NEW t \in Thread, DeleteState(t)
  PROVE  Structure'
<1> DEFINE next == IF t = Main THEN "run" ELSE "gone"
<1>1. /\ th[t].pc = "wait" /\ next \in {"run", "gone"} /\ FreeState(t, next)
      /\ Free(front(t)) /\ Free(back(t))
      /\ UNCHANGED <<flush_queue_, backend, sq, ops, cq, day, disk>>
  BY DEF DeleteState, shared, ring, world
<1>2. ~backend.stop /\ backend \in BackendState
  BY <1>1, RunningMeansRounds DEF Structure, TypeOK
<1> HIDE DEF next
<1> QED
  BY <1>1, <1>2, FreeKeeps

\* The ring is empty when in_flight_ is zero.
LEMMA EmptyRing ==
  ASSUME Structure, backend.in_flight = 0
  PROVE  sq = <<>> /\ ops = {} /\ cq = <<>> /\ Writes = {}
<1>1. /\ Len(sq) \in Nat /\ Len(cq) \in Nat /\ Cardinality(ops) \in Nat
      /\ 0 = Len(sq) + Cardinality(ops) + Len(cq)
  BY FS_CardinalityType, SMTT(30) DEF Structure, TypeOK, Counted
<1>2. Len(sq) = 0 /\ Len(cq) = 0 /\ Cardinality(ops) = 0
  BY <1>1, SMTT(30)
<1>3. sq = <<>> /\ cq = <<>>
  BY <1>2, SMTT(30) DEF Structure, TypeOK
<1>4. ops = {}
  BY <1>2, FS_EmptySet DEF Structure, TypeOK
<1> QED
  BY <1>3, <1>4, SMTT(30) DEF Writes, Range

\* ~Logger after the join.
LEMMA JoinKeeps ==
  ASSUME Structure, JoinBackend
  PROVE  Structure'
<1>1. /\ TypeOK /\ Main \in Thread /\ th[Main].pc = "join" /\ backend.pc = "done"
      /\ FreeState(Main, "gone") /\ backend \in BackendState
      /\ UNCHANGED <<flush_queue_, sq, ops, cq, day, disk>>
  BY LoggerAssumption DEF Structure, TypeOK, JoinBackend, shared, ring, world
<1>2. /\ backend' \in BackendState /\ backend'.pc = backend.pc
      /\ backend'.today = backend.today /\ backend'.in_flight = backend.in_flight
      /\ backend'.stop = backend.stop
  BY <1>1 DEF JoinBackend, BackendState
<1>3. flush_queue_ = <<>> /\ backend.in_flight = 0
  BY <1>1 DEF Structure, Drained
<1>4. Referenced = {}
  BY <1>3, EmptyRing, SMTT(30) DEF Referenced, Range
<1>5. Free(front(Main)) /\ Free(back(Main))
  BY <1>1, <1>4, TwoBuffers DEF Structure, Flagged, Free
<1> QED
  BY <1>1, <1>2, <1>5, FreeKeeps

\* A step of the backend that leaves the queue, the ring and the buffers alone:
\* the hypotheses are what Drained says of its new state.
LEMMA BackendMoves ==
  ASSUME Structure, backend' \in BackendState,
         backend'.in_flight = backend.in_flight, backend'.stop = backend.stop,
         backend'.today \in Day, backend'.today <= day, backend'.pc # "start",
         backend'.pc \in {"last", "finish", "done"} => backend.stop,
         backend'.pc \in {"finish", "done"} => flush_queue_ = <<>>,
         backend'.pc = "done" => backend.in_flight = 0,
         UNCHANGED <<th, bufs, flush_queue_, sq, ops, cq, day, disk>>
  PROVE  Structure'
<1>1. TypeOK'
  BY DEF Structure, TypeOK
<1>2. OnePlace' /\ Flagged' /\ Counted'
  BY ReferencesStay
<1>3. FreeBuffers' /\ MainIsLast'
  BY DEF Structure, FreeBuffers, MainIsLast, Free, front, back
<1>4. Drained'
  BY DEF Structure, Drained
<1> QED
  BY <1>1, <1>2, <1>3, <1>4 DEF Structure

\* A buffer becomes free (handle_cqe, or a dequeue without a file).
LEMMA BufferFreed ==
  ASSUME TypeOK, NEW b \in Buf, bufs' = [bufs EXCEPT ![b] = Fresh]
  PROVE  /\ bufs' \in [Buf -> Buffer]
         /\ bufs'[b].lines = <<>> /\ ~bufs'[b].in_flight
         /\ \A c \in Buf : c # b => bufs'[c] = bufs[c]
<1>1. Fresh \in Buffer /\ Fresh.lines = <<>> /\ ~Fresh.in_flight
  BY SMTT(30) DEF Fresh, Buffer
<1>2. bufs \in [Buf -> Buffer]
  BY DEF TypeOK
<1> HIDE DEF Fresh
<1> QED
  BY <1>1, <1>2

\* Free buffers stay free.
LEMMA FreeingKeeps ==
  ASSUME Structure, UNCHANGED th,
         \A b \in Buf : bufs'[b].in_flight => bufs[b].in_flight
  PROVE  FreeBuffers'
<1>1. /\ TypeOK
      /\ \A t \in Thread : (front(t))' = front(t) /\ (back(t))' = back(t)
  BY DEF Structure, front, back
<1> QED
  BY <1>1, TwoBuffers DEF Structure, FreeBuffers, Free

\* handle_cqe.
LEMMA HandleCqeKeeps ==
  ASSUME Structure, cq # <<>>, HandleCqe,
         UNCHANGED <<th, flush_queue_, sq, ops, day, disk>>
  PROVE  Structure'
<1> DEFINE h == Head(cq)
<1>1. TypeOK /\ cq \in Seq(Write) /\ cq' = Tail(cq) /\ backend \in BackendState
  BY DEF Structure, TypeOK, HandleCqe
<1>2. /\ h \in Write /\ cq' \in Seq(Write) /\ Range(cq) = {h} \cup Range(cq')
      /\ Len(cq) \in Nat \ {0} /\ Len(cq') = Len(cq) - 1
  BY <1>1, TailSet, SMTT(30)
<1>3. Apart(cq') /\ \A y \in Range(cq') : y.buf[1] # h.buf[1]
  BY <1>1, ApartTail DEF Structure, OnePlace
<1>4. bufs' = [bufs EXCEPT ![h.buf] = Fresh] /\ h.buf \in Buf
  BY <1>2 DEF HandleCqe, Write
<1>5. Len(sq) \in Nat /\ Cardinality(ops) \in Nat
  BY <1>1, FS_CardinalityType, SMTT(30) DEF TypeOK
<1>6. backend.in_flight = Len(sq) + Cardinality(ops) + Len(cq)
  BY DEF Structure, Counted
<1>7. /\ backend' \in BackendState /\ backend'.in_flight = backend.in_flight - 1
      /\ backend'.pc = backend.pc /\ backend'.stop = backend.stop
      /\ backend'.today = backend.today
  <2> DEFINE n == backend.in_flight - 1
  <2>1. n \in Nat /\ n = backend.in_flight - 1 /\ backend' = [backend EXCEPT !.in_flight = n]
    BY <1>2, <1>5, <1>6, SMTT(30) DEF HandleCqe
  <2> HIDE DEF n
  <2> QED
    BY <1>1, <2>1 DEF BackendState
<1> HIDE DEF h
<1>8. /\ bufs' \in [Buf -> Buffer] /\ ~bufs'[h.buf].in_flight
      /\ \A c \in Buf : c # h.buf => bufs'[c] = bufs[c]
  BY <1>1, <1>4, BufferFreed
<1>9. TypeOK'
  BY <1>1, <1>2, <1>7, <1>8 DEF TypeOK
<1>10. OnePlace'
  BY <1>2, <1>3 DEF Structure, OnePlace, Writes
<1>11. Flagged'
  <2>1. /\ \A q \in Range(flush_queue_) : q.buf # h.buf
        /\ \A o \in Writes : o.buf = h.buf => o = h
        /\ h \notin Range(sq) /\ h \notin ops /\ h \notin Range(cq')
    BY <1>2, <1>3 DEF Structure, OnePlace, Writes
  <2>2. Referenced = Referenced' \cup {h.buf} /\ h.buf \notin Referenced'
    BY <1>2, <2>1 DEF Referenced, Writes
  <2> QED
    BY <1>4, <1>8, <2>2 DEF Structure, Flagged
<1>12. Counted'
  BY <1>2, <1>5, <1>6, <1>7, SMTT(30) DEF Counted
<1>13. FreeBuffers'
  BY <1>4, <1>8, FreeingKeeps
<1>14. MainIsLast'
  BY <1>7 DEF Structure, MainIsLast
<1>15. Drained'
  BY <1>2, <1>5, <1>6, <1>7, SMTT(30) DEF Structure, Drained
<1> QED
  BY <1>9, <1>10, <1>11, <1>12, <1>13, <1>14, <1>15 DEF Structure

\* dequeue and submit_buf.
LEMMA DequeueKeeps ==
  ASSUME Structure, BackendDequeue
  PROVE  Structure'
<1> DEFINE h == Head(flush_queue_)
           n == Len(bufs[h.buf].lines)
           x == [buf |-> h.buf, day |-> backend.today, off |-> backend.offset, len |-> n]
<1>1. /\ TypeOK /\ flush_queue_ \in Seq(Place) /\ flush_queue_ # <<>>
      /\ flush_queue_' = Tail(flush_queue_) /\ backend \in BackendState
      /\ backend.pc \in {"drain", "last"} /\ backend.today \in Day
      /\ UNCHANGED <<th, ops, cq, day, disk>>
  BY DEF Structure, TypeOK, BackendDequeue, ItemReady, world
<1>2. /\ h \in Place /\ flush_queue_' \in Seq(Place)
      /\ Range(flush_queue_) = {h} \cup Range(flush_queue_')
  BY <1>1, TailSet
<1>3. Apart(flush_queue_') /\ \A y \in Range(flush_queue_') : y.buf[1] # h.buf[1]
  BY <1>1, ApartTail DEF Structure, OnePlace
<1>4. h.buf \in Buf /\ bufs[h.buf] \in Buffer
  BY <1>1, <1>2 DEF Place, TypeOK
<1>5. n \in Nat
  BY <1>4, SMTT(30) DEF Buffer
<1>6. \A o \in Writes : o.buf[1] # h.buf[1]
  BY <1>2 DEF Structure, OnePlace
<1>7. CASE backend.open
  <2>1. /\ sq' = Append(sq, x) /\ UNCHANGED bufs
        /\ backend' = [backend EXCEPT !.offset = @ + n, !.in_flight = @ + 1]
    BY <1>7 DEF BackendDequeue
  <2> HIDE DEF n
  <2>2. x \in Write /\ x.buf = h.buf
    BY <1>1, <1>4, <1>5 DEF Write, BackendState
  <2>3. /\ backend' \in BackendState /\ backend'.pc = backend.pc
        /\ backend'.today = backend.today /\ backend'.stop = backend.stop
        /\ backend'.in_flight = backend.in_flight + 1
    <3> DEFINE o == backend.offset + n
               i == backend.in_flight + 1
    <3>1. o \in Nat /\ i \in Nat /\ i = backend.in_flight + 1
      BY <1>1, <1>5, SMTT(30) DEF BackendState
    <3>2. backend' = [backend EXCEPT !.offset = o, !.in_flight = i]
      BY <2>1
    <3> HIDE DEF o, i
    <3> QED
      BY <1>1, <3>1, <3>2 DEF BackendState
  <2> HIDE DEF x, h
  <2>4. /\ sq \in Seq(Write) /\ sq' \in Seq(Write) /\ Range(sq') = Range(sq) \cup {x}
        /\ Len(sq) \in Nat /\ Len(sq') = Len(sq) + 1
    BY <1>1, <2>1, <2>2, AppendSet, SMTT(30) DEF TypeOK
  <2>5. Apart(sq')
    BY <1>6, <2>1, <2>2, <2>4, ApartAppend DEF Structure, OnePlace, Writes
  <2>6. TypeOK'
    BY <1>1, <1>2, <2>1, <2>3, <2>4 DEF TypeOK
  <2>7. Writes' = Writes \cup {x}
    BY <1>1, <2>4 DEF Writes
  <2>8. OnePlace'
    <3>1. x \notin Writes
      BY <1>6, <2>2
    <3>2. /\ Range(sq') \cap ops' = {} /\ Range(sq') \cap Range(cq') = {}
          /\ ops' \cap Range(cq') = {}
      BY <1>1, <2>4, <3>1, SMTT(30) DEF Structure, OnePlace, Writes
    <3>3. \A o, p \in Writes' : o.buf[1] = p.buf[1] => o = p
      BY <1>6, <2>2, <2>7 DEF Structure, OnePlace
    <3>4. \A q \in Range(flush_queue_') : \A o \in Writes' : q.buf[1] # o.buf[1]
      BY <1>2, <1>3, <2>2, <2>7 DEF Structure, OnePlace
    <3>5. Apart(cq')
      BY <1>1 DEF Structure, OnePlace
    <3> QED
      BY <1>3, <2>5, <3>2, <3>3, <3>4, <3>5 DEF OnePlace
  <2>9. Flagged'
    <3>1. Referenced' = Referenced
      BY <1>1, <1>2, <2>2, <2>4 DEF Referenced
    <3> QED
      BY <2>1, <3>1 DEF Structure, Flagged
  <2>10. Counted'
    <3>1. Cardinality(ops) \in Nat /\ Len(cq) \in Nat
      BY <1>1, FS_CardinalityType, SMTT(30) DEF TypeOK
    <3> QED
      BY <1>1, <2>3, <2>4, <3>1, SMTT(30) DEF Structure, Counted
  <2>11. FreeBuffers' /\ MainIsLast'
    BY <1>1, <2>1, <2>3, FreeingKeeps DEF Structure, MainIsLast
  <2>12. Drained'
    <3>1. \A q \in Range(flush_queue_') : q.ready \/ th'[q.buf[1]].pc = "publish"
      BY <1>1, <1>2 DEF Structure, Drained
    <3> QED
      BY <1>1, <2>3, <3>1 DEF Structure, Drained
  <2> QED
    BY <2>6, <2>8, <2>9, <2>10, <2>11, <2>12 DEF Structure
<1>8. CASE ~backend.open
  <2>1. bufs' = [bufs EXCEPT ![h.buf] = Fresh] /\ UNCHANGED <<sq, backend>>
    BY <1>8 DEF BackendDequeue
  <2> HIDE DEF h
  <2>2. /\ bufs' \in [Buf -> Buffer] /\ ~bufs'[h.buf].in_flight
        /\ \A c \in Buf : c # h.buf => bufs'[c] = bufs[c]
    BY <1>1, <1>4, <2>1, BufferFreed
  <2>3. TypeOK'
    BY <1>1, <1>2, <2>1, <2>2 DEF TypeOK
  <2>4. OnePlace'
    BY <1>1, <1>2, <1>3, <2>1 DEF Structure, OnePlace, Writes
  <2>5. Flagged'
    <3>1. Referenced = Referenced' \cup {h.buf} /\ h.buf \notin Referenced'
      BY <1>1, <1>2, <1>3, <1>6, <2>1 DEF Referenced, Writes
    <3> QED
      BY <1>4, <2>2, <3>1 DEF Structure, Flagged
  <2>6. Counted'
    BY <1>1, <2>1 DEF Structure, Counted
  <2>7. FreeBuffers' /\ MainIsLast'
    BY <1>1, <1>4, <2>1, <2>2, FreeingKeeps DEF Structure, MainIsLast
  <2>8. Drained'
    BY <1>1, <1>2, <2>1 DEF Structure, Drained
  <2> QED
    BY <2>3, <2>4, <2>5, <2>6, <2>7, <2>8 DEF Structure
<1> QED
  BY <1>7, <1>8

\* submit: what is prepared runs.
LEMMA SubmitKeeps ==
  ASSUME Structure, BackendSubmit
  PROVE  Structure'
<1> DEFINE next == IF backend.pc = "drain" THEN "reap" ELSE "finish"
<1>1. /\ TypeOK /\ backend \in BackendState /\ backend.pc \in {"drain", "last"}
      /\ ops' = ops \cup Range(sq) /\ sq' = <<>>
      /\ UNCHANGED <<th, bufs, flush_queue_, cq, day, disk>>
  BY DEF Structure, TypeOK, BackendSubmit, Goto, shared, world
<1>2. /\ next \in {"reap", "finish"} /\ (next = "finish" => backend.pc = "last")
      /\ backend' = [backend EXCEPT !.pc = next]
  BY <1>1 DEF BackendSubmit, Goto
<1> HIDE DEF next
<1>3. /\ backend' \in BackendState /\ backend'.pc = next
      /\ backend'.today = backend.today /\ backend'.stop = backend.stop
      /\ backend'.in_flight = backend.in_flight
  BY <1>1, <1>2 DEF BackendState
<1>4. /\ Range(sq) \in SUBSET Write /\ IsFiniteSet(Range(sq))
      /\ Cardinality(Range(sq)) = Len(sq) /\ Len(sq) \in Nat
  <2>1. sq \in Seq(Write) /\ Apart(sq)
    BY <1>1 DEF TypeOK, Structure, OnePlace
  <2>2. Range(sq) \in SUBSET Write /\ Len(sq) \in Nat
    BY <2>1, SMTT(30) DEF Range
  <2> QED
    BY <2>1, <2>2, ApartCount
<1>5. /\ IsFiniteSet(ops) /\ Cardinality(ops) \in Nat /\ Len(cq) \in Nat
      /\ ops \cap Range(sq) = {}
  BY <1>1, FS_CardinalityType, SMTT(30) DEF TypeOK, Structure, OnePlace
<1>6. IsFiniteSet(ops') /\ Cardinality(ops') = Cardinality(ops) + Len(sq)
  <2>1. /\ IsFiniteSet(ops \cup Range(sq))
        /\ Cardinality(ops \cup Range(sq)) =
             Cardinality(ops) + Cardinality(Range(sq)) - Cardinality(ops \cap Range(sq))
    BY <1>4, <1>5, FS_Union
  <2>2. Cardinality(ops \cap Range(sq)) = 0
    BY <1>5, FS_EmptySet
  <2> QED
    BY <1>1, <1>4, <1>5, <2>1, <2>2, SMTT(30)
<1>7. /\ Range(sq') = {} /\ sq' \in Seq(Write) /\ Len(sq') = 0 /\ Apart(sq')
      /\ Writes' = Writes
  <2>1. DOMAIN sq' = {} /\ sq' \in Seq(Write) /\ Len(sq') = 0
    BY <1>1, SMTT(30)
  <2>2. Range(sq') = {} /\ Apart(sq')
    BY <2>1 DEF Range, Apart
  <2> QED
    BY <1>1, <2>1, <2>2 DEF Writes
<1>8. TypeOK'
  BY <1>1, <1>2, <1>3, <1>4, <1>6, <1>7 DEF TypeOK
<1>9. OnePlace'
  BY <1>1, <1>7 DEF Structure, OnePlace
<1>10. Flagged' /\ Counted'
  <2>1. Referenced' = Referenced
    BY <1>1, <1>7 DEF Referenced
  <2> QED
    BY <1>1, <1>3, <1>4, <1>5, <1>6, <1>7, <2>1, SMTT(30) DEF Structure, Flagged, Counted
<1>11. FreeBuffers' /\ MainIsLast'
  BY <1>1, <1>3, FreeingKeeps DEF Structure, MainIsLast
<1>12. Drained'
  <2>1. ASSUME next = "finish"
        PROVE  flush_queue_ = <<>> /\ backend.stop
    <3>1. backend.pc = "last" /\ backend.stop /\ ~ItemReady
      BY <1>2, <2>1 DEF Structure, Drained, BackendSubmit
    <3>2. th[Main].pc \in {"join", "gone"} /\ \A u \in Thread : th[u].pc # "publish"
      BY <3>1, RunningMeansRounds, LoggerAssumption DEF Structure, MainIsLast
    <3>3. ASSUME flush_queue_ # <<>>
          PROVE  FALSE
      <4>1. Head(flush_queue_) \in Range(flush_queue_) /\ ~Head(flush_queue_).ready
        BY <1>1, <3>1, <3>3, TailSet DEF ItemReady, TypeOK
      <4>2. th[Head(flush_queue_).buf[1]].pc = "publish"
        BY <4>1 DEF Structure, Drained
      <4> QED
        BY <1>1, <3>2, <4>1, <4>2, ElementTypes, TwoBuffers
    <3> QED
      BY <3>1, <3>3
  <2> QED
    BY <1>1, <1>2, <1>3, <2>1 DEF Structure, Drained
<1> QED
  BY <1>8, <1>9, <1>10, <1>11, <1>12 DEF Structure

\* What a write at offset off leaves in file f.
LEMMA WriteAtEffect ==
  ASSUME NEW S, Hole \in S, NEW f \in Seq(S), NEW off \in Nat, NEW data \in Seq(S)
  PROVE  LET w == WriteAt(f, off, data)
         IN  /\ w \in Seq(S)
             /\ Len(w) >= Len(f) /\ Len(w) >= off + Len(data)
             /\ Len(w) = Len(f) \/ Len(w) = off + Len(data)
             /\ DOMAIN w = 1..Len(w)
             /\ \A k \in 1..Len(data) : off + k \in 1..Len(w) /\ w[off + k] = data[k]
             /\ \A k \in 1..Len(w) : \/ k - off \in 1..Len(data) /\ w[k] = data[k - off]
                                     \/ /\ ~(off < k /\ k <= off + Len(data))
                                        /\ \/ k \in 1..Len(f) /\ w[k] = f[k]
                                           \/ k \notin 1..Len(f) /\ w[k] = Hole
<1> DEFINE n == IF Len(f) < off + Len(data) THEN off + Len(data) ELSE Len(f)
           v(k) == IF k \in off + 1..off + Len(data) THEN data[k - off]
                   ELSE IF k <= Len(f) THEN f[k] ELSE Hole
           w == WriteAt(f, off, data)
<1>1. Len(f) \in Nat /\ Len(data) \in Nat
  BY SMTT(30)
<1>2. w = [k \in 1..n |-> v(k)]
  BY DEF WriteAt
<1>3. /\ n \in Nat /\ n >= Len(f) /\ n >= off + Len(data)
      /\ n = Len(f) \/ n = off + Len(data)
  BY <1>1, SMTT(30)
<1> HIDE DEF n
<1>4. ASSUME NEW k \in 1..n
      PROVE  \/ k - off \in 1..Len(data) /\ v(k) = data[k - off]
             \/ /\ ~(off < k /\ k <= off + Len(data))
                /\ \/ k \in 1..Len(f) /\ v(k) = f[k]
                   \/ k \notin 1..Len(f) /\ v(k) = Hole
  BY <1>1, <1>3, SMTT(30)
<1>5. ASSUME NEW k \in 1..Len(data)
      PROVE  off + k \in 1..n /\ v(off + k) = data[k]
  <2>1. off + k \in 1..n /\ off + k \in off + 1..off + Len(data) /\ (off + k) - off = k
    BY <1>1, <1>3, SMTT(30)
  <2> QED
    BY <2>1
<1> HIDE DEF v
<1>6. \A k \in 1..n : v(k) \in S
  BY <1>1, <1>4, SMTT(30)
<1>7. w \in Seq(S) /\ Len(w) = n /\ DOMAIN w = 1..n /\ \A k \in 1..n : w[k] = v(k)
  BY <1>2, <1>3, <1>6, SMTT(30)
<1> HIDE DEF w
<1>8. /\ Len(w) >= Len(f) /\ Len(w) >= off + Len(data)
      /\ Len(w) = Len(f) \/ Len(w) = off + Len(data)
  BY <1>3, <1>7
<1>9. \A k \in 1..Len(data) : off + k \in 1..Len(w) /\ w[off + k] = data[k]
  BY <1>5, <1>7
<1>10. \A k \in 1..Len(w) : \/ k - off \in 1..Len(data) /\ w[k] = data[k - off]
                            \/ /\ ~(off < k /\ k <= off + Len(data))
                               /\ \/ k \in 1..Len(f) /\ w[k] = f[k]
                                  \/ k \notin 1..Len(f) /\ w[k] = Hole
  BY <1>4, <1>7
<1> QED
  BY <1>7, <1>8, <1>9, <1>10 DEF w

\* What is in the files.
Cell == Line \cup {Hole, Earlier}

\* What the kernel reads from a buffer.
LEMMA MemoryType ==
  ASSUME TypeOK, NEW o \in Write, NEW n \in Nat
  PROVE  Memory(o.buf, n) \in Seq(Cell)
<1>1. o.buf \in Buf
  BY DEF Write
<1>2. bufs[o.buf].lines \in Seq(Line)
  BY <1>1 DEF TypeOK, Buffer
<1> DEFINE v(k) == IF k <= Len(bufs[o.buf].lines) THEN bufs[o.buf].lines[k] ELSE Hole
<1>3. \A k \in 1..n : v(k) \in Cell
  BY <1>1, <1>2, SMTT(30) DEF Cell
<1>4. Memory(o.buf, n) = [k \in 1..n |-> v(k)]
  BY DEF Memory
<1> HIDE DEF v
<1> QED
  BY <1>1, <1>3, <1>4, SMTT(30)

\* A write ends.
LEMMA KernelWriteKeeps ==
  ASSUME Structure, NEW o \in ops, ops' = ops \ {o}, cq' = Append(cq, o),
         NEW n \in 0..o.len,
         disk' = IF n = 0 THEN disk
                 ELSE [disk EXCEPT ![o.day] = WriteAt(@, o.off, Memory(o.buf, n))],
         UNCHANGED <<th, bufs, flush_queue_, backend, sq, day>>
  PROVE  Structure'
<1>1. TypeOK /\ o \in Write /\ cq \in Seq(Write) /\ IsFiniteSet(ops) /\ o \in Writes
  BY DEF Structure, TypeOK, Writes
<1>2. /\ cq' \in Seq(Write) /\ Range(cq') = Range(cq) \cup {o}
      /\ Len(cq) \in Nat /\ Len(cq') = Len(cq) + 1
  BY <1>1, AppendSet, SMTT(30)
<1>3. /\ IsFiniteSet(ops') /\ Cardinality(ops') = Cardinality(ops) - 1
      /\ Cardinality(ops) \in Nat /\ Len(sq) \in Nat
  BY <1>1, FS_RemoveElement, FS_CardinalityType, SMTT(30) DEF TypeOK
<1>4. disk' \in [Day -> Seq(Cell)]
  <2>1. disk \in [Day -> Seq(Cell)] /\ o.day \in Day /\ o.off \in Nat /\ Hole \in Cell
    BY <1>1 DEF TypeOK, Cell, Write
  <2>2. WriteAt(disk[o.day], o.off, Memory(o.buf, n)) \in Seq(Cell)
    <3>1. n \in Nat
      BY <1>1, SMTT(30) DEF Write
    <3> QED
      BY <1>1, <2>1, <3>1, MemoryType, WriteAtEffect
  <2> QED
    BY <2>1, <2>2
<1>5. TypeOK'
  BY <1>1, <1>2, <1>3, <1>4 DEF TypeOK, Cell
<1>6. Writes' = Writes
  BY <1>1, <1>2 DEF Writes
<1>7. Apart(cq')
  <2>1. \A y \in Range(cq) : y.buf[1] # o.buf[1]
    BY <1>1 DEF Structure, OnePlace, Writes
  <2> QED
    BY <1>1, <2>1, ApartAppend DEF Structure, OnePlace
<1>8. OnePlace'
  <2>1. /\ Range(sq') \cap ops' = {} /\ Range(sq') \cap Range(cq') = {}
        /\ ops' \cap Range(cq') = {}
    BY <1>2 DEF Structure, OnePlace
  <2> QED
    BY <1>6, <1>7, <2>1 DEF Structure, OnePlace
<1>9. Flagged'
  <2>1. Referenced' = Referenced
    BY <1>6 DEF Referenced, Writes
  <2> QED
    BY <2>1 DEF Structure, Flagged
<1>10. Counted'
  <2>1. backend.in_flight = Len(sq) + Cardinality(ops) + Len(cq)
    BY DEF Structure, Counted
  <2>2. Len(sq) + Cardinality(ops) + Len(cq) = Len(sq) + Cardinality(ops') + Len(cq')
    BY <1>2, <1>3, SMTT(30)
  <2> QED
    BY <2>1, <2>2 DEF Counted
<1>11. FreeBuffers' /\ MainIsLast' /\ Drained'
  BY FreeingKeeps DEF Structure, MainIsLast, Drained
<1> QED
  BY <1>5, <1>8, <1>9, <1>10, <1>11 DEF Structure

\* The days of the calendar; today_ is 0 before the first.
LEMMA DayRange ==
  /\ MaxDay \in Nat /\ 1 \in Day /\ 0 \notin Day
  /\ \A d \in Day : d \in Nat /\ 1 <= d /\ d <= d /\ d \in 0..MaxDay
  /\ \A d \in Day : d < MaxDay => d + 1 \in Day
<1>1. MaxDay \in Nat \ {0}
  BY LoggerAssumption
<1> QED
  BY <1>1, SMTT(30) DEF Day

\* switch_log_file_date.
LEMMA SwitchFileEffect ==
  ASSUME TypeOK, NEW today \in Day, NEW next \in {"check", "acquire"},
         SwitchFile(today, next)
  PROVE  /\ backend' \in BackendState /\ backend'.pc = next /\ backend'.today = today
         /\ backend'.in_flight = backend.in_flight /\ backend'.stop = backend.stop
         /\ backend'.open => backend'.offset = Len(disk[today])
<1>1. backend \in BackendState /\ Len(disk[today]) \in Nat /\ today \in 0..MaxDay
  <2>1. backend \in BackendState /\ disk[today] \in Seq(Line \cup {Hole, Earlier})
    BY DEF TypeOK
  <2>2. today \in 0..MaxDay
    BY DayRange
  <2> QED
    BY <2>1, <2>2, SMTT(30)
<1>2. CASE backend' = [backend EXCEPT !.pc = next, !.today = today, !.open = TRUE,
                                      !.offset = Len(disk[today])]
  <2> DEFINE n == Len(disk[today])
  <2> HIDE DEF n
  <2>1. n \in Nat /\ n = Len(disk[today])
    BY <1>1 DEF n
  <2>2. backend' = [backend EXCEPT !.pc = next, !.today = today, !.open = TRUE, !.offset = n]
    BY <1>2, <2>1
  <2> QED
    BY <1>1, <2>1, <2>2 DEF BackendState
<1>3. CASE backend' = [backend EXCEPT !.pc = next, !.today = today, !.open = FALSE]
  BY <1>1, <1>3 DEF BackendState
<1> QED
  BY <1>2, <1>3 DEF SwitchFile

\* The backend goes on to another point of its loop.
LEMMA GotoEffect ==
  ASSUME TypeOK, backend.pc # "start",
         NEW next \in {"acquire", "drain", "reap", "check", "last", "finish", "done"},
         Goto(next)
  PROVE  /\ backend' \in BackendState /\ backend'.pc = next
         /\ backend'.today = backend.today /\ backend'.in_flight = backend.in_flight
         /\ backend'.stop = backend.stop /\ backend'.open = backend.open
         /\ backend'.offset = backend.offset
         /\ backend'.today \in Day /\ backend'.today <= day /\ UNCHANGED <<bufs, cq>>
<1>1. backend \in BackendState /\ backend.today \in Day /\ backend.today <= day
  BY DEF TypeOK
<1>2. /\ backend' \in BackendState /\ backend'.pc = next
      /\ backend'.today = backend.today /\ backend'.in_flight = backend.in_flight
      /\ backend'.stop = backend.stop /\ backend'.open = backend.open
      /\ backend'.offset = backend.offset
  BY <1>1 DEF Goto, BackendState
<1> QED
  BY <1>1, <1>2 DEF Goto

\* The wait for the writes of the ring finds one in cq.
LEMMA AwaitedIsThere ==
  ASSUME TypeOK, AwaitWrites
  PROVE  cq # <<>> /\ HandleCqe
BY SMTT(30) DEF TypeOK, BackendState, AwaitWrites

\* The first file, the top of the loop and acquire.
LEMMA BackendWaitKeeps ==
  ASSUME Structure, BackendWait
  PROVE  Structure'
<1>1. /\ TypeOK /\ UNCHANGED <<th, flush_queue_, sq, ops, day, disk>> /\ day \in Day
      /\ backend \in BackendState
  BY DEF BackendWait, world, Structure, TypeOK
<1>2. CASE /\ backend.pc = "start" /\ SwitchFile(day, "check") /\ UNCHANGED <<bufs, cq>>
  <2>1. /\ backend' \in BackendState /\ backend'.pc = "check" /\ backend'.today = day
        /\ backend'.in_flight = backend.in_flight /\ backend'.stop = backend.stop
    BY <1>1, <1>2, SwitchFileEffect
  <2>2. backend'.today <= day
    BY <1>1, <2>1, SMTT(30) DEF Day
  <2> QED
    BY <1>1, <1>2, <2>1, <2>2, BackendMoves
<1>3. CASE backend.pc = "check" /\ backend.stop /\ Goto("drain")
  <2>1. TypeOK /\ backend.pc # "start"
    BY <1>1, <1>3
  <2> QED
    BY <1>1, <1>3, <2>1, GotoEffect, BackendMoves
<1>4. CASE backend.pc = "check" /\ ~backend.stop /\ Goto("acquire")
  BY <1>1, <1>4, GotoEffect, BackendMoves
<1>5. CASE /\ backend.pc = "check" /\ ~backend.stop
           /\ backend' = [backend EXCEPT !.pc = "rotate", !.today = day]
           /\ UNCHANGED <<bufs, cq>>
  <2>1. day \in 0..MaxDay /\ day <= day
    BY <1>1, DayRange
  <2>2. /\ backend' \in BackendState /\ backend'.pc = "rotate" /\ backend'.today = day
        /\ backend'.in_flight = backend.in_flight /\ backend'.stop = backend.stop
    <3>1. ASSUME NEW d \in 0..MaxDay, backend' = [backend EXCEPT !.pc = "rotate", !.today = d]
          PROVE  /\ backend' \in BackendState /\ backend'.pc = "rotate" /\ backend'.today = d
                 /\ backend'.in_flight = backend.in_flight /\ backend'.stop = backend.stop
      BY <1>1, <3>1 DEF BackendState
    <3> QED
      BY <1>5, <2>1, <3>1
  <2> QED
    BY <1>1, <1>5, <2>1, <2>2, BackendMoves
<1>6. CASE backend.pc = "rotate" /\ AwaitWrites
  BY <1>1, <1>6, AwaitedIsThere, HandleCqeKeeps
<1>7. CASE /\ backend.pc = "rotate" /\ SwitchFile(backend.today, "acquire")
           /\ UNCHANGED <<bufs, cq>>
  <2>1. backend.today \in Day /\ backend.today <= day
    BY <1>1, <1>7 DEF TypeOK
  <2>2. /\ backend' \in BackendState /\ backend'.pc = "acquire"
        /\ backend'.today = backend.today
        /\ backend'.in_flight = backend.in_flight /\ backend'.stop = backend.stop
    BY <1>1, <1>7, <2>1, SwitchFileEffect
  <2> QED
    BY <1>1, <1>7, <2>1, <2>2, BackendMoves
<1>8. CASE backend.pc = "acquire" /\ Goto("drain")
  BY <1>1, <1>8, GotoEffect, BackendMoves
<1> QED
  BY <1>2, <1>3, <1>4, <1>5, <1>6, <1>7, <1>8 DEF BackendWait

\* peek_cqe, the test of the stop token, and the wait after a stop.
LEMMA BackendReapKeeps ==
  ASSUME Structure, BackendReap
  PROVE  Structure'
<1>1. TypeOK /\ UNCHANGED <<th, flush_queue_, sq, ops, day, disk>>
  BY DEF BackendReap, shared, world, Structure
<1>2. CASE cq # <<>> /\ HandleCqe
  BY <1>1, <1>2, HandleCqeKeeps
<1>3. CASE backend.pc = "reap" /\ Goto(IF backend.stop THEN "last" ELSE "check")
  <2> DEFINE next == IF backend.stop THEN "last" ELSE "check"
  <2>1. next \in {"last", "check"} /\ (next = "last" => backend.stop) /\ Goto(next)
    BY <1>3
  <2> HIDE DEF next
  <2> QED
    BY <1>1, <1>3, <2>1, GotoEffect, BackendMoves
<1>4. CASE backend.pc = "finish" /\ AwaitWrites
  BY <1>1, <1>4, AwaitedIsThere, HandleCqeKeeps
<1>5. CASE backend.pc = "finish" /\ backend.in_flight = 0 /\ Goto("done")
  <2>1. flush_queue_ = <<>> /\ backend.stop
    BY <1>5 DEF Structure, Drained
  <2> QED
    BY <1>1, <1>5, <2>1, GotoEffect, BackendMoves
<1> QED
  BY <1>2, <1>3, <1>4, <1>5 DEF BackendReap

\* Midnight.
LEMMA MidnightKeeps ==
  ASSUME Structure, Midnight
  PROVE  Structure'
<1>1. /\ UNCHANGED <<th, bufs, flush_queue_, backend, sq, ops, cq, disk>>
      /\ day \in Day /\ day < MaxDay /\ day' = day + 1 /\ backend.today \in 0..MaxDay
      /\ backend.today <= day
  BY DEF Midnight, shared, ring, Structure, TypeOK, BackendState
<1>2. day' \in Day /\ backend.today <= day'
  BY <1>1, DayRange, SMTT(30)
<1>3. TypeOK'
  BY <1>1, <1>2 DEF Structure, TypeOK
<1>4. OnePlace' /\ Flagged' /\ Counted'
  BY <1>1, ReferencesStay
<1>5. FreeBuffers' /\ MainIsLast' /\ Drained'
  BY <1>1, FreeingKeeps DEF Structure, MainIsLast, Drained
<1> QED
  BY <1>3, <1>4, <1>5 DEF Structure

\* The initial state.
LEMMA StructureInit == Init => Structure
<1> SUFFICES ASSUME Init PROVE Structure
  OBVIOUS
<1>1. /\ flush_queue_ = <<>> /\ sq = <<>> /\ cq = <<>> /\ ops = {}
      /\ Range(flush_queue_) = {} /\ Range(sq) = {} /\ Range(cq) = {}
  BY SMTT(30) DEF Init, Range
<1>2. TypeOK
  <2>1. th \in [Thread -> ThreadState]
    BY DEF Init, ThreadState
  <2>2. bufs \in [Buf -> Buffer]
    BY SMTT(30) DEF Init, Fresh, Buffer
  <2>3. backend \in BackendState
    BY DayRange, SMTT(30) DEF Init, BackendState
  <2>4. /\ backend.today <= day /\ day \in Day
        /\ backend.pc = "start" /\ backend.today \notin Day
    BY DayRange, SMTT(30) DEF Init
  <2>5. disk \in [Day -> Seq(Line \cup {Hole, Earlier})]
    <3>1. /\ <<>> \in Seq(Line \cup {Hole, Earlier})
          /\ <<Earlier>> \in Seq(Line \cup {Hole, Earlier})
      BY SMTT(30)
    <3> QED
      BY <3>1 DEF Init
  <2> QED
    BY <1>1, <2>1, <2>2, <2>3, <2>4, <2>5, FS_EmptySet, SMTT(30) DEF TypeOK
<1>3. OnePlace
  BY <1>1, SMTT(30) DEF OnePlace, Apart, Writes
<1>4. Flagged
  BY <1>1 DEF Flagged, Referenced, Init, Fresh
<1>5. Counted
  BY <1>1, FS_EmptySet, SMTT(30) DEF Counted, Init
<1>6. FreeBuffers
  <2>1. \A t \in Thread : front(t) \in Buf
    BY <1>2, TwoBuffers
  <2> QED
    BY <2>1 DEF FreeBuffers, Free, Init, Fresh
<1>7. MainIsLast /\ Drained
  BY <1>1, LoggerAssumption DEF MainIsLast, Drained, Init
<1> QED
  BY <1>2, <1>3, <1>4, <1>5, <1>6, <1>7 DEF Structure

\* A line is logged, with or without a hand-over.
LEMMA LogLineKeeps ==
  ASSUME Structure, NEW t \in Thread, NEW late \in BOOLEAN, LogLine(t, late)
  PROVE  Structure'
<1>1. th[t].pc = "run" /\ UNCHANGED <<backend, ring, world, disk>>
  BY DEF LogLine
<1>2. CASE ClaimFront(t, "append")
  BY <1>1, <1>2, ClaimKeeps
<1>3. CASE /\ th' = [th EXCEPT ![t].count = @ + 1]
           /\ \/ bufs' = [bufs EXCEPT ![front(t)].lines = Append(@, NextLine(t))]
              \/ UNCHANGED bufs
           /\ UNCHANGED shared
  BY <1>1, <1>3, LogKeeps
<1> QED
  BY <1>2, <1>3 DEF LogLine

\* Every step keeps the references.
LEMMA StructureStep == Structure /\ [Next]_vars => Structure'
<1> SUFFICES ASSUME Structure, [Next]_vars PROVE Structure'
  OBVIOUS
<1>1. ASSUME NEW t \in Thread, NEW late \in BOOLEAN, LogLine(t, late)
      PROVE  Structure'
  BY <1>1, LogLineKeeps
<1>2. ASSUME NEW t \in Thread, Publish(t)
      PROVE  Structure'
  BY <1>2, PublishKeeps
<1>3. ASSUME NEW t \in Thread, Release(t)
      PROVE  Structure'
  BY <1>3, ReleaseKeeps
<1>4. ASSUME NEW t \in Thread, ExitThread(t)
      PROVE  Structure'
  <2>1. /\ th[t].pc = "run" /\ th[t].guarded /\ UNCHANGED <<backend, ring, world, disk>>
        /\ t = Main => \A u \in Thread \ {Main} : th[u].pc = "gone"
    BY <1>4 DEF ExitThread
  <2>2. CASE ClaimFront(t, "exit")
    BY <2>1, <2>2, ClaimKeeps
  <2>3. CASE /\ th' = [th EXCEPT ![t].pc = "wait", ![t].guarded = FALSE]
             /\ UNCHANGED <<bufs, shared>>
    <3>1. UNCHANGED <<bufs, flush_queue_, backend, sq, ops, cq, day, disk>>
      BY <2>1, <2>3 DEF shared, ring, world
    <3> QED
      BY <2>1, <2>3, <3>1, ExitKeeps
  <2> QED
    BY <1>4, <2>2, <2>3 DEF ExitThread
<1>5. ASSUME NEW t \in Thread, DeleteState(t)
      PROVE  Structure'
  BY <1>5, DeleteKeeps
<1>6. ASSUME DestroyLogger
      PROVE  Structure'
  <2>1. /\ th[Main].pc = "run" /\ ~th[Main].guarded /\ Main \in Thread
        /\ UNCHANGED <<backend, ring, world, disk>>
        /\ \A u \in Thread \ {Main} : th[u].pc = "gone"
    BY <1>6, LoggerAssumption DEF DestroyLogger, Structure, MainIsLast
  <2>2. CASE ClaimFront(Main, "dtor")
    BY <2>1, <2>2, ClaimKeeps
  <2>3. CASE th' = [th EXCEPT ![Main].pc = "stop"] /\ UNCHANGED <<bufs, shared>>
    <3>1. UNCHANGED <<bufs, flush_queue_, backend, sq, ops, cq, day, disk>>
      BY <2>1, <2>3 DEF shared, ring, world
    <3> QED
      BY <2>1, <2>3, <3>1, DestroyKeeps
  <2> QED
    BY <1>6, <2>2, <2>3 DEF DestroyLogger
<1>7. ASSUME StopBackend \/ JoinBackend
      PROVE  Structure'
  BY <1>7, StopKeeps, JoinKeeps
<1>8. ASSUME Backend
      PROVE  Structure'
  BY <1>8, BackendWaitKeeps, DequeueKeeps, SubmitKeeps, BackendReapKeeps DEF Backend
<1>9. ASSUME KernelWrite
      PROVE  Structure'
  <2>1. PICK o \in ops : \E n \in 0..o.len :
          /\ ops' = ops \ {o} /\ cq' = Append(cq, o)
          /\ disk' = IF n = 0 THEN disk
                     ELSE [disk EXCEPT ![o.day] = WriteAt(@, o.off, Memory(o.buf, n))]
    BY <1>9 DEF KernelWrite
  <2>2. UNCHANGED <<th, bufs, flush_queue_, backend, sq, day>>
    BY <1>9 DEF KernelWrite, shared, world
  <2> QED
    BY <2>1, <2>2, KernelWriteKeeps
<1>10. ASSUME Midnight
       PROVE  Structure'
  BY <1>10, MidnightKeeps
<1>11. ASSUME UNCHANGED vars
       PROVE  Structure'
  <2>1. UNCHANGED <<th, bufs, flush_queue_, backend, sq, ops, cq, day, disk>>
    BY <1>11 DEF vars, shared, ring, world
  <2>2. TypeOK' /\ OnePlace' /\ Flagged' /\ Counted'
    BY <2>1, ReferencesStay DEF Structure, TypeOK
  <2>3. FreeBuffers' /\ MainIsLast' /\ Drained'
    BY <2>1, FreeingKeeps DEF Structure, MainIsLast, Drained
  <2> QED
    BY <2>2, <2>3 DEF Structure
<1> QED
  BY <1>1, <1>2, <1>3, <1>4, <1>5, <1>6, <1>7, <1>8, <1>9, <1>10, <1>11 DEF Next

\* A buffer is referred to by the queue, the ring or the kernel exactly while
\* its in_flight_ is set; no thread logs into it or frees it meanwhile.
THEOREM BuffersInFlightAreLeftAlone == Spec => []InFlightExact
<1>1. Structure => InFlightExact
  <2> SUFFICES ASSUME Structure, NEW b \in Buf, b \in Referenced
               PROVE  th[b[1]].pc # "gone" /\ (th[b[1]].pc = "run" => b # front(b[1]))
    BY DEF Structure, Flagged, InFlightExact
  <2>1. ~Free(b) /\ b[1] \in Thread /\ b \in {front(b[1]), back(b[1])}
    BY TwoBuffers DEF Structure, Flagged, Free
  <2> QED
    BY <2>1 DEF Structure, FreeBuffers
<1> QED
  BY <1>1, StructureInit, StructureStep, PTL DEF Spec

\* in_flight_ counts the writes of the ring, and a thread has at most one
\* buffer in flight (backend_loop, append in src/src/util/log.cpp).
THEOREM RingIsNeverOverrun == Spec => []RingFits
<1>1. Structure => RingFits
  <2> SUFFICES ASSUME Structure, NEW t \in Thread,
                      bufs[<<t, 0>>].in_flight, bufs[<<t, 1>>].in_flight
               PROVE  FALSE
    BY DEF Structure, Counted, RingFits
  <2>1. <<t, 0>> \in Referenced /\ <<t, 1>> \in Referenced
    BY DEF Structure, Flagged, Buf
  <2>2. \A a, b \in Referenced : a[1] = b[1] => a = b
    <3>1. \A p, q \in Range(flush_queue_) : p.buf[1] = q.buf[1] => p = q
      BY DEF Structure, OnePlace, Apart, Range
    <3> QED
      BY <3>1 DEF Structure, OnePlace, Referenced, Writes
  <2> QED
    BY <2>1, <2>2, SMTT(30)
<1> QED
  BY <1>1, StructureInit, StructureStep, PTL DEF Spec
-----------------------------------------------------------------------------
(***************************************************************************)
(* The lines.  Most steps leave the files alone and log nothing; at most   *)
(* they empty buffers.                                                     *)
(***************************************************************************)
\* The buffers of E are emptied after their lines were saved or given up.
LEMMA EmptyingKeeps ==
  ASSUME Inv, NEW E \in SUBSET Buf, UNCHANGED disk,
         \A b \in E : /\ bufs'[b].lines = <<>>
                      /\ \A l \in Range(bufs[b].lines) : OnDisk(l) \/ l \in dropped',
         \A b \in Buf \ E : /\ bufs'[b].lines = bufs[b].lines
                            /\ ~bufs'[b].in_flight => ~bufs[b].in_flight,
         dropped \subseteq dropped',
         \A t \in Thread : th'[t].count = th[t].count,
         \A t \in Thread :
           \/ /\ (front(t))' = front(t) /\ (back(t))' = back(t)
              /\ th'[t].pc \in {"publish", "release"} =>
                   th[t].pc \in {"publish", "release"} \/ bufs'[front(t)].in_flight
           \/ (front(t))' \in E /\ (back(t))' \in E,
         Unwritten' \subseteq Unwritten, \A o \in Unwritten' : o.buf \notin E,
         Range(cq') \subseteq Range(cq),
         \A o \in Range(cq) : o \in Range(cq') \/ o.buf \in E,
         \A o \in Range(cq') : o.buf \notin E,
         backend.today <= backend'.today, backend'.today \in 0..MaxDay
  PROVE  /\ OwnLines' /\ BackIsOlder' /\ WholeBuffers' /\ FileLines' /\ YoungBuffers'
         /\ LinesConserved' /\ LogOrder'
<1>1. TypeOK
  BY DEF Inv, Structure
<1>2. \A b \in Buf : b[1] \in Thread
  BY <1>1, TwoBuffers
<1>3. ASSUME NEW b \in Buf
      PROVE  \/ b \in E /\ bufs'[b].lines = <<>> /\ DOMAIN bufs'[b].lines = {}
             \/ b \notin E /\ bufs'[b].lines = bufs[b].lines
  BY SMTT(30)
<1>4. OwnLines'
  BY <1>2, <1>3 DEF Inv, Contents, OwnLines
<1>5. BackIsOlder'
  <2> SUFFICES ASSUME NEW t \in Thread
               PROVE  (/\ Free(back(t)) => bufs[back(t)].lines = <<>>
                       /\ th[t].pc \in {"publish", "release"} /\ Free(front(t))
                            => bufs[front(t)].lines = <<>>
                       /\ \A j \in DOMAIN bufs[back(t)].lines,
                             k \in DOMAIN bufs[front(t)].lines :
                            bufs[back(t)].lines[j][2] < bufs[front(t)].lines[k][2])'
    BY DEF BackIsOlder
  <2>1. front(t) \in Buf /\ back(t) \in Buf
    BY <1>1, TwoBuffers
  <2>2. CASE (front(t))' \in E /\ (back(t))' \in E
    BY <1>3, <2>2
  <2>3. CASE /\ (front(t))' = front(t) /\ (back(t))' = back(t)
             /\ th'[t].pc \in {"publish", "release"} =>
                  th[t].pc \in {"publish", "release"} \/ bufs'[front(t)].in_flight
    BY <1>3, <2>1, <2>3 DEF Inv, Contents, BackIsOlder, Free
  <2> QED
    BY <2>2, <2>3
<1>6. \A l : (OnDisk(l))' <=> OnDisk(l)
  BY DEF OnDisk
<1>7. \A o \in Writes : o.buf \in Buf
  BY <1>1, ElementTypes
<1>8. WholeBuffers'
  <2>1. \A o \in Unwritten' : o.len = Len(bufs'[o.buf].lines)
    BY <1>3, <1>7 DEF Inv, Contents, WholeBuffers, Unwritten, Writes
  <2>2. \A o \in Range(cq') : \A l \in Range(bufs'[o.buf].lines) :
          (OnDisk(l))' \/ l \in dropped'
    BY <1>3, <1>6, <1>7 DEF Inv, Contents, WholeBuffers, Writes
  <2> QED
    BY <2>1, <2>2 DEF WholeBuffers
<1>9. FileLines'
  <2>1. ASSUME NEW d \in Day, NEW k \in DOMAIN disk[d], disk[d][k] \in Line
        PROVE  d <= backend'.today /\ disk[d][k][2] <= th'[disk[d][k][1]].count
    <3>1. d <= backend.today /\ disk[d][k][2] <= th[disk[d][k][1]].count
      BY <2>1 DEF Inv, Contents, FileLines
    <3>2. d \in Nat /\ backend.today \in Nat /\ backend'.today \in Nat
      BY <1>1, DayRange, SMTT(30) DEF TypeOK, BackendState
    <3>3. disk[d][k][1] \in Thread
      BY <2>1 DEF Line
    <3> QED
      BY <3>1, <3>2, <3>3, SMTT(30)
  <2> QED
    BY <2>1 DEF Inv, Contents, FileLines
<1>10. YoungBuffers'
  <2>1. ASSUME NEW d \in Day, NEW k \in DOMAIN disk[d], disk[d][k] \in Line,
               NEW b \in Buf, NEW j \in DOMAIN bufs'[b].lines, b[1] = disk[d][k][1],
               b \notin {o.buf : o \in Range(cq')}
        PROVE  disk[d][k][2] < bufs'[b].lines[j][2]
    <3>1. b \notin E /\ bufs'[b].lines = bufs[b].lines
      BY <1>3
    <3>2. b \notin {o.buf : o \in Range(cq)}
      BY <2>1, <3>1
    <3> QED
      BY <2>1, <3>1, <3>2 DEF Inv, Contents, YoungBuffers
  <2>2. ASSUME NEW d \in Day, NEW k \in DOMAIN disk[d], disk[d][k] \in Line,
               NEW o \in Unwritten', o.buf[1] = disk[d][k][1]
        PROVE  d < o.day \/ (d = o.day /\ k <= o.off)
    BY <2>2 DEF Inv, Contents, YoungBuffers
  <2> QED
    BY <2>1, <2>2 DEF YoungBuffers
<1>11. LinesConserved'
  <2>1. ASSUME NEW t \in Thread, NEW n \in 1..th[t].count
        PROVE  \/ OnDisk(<<t, n>>) \/ <<t, n>> \in dropped'
               \/ \E i \in {0, 1} : <<t, n>> \in Range(bufs'[<<t, i>>].lines)
    <3>1. ASSUME NEW i \in {0, 1}, <<t, n>> \in Range(bufs[<<t, i>>].lines)
          PROVE  \/ OnDisk(<<t, n>>) \/ <<t, n>> \in dropped'
                 \/ <<t, n>> \in Range(bufs'[<<t, i>>].lines)
      <4>1. <<t, i>> \in Buf
        BY DEF Buf
      <4> QED
        BY <1>3, <3>1, <4>1
    <3> QED
      BY <3>1 DEF Inv, Contents, LinesConserved
  <2> QED
    BY <1>6, <2>1 DEF Inv, Contents, LinesConserved
<1>12. LogOrder'
  BY DEF Inv, Contents, LogOrder
<1> QED
  BY <1>4, <1>5, <1>8, <1>9, <1>10, <1>11, <1>12

\* A step that prepares no write and leaves the open file alone.
LEMMA ExtentsStay ==
  ASSUME Inv, UNCHANGED disk, Unwritten' \subseteq Unwritten,
         backend'.today = backend.today, backend'.offset = backend.offset,
         backend'.open => backend.open,
         backend'.pc # "rotate" => backend.pc # "rotate"
  PROVE  Extents'
BY DEF Inv, Contents, Extents

\* A thread logs a line into a buffer nothing refers to, or drops it.
LEMMA LoggingKeeps ==
  ASSUME Inv, NEW t \in Thread, NEW b \in Buf, b[1] = t, ~bufs[b].in_flight,
         \/ /\ bufs'[b].lines = Append(bufs[b].lines, NextLine(t))
            /\ \A c \in Buf : c # b => bufs'[c].lines = bufs[c].lines
            /\ dropped' = dropped
         \/ /\ \A c \in Buf : bufs'[c].lines = bufs[c].lines
            /\ dropped' = dropped \cup {NextLine(t)},
         th'[t].count = th[t].count + 1,
         \A u \in Thread : u # t => th'[u].count = th[u].count,
         UNCHANGED <<disk, sq, ops, cq, backend>>
  PROVE  /\ OwnLines' /\ WholeBuffers' /\ FileLines' /\ YoungBuffers' /\ Extents'
         /\ LinesConserved' /\ LogOrder'
<1> DEFINE l == bufs[b].lines
           x == NextLine(t)
<1>1. TypeOK
  BY DEF Inv, Structure
<1>2. /\ \A c \in Buf : c[1] \in Thread /\ bufs[c].lines \in Seq(Line)
      /\ \A u \in Thread : th[u].count \in Nat
  <2>1. \A c \in Buf : c[1] \in Thread /\ bufs[c] \in Buffer
    BY <1>1, TwoBuffers DEF TypeOK
  <2>2. \A u \in Thread : th[u] \in ThreadState
    BY <1>1 DEF TypeOK
  <2> QED
    BY <2>1, <2>2 DEF Buffer, ThreadState
<1>3. x \in Line /\ x[1] = t /\ x[2] = th[t].count + 1 /\ x = <<t, th[t].count + 1>>
  BY <1>2, SMTT(30) DEF NextLine, Line
<1>4. \A c \in Buf : \A k \in DOMAIN bufs[c].lines :
        /\ bufs[c].lines[k] \in Line /\ bufs[c].lines[k][2] \in Nat
        /\ bufs[c].lines[k][1] = c[1] /\ bufs[c].lines[k][2] <= th[c[1]].count
  <2>1. \A c \in Buf : \A k \in DOMAIN bufs[c].lines : bufs[c].lines[k] \in Line
    BY <1>2, SMTT(30)
  <2> QED
    BY <2>1 DEF Inv, Contents, OwnLines, Line
<1> HIDE DEF x
<1>5. /\ l \in Seq(Line) /\ Len(l) \in Nat /\ DOMAIN l = 1..Len(l)
      /\ DOMAIN Append(l, x) = 1..Len(l) + 1
      /\ Append(l, x)[Len(l) + 1] = x /\ \A k \in 1..Len(l) : Append(l, x)[k] = l[k]
  BY <1>2, <1>3, SMTT(30)
<1>6. ASSUME NEW c \in Buf, NEW k \in DOMAIN bufs'[c].lines
      PROVE  \/ k \in DOMAIN bufs[c].lines /\ bufs'[c].lines[k] = bufs[c].lines[k]
             \/ /\ c = b /\ k = Len(l) + 1 /\ bufs'[c].lines[k] = x
                /\ \A j \in DOMAIN bufs[c].lines : j < k
  <2>1. CASE bufs'[c].lines = bufs[c].lines
    BY <2>1
  <2>2. CASE c = b /\ bufs'[c].lines = Append(l, x)
    <3>1. k \in 1..Len(l) \/ k = Len(l) + 1
      BY <1>5, <2>2, SMTT(30)
    <3>2. CASE k \in 1..Len(l)
      BY <1>5, <2>2, <3>2
    <3>3. CASE k = Len(l) + 1
      <4>1. \A j \in DOMAIN bufs[c].lines : j < k
        BY <1>5, <2>2, <3>3, SMTT(30)
      <4> QED
        BY <1>5, <2>2, <3>3, <4>1
    <3> QED
      BY <3>1, <3>2, <3>3
  <2> QED
    BY <2>1, <2>2 DEF x
<1>16. ASSUME NEW c \in Buf
       PROVE  \/ bufs'[c].lines = bufs[c].lines
              \/ c = b /\ bufs'[c].lines = Append(l, x)
  BY DEF x
<1>17. bufs'[b].lines = Append(l, x) \/ x \in dropped'
  BY DEF x
<1> HIDE DEF l
<1>7. OwnLines'
  <2>1. ASSUME NEW c \in Buf, NEW k \in DOMAIN bufs'[c].lines
        PROVE  bufs'[c].lines[k][1] = c[1] /\ bufs'[c].lines[k][2] <= th'[c[1]].count
    <3>1. CASE k \in DOMAIN bufs[c].lines /\ bufs'[c].lines[k] = bufs[c].lines[k]
      <4>1. th[c[1]].count <= th'[c[1]].count /\ th'[c[1]].count \in Nat
        BY <1>2, SMTT(30)
      <4> QED
        BY <1>2, <1>4, <3>1, <4>1, SMTT(30)
    <3>2. CASE c = b /\ bufs'[c].lines[k] = x
      BY <1>2, <1>3, <3>2, SMTT(30)
    <3> QED
      BY <1>6, <3>1, <3>2
  <2>2. ASSUME NEW c \in Buf, NEW j \in DOMAIN bufs'[c].lines,
               NEW k \in DOMAIN bufs'[c].lines, j < k
        PROVE  bufs'[c].lines[j][2] < bufs'[c].lines[k][2]
    <3>1. CASE k \in DOMAIN bufs[c].lines /\ bufs'[c].lines[k] = bufs[c].lines[k]
      <4>1. j \in DOMAIN bufs[c].lines /\ bufs'[c].lines[j] = bufs[c].lines[j]
        <5>1. j \in Nat /\ k \in Nat /\ ~(k < j)
          <6>1. Len(bufs[c].lines) \in Nat /\ DOMAIN bufs[c].lines = 1..Len(bufs[c].lines)
            BY <1>2, SMTT(30)
          <6> QED
            BY <1>5, <1>6, <2>2, <3>1, <6>1, SMTT(30)
        <5> QED
          BY <1>6, <3>1, <5>1
      <4> QED
        BY <2>2, <3>1, <4>1 DEF Inv, Contents, OwnLines
    <3>2. CASE c = b /\ k = Len(l) + 1 /\ bufs'[c].lines[k] = x
      <4>1. j \in DOMAIN bufs[c].lines /\ bufs'[c].lines[j] = bufs[c].lines[j]
        BY <1>5, <1>6, <2>2, <3>2, SMTT(30)
      <4> QED
        BY <1>2, <1>3, <1>4, <3>2, <4>1, SMTT(30)
    <3> QED
      BY <1>6, <3>1, <3>2
  <2> QED
    BY <2>1, <2>2 DEF OwnLines
<1>8. Unwritten' = Unwritten /\ \A o \in Writes : o.buf \in Buf /\ o.buf # b
  BY <1>1, ElementTypes DEF Unwritten, Inv, Structure, Flagged, Referenced, Writes
<1>9. WholeBuffers'
  <2>1. \A o \in Writes : bufs'[o.buf].lines = bufs[o.buf].lines
    BY <1>8
  <2>2. \A o \in Unwritten : o.len = Len(bufs'[o.buf].lines)
    BY <2>1 DEF Inv, Contents, WholeBuffers, Unwritten, Writes
  <2>3. \A o \in Range(cq) : \A y \in Range(bufs'[o.buf].lines) :
          (OnDisk(y))' \/ y \in dropped'
    BY <2>1 DEF Inv, Contents, WholeBuffers, OnDisk, Writes
  <2> QED
    BY <1>8, <2>2, <2>3 DEF WholeBuffers
<1>10. \A d \in Day : \A k \in DOMAIN disk[d] : disk[d][k] \in Line =>
         /\ disk[d][k][1] \in Thread /\ disk[d][k][2] \in Nat
         /\ disk[d][k][2] <= th[disk[d][k][1]].count
  BY DEF Line, Inv, Contents, FileLines
<1>11. FileLines'
  <2>1. \A d \in Day : \A k \in DOMAIN disk[d] : disk[d][k] \in Line =>
          disk[d][k][2] <= th'[disk[d][k][1]].count
    BY <1>2, <1>10, SMTT(30)
  <2> QED
    BY <2>1 DEF Inv, Contents, FileLines
<1>12. YoungBuffers'
  <2>1. ASSUME NEW d \in Day, NEW k \in DOMAIN disk[d], disk[d][k] \in Line,
               NEW c \in Buf, NEW j \in DOMAIN bufs'[c].lines, c[1] = disk[d][k][1],
               c \notin {o.buf : o \in Range(cq)}
        PROVE  disk[d][k][2] < bufs'[c].lines[j][2]
    <3>1. CASE j \in DOMAIN bufs[c].lines /\ bufs'[c].lines[j] = bufs[c].lines[j]
      BY <2>1, <3>1 DEF Inv, Contents, YoungBuffers
    <3>2. CASE c = b /\ bufs'[c].lines[j] = x
      BY <1>2, <1>3, <1>10, <2>1, <3>2, SMTT(30)
    <3> QED
      BY <1>6, <3>1, <3>2
  <2> QED
    BY <1>8, <2>1 DEF Inv, Contents, YoungBuffers
<1>13. Extents'
  BY <1>8, ExtentsStay
<1>14. LinesConserved'
  <2>1. ASSUME NEW u \in Thread, NEW n \in 1..th'[u].count
        PROVE  \/ OnDisk(<<u, n>>) \/ <<u, n>> \in dropped'
               \/ \E i \in {0, 1} : <<u, n>> \in Range(bufs'[<<u, i>>].lines)
    <3>1. ASSUME NEW c \in Buf
          PROVE  Range(bufs[c].lines) \subseteq Range(bufs'[c].lines)
      <4>1. CASE bufs'[c].lines = bufs[c].lines
        BY <4>1
      <4>2. CASE c = b /\ bufs'[c].lines = Append(l, x)
        <5>1. bufs[c].lines = l
          BY <4>2 DEF l
        <5> QED
          BY <1>3, <1>5, <4>2, <5>1, AppendSet, SMTT(30)
      <4> QED
        BY <1>16, <4>1, <4>2
    <3>2. CASE n \in 1..th[u].count
      <4>1. \A i \in {0, 1} : <<u, i>> \in Buf
        BY DEF Buf
      <4> QED
        BY <3>1, <3>2, <4>1 DEF Inv, Contents, LinesConserved
    <3>3. CASE u = t /\ n = th[t].count + 1
      <4>1. <<u, n>> = x
        BY <1>3, <3>3
      <4>2. CASE x \in dropped'
        BY <4>1, <4>2
      <4>3. CASE bufs'[b].lines = Append(l, x)
        <5>1. x \in Range(bufs'[b].lines)
          BY <1>5, <4>3, SMTT(30) DEF Range
        <5>2. PICK i \in {0, 1} : b = <<t, i>>
          BY SMTT(30) DEF Buf
        <5> QED
          BY <3>3, <4>1, <5>1, <5>2
      <4> QED
        BY <1>17, <4>2, <4>3
    <3> QED
      BY <1>2, <3>2, <3>3, SMTT(30)
  <2> QED
    BY <2>1 DEF Inv, Contents, LinesConserved, OnDisk
<1>15. LogOrder'
  BY DEF Inv, Contents, LogOrder
<1> QED
  BY <1>7, <1>9, <1>11, <1>12, <1>13, <1>14, <1>15

\* A step that moves no line.
LEMMA QuietKeeps ==
  ASSUME Inv, UNCHANGED <<disk, dropped>>, Extents',
         \A b \in Buf : /\ bufs'[b].lines = bufs[b].lines
                        /\ ~bufs'[b].in_flight => ~bufs[b].in_flight,
         \A t \in Thread :
           /\ th'[t].count = th[t].count
           /\ (front(t))' = front(t) /\ (back(t))' = back(t)
           /\ th'[t].pc \in {"publish", "release"} =>
                th[t].pc \in {"publish", "release"} \/ bufs'[front(t)].in_flight,
         Unwritten' = Unwritten, Range(cq') = Range(cq),
         backend.today <= backend'.today, backend'.today \in 0..MaxDay
  PROVE  Contents'
<1> DEFINE E == {}
<1>1. E \in SUBSET Buf /\ (\A b \in Buf : b \notin E) /\ Buf \ E = Buf
  OBVIOUS
<1>2. (\A o : o \notin E) /\ dropped \subseteq dropped'
  OBVIOUS
<1> HIDE DEF E
<1>3. /\ OwnLines' /\ BackIsOlder' /\ WholeBuffers' /\ FileLines' /\ YoungBuffers'
      /\ LinesConserved' /\ LogOrder'
  BY <1>1, <1>2, EmptyingKeeps
<1> QED
  BY <1>3 DEF Contents

\* A thread moves on; nothing else that the lines depend on changes.
LEMMA ThreadKeepsLines ==
  ASSUME Inv, NEW t \in Thread, NEW r \in ThreadState, th' = [th EXCEPT ![t] = r],
         r.count = th[t].count, r.write_idx = th[t].write_idx,
         r.pc \in {"publish", "release"} => th[t].pc \in {"publish", "release"},
         UNCHANGED <<bufs, sq, ops, cq, disk, dropped>>,
         backend'.pc = backend.pc, backend'.today = backend.today,
         backend'.open = backend.open, backend'.offset = backend.offset
  PROVE  Contents'
<1>1. TypeOK /\ backend.today \in 0..MaxDay /\ backend.today <= backend'.today
  <2>1. backend.today \in 0..MaxDay /\ TypeOK
    BY DEF Inv, Structure, TypeOK, BackendState
  <2> QED
    BY <2>1, DayRange, SMTT(30)
<1>2. \A u \in Thread :
        /\ th'[u].count = th[u].count
        /\ (front(u))' = front(u) /\ (back(u))' = back(u)
        /\ th'[u].pc \in {"publish", "release"} => th[u].pc \in {"publish", "release"}
  BY <1>1, ThreadMoves
<1>3. Unwritten' = Unwritten
  BY DEF Unwritten
<1>4. Extents'
  BY <1>3, ExtentsStay
<1> QED
  BY <1>1, <1>2, <1>3, <1>4, QuietKeeps

\* The backend moves on; the ring keeps its writes.
LEMMA BackendKeepsLines ==
  ASSUME Inv, UNCHANGED <<th, bufs, cq, disk, dropped>>, Unwritten' = Unwritten,
         backend.today <= backend'.today, backend'.today \in 0..MaxDay, Extents'
  PROVE  Contents'
<1>1. \A t \in Thread :
        /\ (front(t))' = front(t) /\ (back(t))' = back(t)
  BY DEF front, back
<1> QED
  BY <1>1, QuietKeeps

\* A thread hands its front buffer over.
LEMMA ClaimKeepsLines ==
  ASSUME Inv, NEW t \in Thread, NEW caller \in {"append", "exit", "dtor"},
         ClaimFront(t, caller), UNCHANGED <<backend, ring, world, disk>>
  PROVE  Contents'
<1>1. /\ TypeOK /\ backend.today \in 0..MaxDay /\ backend.today <= backend.today
      /\ front(t) \in Buf /\ bufs \in [Buf -> Buffer]
      /\ UNCHANGED <<dropped, sq, ops, cq, backend, disk>>
  BY TwoBuffers, DayRange, SMTT(30) DEF Inv, Structure, TypeOK, BackendState, ClaimFront, ring
<1>2. \A u \in Thread :
        /\ th'[u].count = th[u].count
        /\ (front(u))' = front(u) /\ (back(u))' = back(u)
        /\ th'[u].pc \in {"publish", "release"} =>
             th[u].pc \in {"publish", "release"} \/ u = t
  <2> DEFINE g == th[t].guarded /\ caller = "append"
             r == [th[t] EXCEPT !.pc = "publish", !.then = caller, !.guarded = g]
  <2>1. th \in [Thread -> ThreadState] /\ th[t] \in ThreadState
    BY <1>1 DEF TypeOK
  <2>2. th' = [th EXCEPT ![t] = r]
    BY DEF ClaimFront
  <2> HIDE DEF g
  <2>3. r.count = th[t].count /\ r.write_idx = th[t].write_idx
    BY <2>1 DEF ThreadState
  <2> HIDE DEF r
  <2>4. \A u \in Thread : th'[u] = IF u = t THEN r ELSE th[u]
    BY <2>1, <2>2
  <2> QED
    BY <2>3, <2>4 DEF front, back
<1>3. \A b \in Buf : /\ bufs'[b].lines = bufs[b].lines
                     /\ ~bufs'[b].in_flight => ~bufs[b].in_flight
  BY <1>1 DEF ClaimFront, Buffer
<1>4. bufs'[front(t)].in_flight
  BY <1>1 DEF ClaimFront, Buffer
<1>5. Unwritten' = Unwritten /\ Range(cq') = Range(cq)
  BY <1>1 DEF Unwritten
<1>6. Extents'
  BY <1>1, <1>5, ExtentsStay
<1> QED
  BY <1>1, <1>2, <1>3, <1>4, <1>5, <1>6, QuietKeeps

\* A place becomes ready.
LEMMA PublishKeepsLines ==
  ASSUME Inv, NEW t \in Thread, Publish(t)
  PROVE  Contents'
<1> DEFINE r == [th[t] EXCEPT !.pc = "release"]
<1>1. /\ th[t] \in ThreadState /\ th[t].pc = "publish" /\ th' = [th EXCEPT ![t] = r]
      /\ UNCHANGED <<bufs, sq, ops, cq, disk, dropped, backend>>
  BY DEF Inv, Structure, TypeOK, Publish, ring
<1>2. r \in ThreadState /\ r.count = th[t].count /\ r.write_idx = th[t].write_idx
  BY <1>1 DEF ThreadState
<1> HIDE DEF r
<1> QED
  BY <1>1, <1>2, ThreadKeepsLines

\* ~ThreadFlushGuard and ~Logger without a hand-over.
LEMMA EndKeepsLines ==
  ASSUME Inv, NEW t \in Thread,
         \/ th' = [th EXCEPT ![t].pc = "wait", ![t].guarded = FALSE]
         \/ th' = [th EXCEPT ![t].pc = "stop"],
         UNCHANGED <<bufs, sq, ops, cq, disk, dropped, backend>>
  PROVE  Contents'
<1>1. th[t] \in ThreadState /\ th \in [Thread -> ThreadState]
  BY DEF Inv, Structure, TypeOK
<1>2. CASE th' = [th EXCEPT ![t].pc = "wait", ![t].guarded = FALSE]
  <2> DEFINE r == [th[t] EXCEPT !.pc = "wait", !.guarded = FALSE]
  <2>1. th' = [th EXCEPT ![t] = r]
    BY <1>1, <1>2
  <2>2. /\ r \in ThreadState /\ r.count = th[t].count /\ r.write_idx = th[t].write_idx
        /\ r.pc = "wait"
    BY <1>1 DEF ThreadState
  <2> HIDE DEF r
  <2> QED
    BY <2>1, <2>2, ThreadKeepsLines
<1>3. CASE th' = [th EXCEPT ![t].pc = "stop"]
  <2> DEFINE r == [th[t] EXCEPT !.pc = "stop"]
  <2>1. th' = [th EXCEPT ![t] = r]
    BY <1>1, <1>3
  <2>2. /\ r \in ThreadState /\ r.count = th[t].count /\ r.write_idx = th[t].write_idx
        /\ r.pc = "stop"
    BY <1>1 DEF ThreadState
  <2> HIDE DEF r
  <2> QED
    BY <2>1, <2>2, ThreadKeepsLines
<1> QED
  BY <1>2, <1>3

\* The stop request.
LEMMA StopKeepsLines ==
  ASSUME Inv, StopBackend
  PROVE  Contents'
<1> DEFINE r == [th[Main] EXCEPT !.pc = "join"]
<1>1. /\ Main \in Thread /\ th[Main] \in ThreadState /\ th' = [th EXCEPT ![Main] = r]
      /\ UNCHANGED <<bufs, sq, ops, cq, disk, dropped>>
      /\ backend \in BackendState /\ backend' = [backend EXCEPT !.stop = TRUE]
  BY LoggerAssumption DEF Inv, Structure, TypeOK, StopBackend, ring
<1>2. /\ r \in ThreadState /\ r.count = th[Main].count /\ r.write_idx = th[Main].write_idx
      /\ r.pc = "join"
  BY <1>1 DEF ThreadState
<1> HIDE DEF r
<1>3. /\ backend'.pc = backend.pc /\ backend'.today = backend.today
      /\ backend'.open = backend.open /\ backend'.offset = backend.offset
  BY <1>1 DEF BackendState
<1> QED
  BY <1>1, <1>2, <1>3, ThreadKeepsLines

\* semaphore_.release(); append then switches the buffers and logs its line
\* into the one that has become the front buffer.
LEMMA ReleaseKeepsLines ==
  ASSUME Inv, NEW t \in Thread, Release(t)
  PROVE  Contents'
<1>1. /\ TypeOK /\ Structure /\ th[t] \in ThreadState /\ th[t].pc = "release"
      /\ th \in [Thread -> ThreadState]
      /\ UNCHANGED <<sq, ops, cq, disk, dropped, backend>>
  BY DEF Inv, Structure, TypeOK, Release, ring
<1>2. /\ back(t) \in Buf /\ back(t)[1] = t /\ ~bufs[back(t)].in_flight
      /\ front(t) \in Buf /\ front(t) # back(t)
      /\ bufs[back(t)].lines = <<>>
      /\ ~bufs[front(t)].in_flight => bufs[front(t)].lines = <<>>
  BY <1>1, TwoBuffers DEF Structure, FreeBuffers, Free, Inv, Contents, BackIsOlder
<1>3. CASE th[t].then = "append"
  <2> DEFINE i == 1 - th[t].write_idx
             n == th[t].count + 1
             r == [th[t] EXCEPT !.pc = "run", !.write_idx = i, !.count = n]
  <2>1. /\ th' = [th EXCEPT ![t] = r]
        /\ bufs' = [bufs EXCEPT ![back(t)].lines = Append(@, NextLine(t))]
    BY <1>1, <1>3 DEF Release
  <2>2. i \in {0, 1} /\ n \in Nat /\ i = 1 - th[t].write_idx /\ 1 - i = th[t].write_idx
    BY <1>1, SMTT(30) DEF ThreadState
  <2>3. n = th[t].count + 1
    OBVIOUS
  <2> HIDE DEF i, n
  <2>4. r \in ThreadState /\ r.pc = "run" /\ r.write_idx = i /\ r.count = n
    BY <1>1, <2>2 DEF ThreadState
  <2> HIDE DEF r
  <2>5. /\ th' \in [Thread -> ThreadState] /\ th'[t] = r
        /\ \A u \in Thread : u # t => /\ th'[u] = th[u]
                                      /\ (front(u))' = front(u) /\ (back(u))' = back(u)
    BY <1>1, <2>1, <2>4, ThreadMoves
  <2>6. (front(t))' = back(t) /\ (back(t))' = front(t)
    BY <2>2, <2>4, <2>5 DEF front, back
  <2>7. /\ \A c \in Buf : /\ bufs'[c].in_flight = bufs[c].in_flight
                          /\ c # back(t) => bufs'[c].lines = bufs[c].lines
        /\ bufs'[back(t)].lines = Append(bufs[back(t)].lines, NextLine(t))
        /\ NextLine(t) \in Line
    BY <1>1, <1>2, <2>1, LineAdded
  <2>8. /\ OwnLines' /\ WholeBuffers' /\ FileLines' /\ YoungBuffers' /\ Extents'
        /\ LinesConserved' /\ LogOrder'
    BY <1>1, <1>2, <2>3, <2>4, <2>5, <2>7, LoggingKeeps
  <2>9. BackIsOlder'
    <3>1. ASSUME NEW u \in Thread, u # t
          PROVE  (/\ Free(back(u)) => bufs[back(u)].lines = <<>>
                  /\ th[u].pc \in {"publish", "release"} /\ Free(front(u))
                       => bufs[front(u)].lines = <<>>
                  /\ \A j \in DOMAIN bufs[back(u)].lines,
                        k \in DOMAIN bufs[front(u)].lines :
                       bufs[back(u)].lines[j][2] < bufs[front(u)].lines[k][2])'
      <4>1. /\ front(u) \in Buf /\ back(u) \in Buf
            /\ front(u) # back(t) /\ back(u) # back(t)
        BY <1>1, <1>2, <3>1, TwoBuffers
      <4>2. /\ bufs'[front(u)].lines = bufs[front(u)].lines
            /\ bufs'[back(u)].lines = bufs[back(u)].lines
            /\ bufs'[front(u)].in_flight = bufs[front(u)].in_flight
            /\ bufs'[back(u)].in_flight = bufs[back(u)].in_flight
        BY <2>7, <4>1
      <4> QED
        BY <2>5, <3>1, <4>2 DEF Inv, Contents, BackIsOlder, Free
    <3>2. ~bufs'[front(t)].in_flight => bufs'[front(t)].lines = <<>>
      BY <1>2, <2>7
    <3>3. ASSUME NEW j \in DOMAIN bufs'[front(t)].lines,
                 NEW k \in DOMAIN bufs'[back(t)].lines
          PROVE  bufs'[front(t)].lines[j][2] < bufs'[back(t)].lines[k][2]
      <4>1. k = 1 /\ bufs'[back(t)].lines[k] = NextLine(t)
        BY <1>2, <2>7, SMTT(30)
      <4>2. bufs'[front(t)].lines = bufs[front(t)].lines
        BY <1>2, <2>7
      <4>3. bufs[front(t)].lines[j][2] <= th[t].count
        BY <1>1, <4>2, TwoBuffers DEF Inv, Contents, OwnLines
      <4>4. bufs[front(t)].lines[j][2] \in Nat /\ th[t].count \in Nat
        <5>1. bufs[front(t)].lines \in Seq(Line)
          BY <1>1, <1>2 DEF TypeOK, Buffer
        <5>2. bufs[front(t)].lines[j] \in Line
          BY <4>2, <5>1, SMTT(30)
        <5> QED
          BY <1>1, <5>2 DEF Line, ThreadState
      <4>5. NextLine(t)[2] = th[t].count + 1
        BY DEF NextLine
      <4> QED
        BY <4>1, <4>2, <4>3, <4>4, <4>5, SMTT(30)
    <3> QED
      BY <2>4, <2>5, <2>6, <3>1, <3>2, <3>3 DEF BackIsOlder, Free
  <2> QED
    BY <2>8, <2>9 DEF Contents
<1>4. CASE th[t].then # "append"
  <2> DEFINE next == IF th[t].then = "exit" THEN "wait" ELSE "stop"
             r == [th[t] EXCEPT !.pc = next]
  <2>1. th' = [th EXCEPT ![t] = r] /\ UNCHANGED bufs /\ next \in {"wait", "stop"}
    BY <1>1, <1>4 DEF Release
  <2> HIDE DEF next
  <2>2. r \in ThreadState /\ r.count = th[t].count /\ r.write_idx = th[t].write_idx
    BY <1>1, <2>1 DEF ThreadState
  <2> HIDE DEF r
  <2> QED
    BY <1>1, <2>1, <2>2, ThreadKeepsLines
<1> QED
  BY <1>3, <1>4

\* A line goes into the front buffer, or is dropped.
LEMMA LogKeepsLines ==
  ASSUME Inv, NEW t \in Thread, th[t].pc = "run",
         th' = [th EXCEPT ![t].count = @ + 1],
         \/ /\ bufs' = [bufs EXCEPT ![front(t)].lines = Append(@, NextLine(t))]
            /\ UNCHANGED dropped
         \/ dropped' = dropped \cup {NextLine(t)} /\ UNCHANGED bufs,
         UNCHANGED <<backend, sq, ops, cq, disk>>
  PROVE  Contents'
<1> DEFINE n == th[t].count + 1
           r == [th[t] EXCEPT !.count = n]
<1>1. TypeOK /\ Structure /\ th[t] \in ThreadState /\ th' = [th EXCEPT ![t] = r]
  BY DEF Inv, Structure, TypeOK
<1>2. n \in Nat /\ n = th[t].count + 1
  BY <1>1, SMTT(30) DEF ThreadState
<1> HIDE DEF n
<1>3. /\ r \in ThreadState /\ r.pc = "run" /\ r.write_idx = th[t].write_idx
      /\ r.count = n
  BY <1>1, <1>2 DEF ThreadState
<1> HIDE DEF r
<1>4. /\ th'[t] = r /\ \A u \in Thread : u # t => th'[u] = th[u]
      /\ \A u \in Thread : (front(u))' = front(u) /\ (back(u))' = back(u)
  BY <1>1, <1>3, ThreadMoves
<1>5. /\ front(t) \in Buf /\ front(t)[1] = t /\ back(t) \in Buf /\ front(t) # back(t)
      /\ ~bufs[front(t)].in_flight
  BY <1>1, TwoBuffers DEF Structure, FreeBuffers, Free
<1>6. \/ /\ bufs'[front(t)].lines = Append(bufs[front(t)].lines, NextLine(t))
         /\ \A c \in Buf : c # front(t) => bufs'[c].lines = bufs[c].lines
         /\ dropped' = dropped
      \/ /\ \A c \in Buf : bufs'[c].lines = bufs[c].lines
         /\ dropped' = dropped \cup {NextLine(t)}
  BY <1>1, <1>5, LineAdded
<1>7. \A c \in Buf : bufs'[c].in_flight = bufs[c].in_flight
  BY <1>1, <1>5, LineAdded
<1>8. /\ OwnLines' /\ WholeBuffers' /\ FileLines' /\ YoungBuffers' /\ Extents'
      /\ LinesConserved' /\ LogOrder'
  BY <1>2, <1>3, <1>4, <1>5, <1>6, LoggingKeeps
<1>9. BackIsOlder'
  <2>1. ASSUME NEW u \in Thread, u # t
        PROVE  (/\ Free(back(u)) => bufs[back(u)].lines = <<>>
                /\ th[u].pc \in {"publish", "release"} /\ Free(front(u))
                     => bufs[front(u)].lines = <<>>
                /\ \A j \in DOMAIN bufs[back(u)].lines,
                      k \in DOMAIN bufs[front(u)].lines :
                     bufs[back(u)].lines[j][2] < bufs[front(u)].lines[k][2])'
    <3>1. /\ front(u) \in Buf /\ back(u) \in Buf
          /\ front(u) # front(t) /\ back(u) # front(t)
      BY <1>1, <1>5, <2>1, TwoBuffers
    <3>2. /\ bufs'[front(u)].lines = bufs[front(u)].lines
          /\ bufs'[back(u)].lines = bufs[back(u)].lines
          /\ bufs'[front(u)].in_flight = bufs[front(u)].in_flight
          /\ bufs'[back(u)].in_flight = bufs[back(u)].in_flight
      BY <1>6, <1>7, <3>1
    <3> QED
      BY <1>4, <2>1, <3>2 DEF Inv, Contents, BackIsOlder, Free
  <2>2. bufs'[back(t)].lines = bufs[back(t)].lines
    BY <1>5, <1>6
  <2>3. ~bufs'[back(t)].in_flight => bufs'[back(t)].lines = <<>>
    BY <1>5, <1>7, <2>2 DEF Inv, Contents, BackIsOlder, Free
  <2>4. ASSUME NEW j \in DOMAIN bufs'[back(t)].lines, NEW k \in DOMAIN bufs'[front(t)].lines
        PROVE  bufs'[back(t)].lines[j][2] < bufs'[front(t)].lines[k][2]
    <3>1. bufs[front(t)].lines \in Seq(Line) /\ bufs[back(t)].lines \in Seq(Line)
      BY <1>1, <1>5 DEF TypeOK, Buffer
    <3>2. CASE /\ k \in DOMAIN bufs[front(t)].lines
               /\ bufs'[front(t)].lines[k] = bufs[front(t)].lines[k]
      BY <2>2, <3>2 DEF Inv, Contents, BackIsOlder
    <3>3. CASE bufs'[front(t)].lines[k] = NextLine(t)
      <4>1. bufs[back(t)].lines[j][2] <= th[t].count
        BY <1>1, <2>2, TwoBuffers DEF Inv, Contents, OwnLines
      <4>2. bufs[back(t)].lines[j] \in Line
        BY <2>2, <3>1, SMTT(30)
      <4>3. bufs[back(t)].lines[j][2] \in Nat /\ th[t].count \in Nat
        BY <1>1, <4>2 DEF Line, ThreadState
      <4>4. NextLine(t)[2] = th[t].count + 1
        BY DEF NextLine
      <4> QED
        BY <2>2, <3>3, <4>1, <4>3, <4>4, SMTT(30)
    <3>4. \/ /\ k \in DOMAIN bufs[front(t)].lines
             /\ bufs'[front(t)].lines[k] = bufs[front(t)].lines[k]
          \/ bufs'[front(t)].lines[k] = NextLine(t)
      <4>1. CASE bufs'[front(t)].lines = bufs[front(t)].lines
        BY <4>1
      <4>2. CASE bufs'[front(t)].lines = Append(bufs[front(t)].lines, NextLine(t))
        BY <3>1, <4>2, SMTT(30)
      <4> QED
        BY <1>5, <1>6, <4>1, <4>2
    <3> QED
      BY <3>2, <3>3, <3>4
  <2> QED
    BY <1>3, <1>4, <2>1, <2>3, <2>4 DEF BackIsOlder, Free
<1> QED
  BY <1>8, <1>9 DEF Contents

\* delete ts.
LEMMA FreeKeepsLines ==
  ASSUME Inv, NEW t \in Thread, NEW next \in {"run", "gone"}, FreeState(t, next),
         Free(front(t)), Free(back(t)), UNCHANGED <<sq, ops, cq, disk>>,
         backend'.pc = backend.pc, backend'.today = backend.today,
         backend'.open => backend.open, backend'.offset = backend.offset
  PROVE  Contents'
<1> DEFINE r == [th[t] EXCEPT !.pc = next, !.write_idx = 0]
           E == {<<t, 0>>, <<t, 1>>}
<1>1. /\ TypeOK /\ Structure /\ th[t] \in ThreadState /\ th' = [th EXCEPT ![t] = r]
      /\ bufs' = [b \in Buf |-> IF b[1] = t THEN Fresh ELSE bufs[b]]
      /\ dropped' = dropped \cup UNION {Range(bufs[<<t, i>>].lines) : i \in {0, 1}}
      /\ backend.today \in 0..MaxDay
  BY DEF Inv, Structure, TypeOK, BackendState, FreeState
<1>2. r \in ThreadState /\ r.count = th[t].count /\ r.write_idx = 0
  BY <1>1 DEF ThreadState
<1> HIDE DEF r
<1>3. /\ th'[t] = r /\ \A u \in Thread : u # t => /\ th'[u] = th[u]
                                                  /\ (front(u))' = front(u)
                                                  /\ (back(u))' = back(u)
  BY <1>1, <1>2, ThreadMoves
<1>4. E \in SUBSET Buf /\ \A b \in Buf : b \in E <=> b[1] = t
  BY SMTT(30) DEF Buf
<1>5. (front(t))' \in E /\ (back(t))' \in E
  BY <1>2, <1>3, SMTT(30) DEF front, back
<1>6. \A b \in E : \A l \in Range(bufs[b].lines) : l \in dropped'
  BY <1>1
<1> HIDE DEF E
<1>7. /\ \A b \in E : bufs'[b].lines = <<>>
      /\ \A b \in Buf \ E : bufs'[b] = bufs[b]
  BY <1>1, <1>4 DEF Fresh
<1>8. \A o \in Writes : o.buf \in Buf /\ o.buf \notin E
  BY <1>1, <1>4, ElementTypes, FreeIsUnreferenced
<1>9. Unwritten' = Unwritten /\ Unwritten \subseteq Writes /\ Range(cq) \subseteq Writes
  BY DEF Unwritten, Writes
<1>10. backend.today <= backend'.today
  BY <1>1, DayRange, SMTT(30)
<1>11. dropped \subseteq dropped' /\ \A u \in Thread : th'[u].count = th[u].count
  BY <1>1, <1>2, <1>3
<1>12. \A u \in Thread :
         \/ /\ (front(u))' = front(u) /\ (back(u))' = back(u)
            /\ th'[u].pc \in {"publish", "release"} => th[u].pc \in {"publish", "release"}
         \/ (front(u))' \in E /\ (back(u))' \in E
  BY <1>3, <1>5
<1>13. /\ OwnLines' /\ BackIsOlder' /\ WholeBuffers' /\ FileLines' /\ YoungBuffers'
       /\ LinesConserved' /\ LogOrder'
  BY <1>1, <1>4, <1>6, <1>7, <1>8, <1>9, <1>10, <1>11, <1>12, EmptyingKeeps
<1> QED
  BY <1>9, <1>13, ExtentsStay DEF Contents

\* One buffer is emptied and no longer referred to.
LEMMA BufferKeepsLines ==
  ASSUME Inv, NEW b \in Buf, bufs' = [bufs EXCEPT ![b] = Fresh],
         \A l \in Range(bufs[b].lines) : OnDisk(l) \/ l \in dropped',
         dropped \subseteq dropped', UNCHANGED <<th, sq, ops, disk>>,
         Range(cq') \subseteq Range(cq),
         \A o \in Range(cq) : o \in Range(cq') \/ o.buf = b,
         \A o \in Unwritten \cup Range(cq') : o.buf # b,
         backend'.pc = backend.pc, backend'.today = backend.today,
         backend'.open = backend.open, backend'.offset = backend.offset
  PROVE  Contents'
<1> DEFINE E == {b}
<1>1. TypeOK /\ backend.today \in 0..MaxDay
  BY DEF Inv, Structure, TypeOK, BackendState
<1>2. backend.today <= backend'.today
  BY <1>1, DayRange, SMTT(30)
<1>3. bufs'[b].lines = <<>> /\ \A c \in Buf : c # b => bufs'[c] = bufs[c]
  BY <1>1, BufferFreed
<1>4. \A t \in Thread : (front(t))' = front(t) /\ (back(t))' = back(t)
  BY DEF front, back
<1>5. Unwritten' = Unwritten
  BY DEF Unwritten
<1>6. E \in SUBSET Buf /\ \A c \in Buf : c \in E <=> c = b
  OBVIOUS
<1>7. \A o \in Unwritten' \cup Range(cq') : o.buf \notin E
  BY <1>5
<1>8. \A o \in Range(cq) : o \in Range(cq') \/ o.buf \in E
  OBVIOUS
<1>9. /\ \A c \in E : /\ bufs'[c].lines = <<>>
                      /\ \A l \in Range(bufs[c].lines) : OnDisk(l) \/ l \in dropped'
      /\ \A c \in Buf \ E : bufs'[c] = bufs[c]
  BY <1>3
<1> HIDE DEF E
<1>10. /\ OwnLines' /\ BackIsOlder' /\ WholeBuffers' /\ FileLines' /\ YoungBuffers'
       /\ LinesConserved' /\ LogOrder'
  BY <1>1, <1>2, <1>4, <1>5, <1>6, <1>7, <1>8, <1>9, EmptyingKeeps
<1> QED
  BY <1>5, <1>10, ExtentsStay DEF Contents

\* handle_cqe: the lines of the buffer were saved, or the write has failed.
LEMMA HandleCqeKeepsContents ==
  ASSUME Inv, cq # <<>>, HandleCqe, UNCHANGED <<th, sq, ops, disk, dropped>>
  PROVE  Contents'
<1> DEFINE h == Head(cq)
<1>1. /\ TypeOK /\ Structure /\ cq \in Seq(Write) /\ cq' = Tail(cq)
      /\ backend \in BackendState
  BY DEF Inv, Structure, TypeOK, HandleCqe
<1>2. /\ h \in Write /\ Range(cq) = {h} \cup Range(cq')
      /\ \A y \in Range(cq') : y.buf[1] # h.buf[1]
  BY <1>1, TailSet, ApartTail DEF Structure, OnePlace
<1>3. bufs' = [bufs EXCEPT ![h.buf] = Fresh] /\ h.buf \in Buf
  BY <1>2 DEF HandleCqe, Write
<1>4. /\ backend'.pc = backend.pc /\ backend'.today = backend.today
      /\ backend'.open = backend.open /\ backend'.offset = backend.offset
  BY <1>1 DEF HandleCqe, BackendState
<1> HIDE DEF h
<1>5. \A l \in Range(bufs[h.buf].lines) : OnDisk(l) \/ l \in dropped'
  BY <1>2 DEF Inv, Contents, WholeBuffers
<1>6. \A o \in Unwritten : o.buf # h.buf
  BY <1>1, <1>2 DEF Structure, OnePlace, Unwritten, Writes
<1>7. /\ Range(cq') \subseteq Range(cq)
      /\ \A o \in Range(cq) : o \in Range(cq') \/ o.buf = h.buf
      /\ \A o \in Unwritten \cup Range(cq') : o.buf # h.buf
  BY <1>2, <1>6
<1> QED
  BY <1>3, <1>4, <1>5, <1>7, BufferKeepsLines

\* dequeue and submit_buf: the write goes behind what the file holds and what
\* is under way; without a file the lines are given up.
LEMMA DequeueKeepsLines ==
  ASSUME Inv, BackendDequeue
  PROVE  Contents'
<1> DEFINE h == Head(flush_queue_)
           n == Len(bufs[h.buf].lines)
           x == [buf |-> h.buf, day |-> backend.today, off |-> backend.offset, len |-> n]
<1>1. /\ TypeOK /\ Structure /\ flush_queue_ \in Seq(Place) /\ flush_queue_ # <<>>
      /\ backend \in BackendState
      /\ backend.pc \in {"drain", "last"} /\ backend.today \in Day
      /\ UNCHANGED <<th, ops, cq, disk>>
  BY DEF Inv, Structure, TypeOK, BackendDequeue, ItemReady, world
<1>2. h \in Place /\ h \in Range(flush_queue_)
  BY <1>1, TailSet
<1>3. h.buf \in Buf /\ bufs[h.buf] \in Buffer
  BY <1>1, <1>2 DEF Place, TypeOK
<1>4. n \in Nat
  BY <1>3, SMTT(30) DEF Buffer
<1>5. \A o \in Writes : o.buf[1] # h.buf[1]
  BY <1>1, <1>2 DEF Structure, OnePlace
<1>6. CASE backend.open
  <2>1. /\ sq' = Append(sq, x) /\ UNCHANGED <<bufs, dropped>>
        /\ backend' = [backend EXCEPT !.offset = @ + n, !.in_flight = @ + 1]
    BY <1>6 DEF BackendDequeue
  <2>2. n = Len(bufs[h.buf].lines)
    OBVIOUS
  <2> HIDE DEF n, h
  <2>3. /\ x \in Write /\ x.buf = h.buf /\ x.day = backend.today
        /\ x.off = backend.offset /\ x.len = n
    BY <1>1, <1>3, <1>4 DEF Write, BackendState
  <2>4. /\ backend'.pc = backend.pc /\ backend'.today = backend.today
        /\ backend'.open = backend.open /\ backend'.offset = backend.offset + n
        /\ backend.offset \in Nat
    BY <1>1, <2>1 DEF BackendState
  <2> HIDE DEF x
  <2>5. sq \in Seq(Write) /\ Range(sq') = Range(sq) \cup {x}
    BY <1>1, <2>1, <2>3, AppendSet, SMTT(30) DEF TypeOK
  <2>6. Unwritten' = Unwritten \cup {x}
    BY <1>1, <2>5 DEF Unwritten
  <2>7. /\ \A o \in Unwritten : o.day = backend.today /\ o.off + o.len <= backend.offset
        /\ Len(disk[backend.today]) <= backend.offset
        /\ \A o \in Unwritten : o \in Write
    BY <1>1, <1>6, ElementTypes DEF Inv, Contents, Extents, Unwritten, Writes
  <2>8. OwnLines' /\ BackIsOlder' /\ LogOrder'
    BY <1>1, <2>1
       DEF Inv, Contents, OwnLines, BackIsOlder, LogOrder, Free, front, back
  <2>9. FileLines' /\ LinesConserved'
    BY <1>1, <2>1, <2>4 DEF Inv, Contents, FileLines, LinesConserved, OnDisk
  <2>10. WholeBuffers'
    BY <1>1, <2>1, <2>2, <2>3, <2>6 DEF Inv, Contents, WholeBuffers, OnDisk
  <2>11. \A d \in Day : Len(disk[d]) \in Nat /\ DOMAIN disk[d] = 1..Len(disk[d]) /\ d \in Nat
    <3>1. \A d \in Day : disk[d] \in Seq(Line \cup {Hole, Earlier})
      BY <1>1 DEF TypeOK
    <3> QED
      BY <3>1, DayRange, SMTT(30)
  <2>12. YoungBuffers'
    <3>1. ASSUME NEW d \in Day, NEW k \in DOMAIN disk[d], disk[d][k] \in Line
          PROVE  d < x.day \/ (d = x.day /\ k <= x.off)
      <4>1. d <= backend.today /\ backend.today \in Nat /\ d \in Nat
        BY <1>1, <3>1, DayRange DEF Inv, Contents, FileLines
      <4>2. CASE d = backend.today
        BY <2>3, <2>4, <2>7, <2>11, <4>2, SMTT(30)
      <4> QED
        BY <2>3, <4>1, <4>2, SMTT(30)
    <3>2. ASSUME NEW d \in Day, NEW k \in DOMAIN disk[d], disk[d][k] \in Line,
                 NEW o \in Unwritten', o.buf[1] = disk[d][k][1]
          PROVE  d < o.day \/ (d = o.day /\ k <= o.off)
      BY <2>6, <3>1, <3>2 DEF Inv, Contents, YoungBuffers
    <3>3. ASSUME NEW d \in Day, NEW k \in DOMAIN disk[d], disk[d][k] \in Line,
                 NEW b \in Buf, NEW j \in DOMAIN bufs[b].lines, b[1] = disk[d][k][1],
                 b \notin {o.buf : o \in Range(cq)}
          PROVE  disk[d][k][2] < bufs[b].lines[j][2]
      BY <3>3 DEF Inv, Contents, YoungBuffers
    <3> QED
      BY <1>1, <2>1, <3>2, <3>3 DEF YoungBuffers
  <2>13. Extents'
    <3>1. ASSUME NEW o \in Unwritten'
          PROVE  /\ o.day = backend.today /\ o.off + o.len <= backend'.offset
                 /\ o.off \in Nat /\ o.len \in Nat
      BY <1>4, <2>3, <2>4, <2>6, <2>7, SMTT(30) DEF Write
    <3>2. backend.today <= backend.today
      BY <1>1, DayRange
    <3>3. ASSUME NEW o \in Unwritten', NEW k \in DOMAIN disk[o.day],
                 o.off < k, k <= o.off + o.len
          PROVE  disk[o.day][k] = Hole
      <4>1. CASE o \in Unwritten
        BY <3>3, <4>1 DEF Inv, Contents, Extents
      <4>2. CASE o = x
        BY <1>1, <2>3, <2>4, <2>7, <2>11, <3>3, <4>2, SMTT(30)
      <4> QED
        BY <2>6, <4>1, <4>2
    <3>4. ASSUME NEW o \in Unwritten', NEW p \in Unwritten', o # p, o.day = p.day
          PROVE  o.off + o.len <= p.off \/ p.off + p.len <= o.off
      <4>1. CASE o \in Unwritten /\ p \in Unwritten
        BY <3>4, <4>1 DEF Inv, Contents, Extents
      <4>2. CASE o = x \/ p = x
        BY <2>3, <2>6, <2>7, <3>4, <4>2
      <4> QED
        BY <2>6, <4>1, <4>2
    <3>5. Len(disk[backend.today]) <= backend'.offset
      BY <1>1, <1>4, <2>4, <2>7, <2>11, SMTT(30)
    <3> QED
      BY <1>1, <2>4, <3>1, <3>2, <3>3, <3>4, <3>5 DEF Extents
  <2> QED
    BY <2>8, <2>9, <2>10, <2>12, <2>13 DEF Contents
<1>7. CASE ~backend.open
  <2>1. /\ bufs' = [bufs EXCEPT ![h.buf] = Fresh] /\ UNCHANGED <<sq, backend>>
        /\ dropped' = dropped \cup Range(bufs[h.buf].lines)
    BY <1>7 DEF BackendDequeue
  <2> HIDE DEF h
  <2>2. \A o \in Unwritten \cup Range(cq) : o.buf # h.buf
    BY <1>5 DEF Unwritten, Writes
  <2> QED
    BY <1>1, <1>3, <2>1, <2>2, BufferKeepsLines
<1> QED
  BY <1>6, <1>7

\* The backend goes on; the open file stays.
LEMMA GotoKeepsLines ==
  ASSUME Inv, backend.pc \notin {"start", "rotate"},
         NEW next \in {"acquire", "drain", "reap", "check", "last", "finish", "done"},
         Goto(next), UNCHANGED <<th, disk, dropped>>, Unwritten' = Unwritten
  PROVE  Contents'
<1>1. TypeOK
  BY DEF Inv, Structure
<1>2. /\ backend' \in BackendState /\ backend'.today = backend.today
      /\ backend'.offset = backend.offset /\ backend'.open = backend.open
      /\ UNCHANGED <<bufs, cq>>
  BY <1>1, GotoEffect
<1>3. Extents'
  BY <1>2, ExtentsStay
<1>4. backend'.today \in 0..MaxDay /\ backend.today <= backend'.today
  <2>1. backend'.today \in 0..MaxDay
    BY <1>2 DEF BackendState
  <2> QED
    BY <1>2, <2>1, DayRange, SMTT(30)
<1> QED
  BY <1>2, <1>3, <1>4, BackendKeepsLines

\* Another file is opened, at its end, when no write is left.
LEMMA SwitchKeepsLines ==
  ASSUME Inv, NEW today \in Day, backend.today <= today,
         NEW next \in {"check", "acquire"}, SwitchFile(today, next), Unwritten = {},
         UNCHANGED <<th, bufs, sq, ops, cq, disk, dropped>>
  PROVE  Contents'
<1>1. TypeOK
  BY DEF Inv, Structure
<1>2. /\ backend' \in BackendState /\ backend'.today = today
      /\ backend'.open => backend'.offset = Len(disk[today])
  BY <1>1, SwitchFileEffect
<1>3. Unwritten' = {}
  BY DEF Unwritten
<1>4. Len(disk[today]) <= Len(disk[today]) /\ today \in 0..MaxDay
  <2>1. disk[today] \in Seq(Line \cup {Hole, Earlier})
    BY <1>1 DEF TypeOK
  <2>2. Len(disk[today]) \in Nat
    BY <2>1, SMTT(30)
  <2> QED
    BY <2>2, DayRange, SMTT(30)
<1>5. Extents'
  BY <1>2, <1>3, <1>4 DEF Extents
<1> QED
  BY <1>2, <1>3, <1>4, <1>5, BackendKeepsLines

\* The first file, the top of the loop and acquire.
LEMMA BackendWaitKeepsLines ==
  ASSUME Inv, BackendWait
  PROVE  Contents'
<1>1. /\ TypeOK /\ Structure /\ UNCHANGED <<th, sq, ops, disk, dropped>> /\ day \in Day
      /\ backend \in BackendState /\ backend.today <= day
      /\ backend.pc # "start" <=> backend.today \in Day
  BY DEF BackendWait, Inv, Structure, TypeOK
<1>2. Unwritten' = Unwritten
  BY <1>1 DEF Unwritten
<1>3. CASE backend.pc = "start" /\ SwitchFile(day, "check") /\ UNCHANGED <<bufs, cq>>
  <2>1. \A o \in Unwritten : o.day = backend.today /\ o \in Write
    BY <1>1, <1>3, ElementTypes DEF Inv, Contents, Extents, Unwritten, Writes
  <2>2. Unwritten = {}
    BY <1>1, <1>3, <2>1 DEF Write
  <2> QED
    BY <1>1, <1>3, <2>2, SwitchKeepsLines
<1>4. CASE backend.pc = "check" /\ (Goto("drain") \/ Goto("acquire"))
  BY <1>1, <1>2, <1>4, GotoKeepsLines
<1>5. CASE /\ backend.pc = "check" /\ UNCHANGED <<bufs, cq>>
           /\ backend' = [backend EXCEPT !.pc = "rotate", !.today = day]
  <2>1. backend'.pc = "rotate" /\ backend'.today = day /\ day \in 0..MaxDay
    BY <1>1, <1>5, DayRange DEF BackendState
  <2>2. ASSUME NEW o \in Unwritten
        PROVE  o.day <= day
    BY <1>1, <1>5 DEF Inv, Contents, Extents
  <2>3. Extents'
    BY <1>1, <1>2, <2>1, <2>2 DEF Inv, Contents, Extents
  <2> QED
    BY <1>1, <1>2, <1>5, <2>1, <2>3, BackendKeepsLines
<1>6. CASE AwaitWrites
  BY <1>1, <1>6, AwaitedIsThere, HandleCqeKeepsContents
<1>7. CASE /\ backend.pc = "rotate" /\ backend.in_flight = 0
           /\ SwitchFile(backend.today, "acquire") /\ UNCHANGED <<bufs, cq>>
  <2>1. Unwritten = {} /\ backend.today <= backend.today
    BY <1>1, <1>7, EmptyRing, DayRange DEF Unwritten, Writes
  <2> QED
    BY <1>1, <1>7, <2>1, SwitchKeepsLines
<1>8. CASE backend.pc = "acquire" /\ Goto("drain")
  BY <1>1, <1>2, <1>8, GotoKeepsLines
<1> QED
  BY <1>3, <1>4, <1>5, <1>6, <1>7, <1>8 DEF BackendWait

\* submit.
LEMMA SubmitKeepsLines ==
  ASSUME Inv, BackendSubmit
  PROVE  Contents'
<1> DEFINE next == IF backend.pc = "drain" THEN "reap" ELSE "finish"
<1>1. /\ backend.pc \in {"drain", "last"} /\ UNCHANGED <<th, disk, dropped>>
      /\ Goto(next) /\ next \in {"reap", "finish"}
      /\ ops' = ops \cup Range(sq) /\ sq' = <<>>
  BY DEF BackendSubmit
<1>2. Range(sq') = {}
  BY <1>1, SMTT(30) DEF Range
<1>3. Unwritten' = Unwritten
  BY <1>1, <1>2 DEF Unwritten
<1> HIDE DEF next
<1> QED
  BY <1>1, <1>3, GotoKeepsLines

\* peek_cqe, the test of the stop token, and the wait after a stop.
LEMMA BackendReapKeepsLines ==
  ASSUME Inv, BackendReap
  PROVE  Contents'
<1>1. TypeOK /\ UNCHANGED <<th, sq, ops, disk, dropped>>
  BY DEF BackendReap, Inv, Structure
<1>2. Unwritten' = Unwritten
  BY <1>1 DEF Unwritten
<1>3. CASE cq # <<>> /\ HandleCqe
  BY <1>1, <1>3, HandleCqeKeepsContents
<1>4. CASE backend.pc = "reap" /\ Goto(IF backend.stop THEN "last" ELSE "check")
  <2> DEFINE next == IF backend.stop THEN "last" ELSE "check"
  <2>1. next \in {"last", "check"} /\ Goto(next)
    BY <1>4
  <2> HIDE DEF next
  <2> QED
    BY <1>1, <1>2, <1>4, <2>1, GotoKeepsLines
<1>5. CASE AwaitWrites
  BY <1>1, <1>5, AwaitedIsThere, HandleCqeKeepsContents
<1>6. CASE backend.pc = "finish" /\ Goto("done")
  BY <1>1, <1>2, <1>6, GotoKeepsLines
<1> QED
  BY <1>3, <1>4, <1>5, <1>6 DEF BackendReap

\* The kernel reads the lines of the whole buffer.
LEMMA MemoryIsBuffer ==
  ASSUME Inv, NEW o \in ops
  PROVE  /\ Memory(o.buf, o.len) = bufs[o.buf].lines
         /\ bufs[o.buf].lines \in Seq(Line) /\ o \in Write /\ o.buf \in Buf
         /\ o.len = Len(bufs[o.buf].lines)
<1>1. TypeOK /\ o \in Writes /\ o \in Unwritten
  BY DEF Inv, Structure, Writes, Unwritten
<1>2. o \in Write /\ o.buf \in Buf
  BY <1>1, ElementTypes
<1>3. bufs[o.buf].lines \in Seq(Line)
  BY <1>1, <1>2 DEF TypeOK, Buffer
<1>4. o.len = Len(bufs[o.buf].lines)
  BY <1>1 DEF Inv, Contents, WholeBuffers
<1> DEFINE m == bufs[o.buf].lines
<1>5. Memory(o.buf, o.len) = [k \in 1..Len(m) |-> IF k <= Len(m) THEN m[k] ELSE Hole]
  BY <1>4 DEF Memory
<1>6. m \in Seq(Line)
  BY <1>3
<1> HIDE DEF m
<1>7. [k \in 1..Len(m) |-> IF k <= Len(m) THEN m[k] ELSE Hole] = m
  BY <1>6, SMTT(30)
<1> QED
  BY <1>2, <1>3, <1>4, <1>5, <1>7 DEF m

\* A write of n lines reads the first ones; the others are given up.
LEMMA MemoryIsPrefix ==
  ASSUME Inv, NEW o \in ops, NEW n \in 0..o.len, NEW m, m = Memory(o.buf, n)
  PROVE  /\ m \in Seq(Line) /\ Len(m) = n /\ DOMAIN m = 1..n /\ n \in Nat /\ n <= o.len
         /\ \A i \in DOMAIN m : i \in DOMAIN bufs[o.buf].lines /\ m[i] = bufs[o.buf].lines[i]
         /\ \A l \in Range(bufs[o.buf].lines) :
              l \in Range(m) \/ l \in {Memory(o.buf, o.len)[k] : k \in n + 1..o.len}
<1> DEFINE b == bufs[o.buf].lines
<1>1. Memory(o.buf, o.len) = b /\ b \in Seq(Line) /\ o.len = Len(b)
  BY MemoryIsBuffer
<1>2. m = [k \in 1..n |-> IF k <= Len(b) THEN b[k] ELSE Hole]
  BY DEF Memory
<1>3. n \in 0..Len(b)
  BY <1>1
<1> HIDE DEF b
<1>4. n \in Nat /\ n <= Len(b) /\ Len(b) \in Nat /\ DOMAIN b = 1..Len(b)
  BY <1>1, <1>3, SMTT(30)
<1>5. \A k \in 1..n : k \in DOMAIN b /\ k <= Len(b) /\ b[k] \in Line
  BY <1>1, <1>4, SMTT(30)
<1>6. m = [k \in 1..n |-> b[k]]
  BY <1>2, <1>5
<1>7. m \in Seq(Line) /\ Len(m) = n /\ DOMAIN m = 1..n
  BY <1>4, <1>5, <1>6, SMTT(30)
<1>8. \A k \in DOMAIN b : k \in 1..n \/ k \in n + 1..Len(b)
  BY <1>4, SMTT(30)
<1>9. \A l \in Range(b) : l \in Range(m) \/ l \in {b[k] : k \in n + 1..Len(b)}
  BY <1>6, <1>7, <1>8 DEF Range
<1>10. \A i \in DOMAIN m : i \in DOMAIN b /\ m[i] = b[i]
  BY <1>5, <1>6, <1>7
<1>11. n <= o.len
  BY <1>1, <1>4
<1> QED
  BY <1>1, <1>4, <1>7, <1>9, <1>10, <1>11 DEF b

\* Lines are neither holes nor the line of the earlier run.
LEMMA LineIsNew == Hole \notin Line /\ Earlier \notin Line /\ Hole # Earlier
<1>1. \A l \in Line : l # <<>> /\ l[1] \in Thread
  BY SMTT(30) DEF Line
<1>2. Earlier[1] = "earlier run" /\ Earlier # <<>>
  BY DEF Earlier
<1> QED
  BY <1>1, <1>2, LoggerAssumption DEF Hole

\* What a step that ends the write o leaves to be written, and who may still
\* write to the thread's other buffer.
LEMMA EndedWrite ==
  ASSUME Inv, NEW o \in ops, ops' = ops \ {o}, cq' = Append(cq, o), UNCHANGED sq
  PROVE  /\ Unwritten' = Unwritten \ {o} /\ o \in Unwritten
         /\ Range(cq') = Range(cq) \cup {o}
         /\ \A p \in Unwritten' : p.buf[1] # o.buf[1]
         /\ o.buf \notin {p.buf : p \in Range(cq)}
         /\ \A b \in Buf : b[1] = o.buf[1] /\ b # o.buf =>
              \A i \in DOMAIN bufs[o.buf].lines, j \in DOMAIN bufs[b].lines :
                bufs[o.buf].lines[i][2] < bufs[b].lines[j][2]
<1>1. TypeOK /\ Structure /\ cq \in Seq(Write) /\ o \in Write /\ o \in Writes
  BY DEF Inv, Structure, TypeOK, Writes
<1>2. Range(cq') = Range(cq) \cup {o}
  BY <1>1, AppendSet, SMTT(30)
<1>3. /\ Unwritten' = Unwritten \ {o} /\ o \in Unwritten
      /\ Unwritten \subseteq Writes /\ Range(cq) \subseteq Writes /\ o \notin Range(cq)
  BY <1>1 DEF Structure, OnePlace, Unwritten, Writes
<1>4. \A p \in Writes : p.buf[1] = o.buf[1] => p = o
  BY <1>1 DEF Structure, OnePlace
<1>5. /\ \A p \in Unwritten' : p.buf[1] # o.buf[1]
      /\ o.buf \notin {p.buf : p \in Range(cq)}
  BY <1>3, <1>4
<1>6. ASSUME NEW b \in Buf, b[1] = o.buf[1], b # o.buf,
             NEW i \in DOMAIN bufs[o.buf].lines, NEW j \in DOMAIN bufs[b].lines
      PROVE  bufs[o.buf].lines[i][2] < bufs[b].lines[j][2]
  <2> DEFINE u == o.buf[1]
  <2>1. o.buf \in Buf
    BY <1>1, ElementTypes
  <2>2. u \in Thread /\ o.buf \in {front(u), back(u)} /\ b \in {front(u), back(u)}
    BY <1>1, <1>6, <2>1, TwoBuffers
  <2>3. CASE o.buf = back(u) /\ b = front(u)
    BY <1>6, <2>2, <2>3 DEF Inv, Contents, BackIsOlder
  <2>4. CASE o.buf = front(u) /\ b = back(u)
    <3>1. b \notin Referenced
      <4>1. \A q \in Range(flush_queue_) : q.buf # b
        BY <1>1, <1>6 DEF Structure, OnePlace
      <4>2. \A p \in Writes : p.buf # b
        BY <1>4, <1>6
      <4> QED
        BY <4>1, <4>2 DEF Referenced, Writes
    <3>2. Free(b)
      BY <1>1, <3>1 DEF Structure, Flagged, Free
    <3>3. bufs[b].lines = <<>>
      BY <2>2, <2>4, <3>2 DEF Inv, Contents, BackIsOlder
    <3> QED
      BY <3>3, SMTT(30)
  <2> QED
    BY <1>6, <2>2, <2>3, <2>4
<1> QED
  BY <1>2, <1>3, <1>5, <1>6

\* The files after the write o of lines m: nothing is overwritten.
Saved(o, m) ==
  /\ \A d \in Day : \A k \in DOMAIN disk[d] : disk[d][k] # Hole =>
       k \in DOMAIN disk'[d] /\ disk'[d][k] = disk[d][k]
  /\ \A d \in Day : \A k \in DOMAIN disk'[d] :
       \/ disk'[d][k] = Hole
       \/ k \in DOMAIN disk[d] /\ disk'[d][k] = disk[d][k]
       \/ d = o.day /\ k - o.off \in DOMAIN m /\ disk'[d][k] = m[k - o.off]
  /\ \A i \in DOMAIN m : /\ o.off + i \in DOMAIN disk'[o.day]
                         /\ disk'[o.day][o.off + i] = m[i]
  /\ \A d \in Day : \/ Len(disk'[d]) = Len(disk[d])
                    \/ d = o.day /\ Len(disk'[d]) = o.off + Len(m)

\* What a write of the lines m changes in the files.
LEMMA WrittenCells ==
  ASSUME Inv, NEW o \in ops, NEW m \in Seq(Line), Len(m) <= o.len,
         disk' = [disk EXCEPT ![o.day] = WriteAt(@, o.off, m)]
  PROVE  Saved(o, m)
<1> DEFINE f == disk[o.day]
           w == WriteAt(f, o.off, m)
<1>1. m \in Seq(Line) /\ o \in Write
  BY MemoryIsBuffer
<1>2. o.day \in Day /\ o.off \in Nat /\ o.len \in Nat
  BY <1>1 DEF Write
<1>3. disk \in [Day -> Seq(Cell)] /\ f \in Seq(Cell) /\ m \in Seq(Cell) /\ Hole \in Cell
  <2>1. disk \in [Day -> Seq(Cell)] /\ Hole \in Cell
    BY DEF Inv, Structure, TypeOK, Cell
  <2>2. m \in Seq(Cell)
    <3>1. Line \subseteq Cell
      BY DEF Cell
    <3>2. \A q \in Seq(Line) : q \in Seq(Cell)
      BY <3>1, SMTT(30)
    <3> QED
      BY <1>1, <3>2
  <2> QED
    BY <1>2, <2>1, <2>2
<1>4. disk'[o.day] = w /\ \A d \in Day : d # o.day => disk'[d] = disk[d]
  BY <1>1, <1>2, <1>3
<1>5. /\ w \in Seq(Cell)
      /\ Len(w) >= Len(f) /\ Len(w) >= o.off + Len(m)
      /\ Len(w) = Len(f) \/ Len(w) = o.off + Len(m)
      /\ DOMAIN w = 1..Len(w)
      /\ \A k \in 1..Len(m) : o.off + k \in 1..Len(w) /\ w[o.off + k] = m[k]
      /\ \A k \in 1..Len(w) : \/ k - o.off \in 1..Len(m) /\ w[k] = m[k - o.off]
                              \/ /\ ~(o.off < k /\ k <= o.off + Len(m))
                                 /\ \/ k \in 1..Len(f) /\ w[k] = f[k]
                                    \/ k \notin 1..Len(f) /\ w[k] = Hole
  BY <1>2, <1>3, WriteAtEffect
<1>6. /\ Len(f) \in Nat /\ DOMAIN f = 1..Len(f)
      /\ Len(m) \in Nat /\ DOMAIN m = 1..Len(m) /\ Len(w) \in Nat
  BY <1>3, <1>5, SMTT(30)
<1>7. \A k \in DOMAIN f : o.off < k /\ k <= o.off + Len(m) => f[k] = Hole
  <2>1. o \in Unwritten
    BY DEF Unwritten
  <2>2. \A k \in DOMAIN f : o.off < k /\ k <= o.off + o.len => f[k] = Hole
    BY <2>1 DEF Inv, Contents, Extents
  <2>3. \A k \in 1..Len(f) : k <= o.off + Len(m) => k <= o.off + o.len
    <3> HIDE DEF f
    <3> QED
      BY <1>1, <1>2, <1>6, SMTT(30)
  <2> QED
    BY <1>6, <2>2, <2>3
<1> HIDE DEF w, f
<1>8. ASSUME NEW k \in DOMAIN f, f[k] # Hole
      PROVE  k \in DOMAIN w /\ w[k] = f[k]
  <2>3. Len(w) >= Len(f)
    BY <1>5
  <2>4. k \in 1..Len(w) /\ k \in 1..Len(f)
    BY <1>6, <2>3, SMTT(30)
  <2>1. k \in 1..Len(w) /\ k \in 1..Len(f) /\ ~(o.off < k /\ k <= o.off + Len(m))
    BY <1>7, <1>8, <2>4
  <2>2. ~(k - o.off \in 1..Len(m))
    BY <1>2, <1>6, <2>1, SMTT(30)
  <2> QED
    BY <1>5, <2>1, <2>2
<1>9. ASSUME NEW d \in Day, NEW k \in DOMAIN disk[d], disk[d][k] # Hole
      PROVE  k \in DOMAIN disk'[d] /\ disk'[d][k] = disk[d][k]
  BY <1>4, <1>8, <1>9 DEF f
<1>10. ASSUME NEW d \in Day, NEW k \in DOMAIN disk'[d]
       PROVE  \/ disk'[d][k] = Hole
              \/ k \in DOMAIN disk[d] /\ disk'[d][k] = disk[d][k]
              \/ d = o.day /\ k - o.off \in DOMAIN m /\ disk'[d][k] = m[k - o.off]
  <2>1. CASE d # o.day
    BY <1>4, <2>1
  <2>2. CASE d = o.day
    <3>1. k \in 1..Len(w) /\ disk'[d][k] = w[k]
      BY <1>4, <1>5, <2>2
    <3> QED
      BY <1>5, <1>6, <2>2, <3>1 DEF f
  <2> QED
    BY <2>1, <2>2
<1>11. \A i \in DOMAIN m : o.off + i \in DOMAIN disk'[o.day] /\ disk'[o.day][o.off + i] = m[i]
  BY <1>4, <1>5, <1>6
<1>12. \A d \in Day : \/ Len(disk'[d]) = Len(disk[d])
                      \/ d = o.day /\ Len(disk'[d]) = o.off + Len(m)
  BY <1>1, <1>4, <1>5 DEF f
<1> QED
  BY <1>9, <1>10, <1>11, <1>12 DEF Saved

\* The lines m are the first of a buffer of which the others are given up.
PartOf(o, m) ==
  /\ Len(m) <= o.len
  /\ \A i \in DOMAIN m : i \in DOMAIN bufs[o.buf].lines /\ m[i] = bufs[o.buf].lines[i]
  /\ \A l \in Range(bufs[o.buf].lines) : l \in Range(m) \/ l \in dropped'

\* The lines m that a write puts in a file are younger than those of their
\* thread in the files and behind them; the buffer's others are given up.
LEMMA WriteKeepsLines ==
  ASSUME Inv, NEW o \in ops, ops' = ops \ {o}, cq' = Append(cq, o),
         UNCHANGED <<th, bufs, backend, sq>>, dropped \subseteq dropped',
         NEW m \in Seq(Line), PartOf(o, m), Saved(o, m), TypeOK'
  PROVE  Contents'
<1>0. o.day \in Day /\ o.off \in Nat /\ o.len \in Nat /\ Len(m) <= o.len
  BY MemoryIsBuffer DEF Write, PartOf
<1>1. TypeOK /\ Structure /\ o.buf \in Buf /\ o.buf[1] \in Thread
  BY MemoryIsBuffer, TwoBuffers DEF Inv, Structure
<1>2. /\ Unwritten' = Unwritten \ {o} /\ o \in Unwritten
      /\ Range(cq') = Range(cq) \cup {o}
      /\ \A p \in Unwritten' : p.buf[1] # o.buf[1]
      /\ o.buf \notin {p.buf : p \in Range(cq)}
      /\ \A b \in Buf : b[1] = o.buf[1] /\ b # o.buf =>
           \A i \in DOMAIN m, j \in DOMAIN bufs[b].lines : m[i][2] < bufs[b].lines[j][2]
  BY EndedWrite DEF PartOf
<1>3. Len(m) \in Nat /\ DOMAIN m = 1..Len(m) /\ \A i \in DOMAIN m : m[i] \in Line
  BY SMTT(30)
<1>4. /\ \A i \in DOMAIN m : m[i][1] = o.buf[1] /\ m[i][2] <= th[o.buf[1]].count
      /\ \A i, j \in DOMAIN m : i < j => m[i][2] < m[j][2]
  <2> DEFINE b == bufs[o.buf].lines
  <2>1. /\ \A i \in DOMAIN b : b[i][1] = o.buf[1] /\ b[i][2] <= th[o.buf[1]].count
        /\ \A i, j \in DOMAIN b : i < j => b[i][2] < b[j][2]
    BY <1>1 DEF Inv, Contents, OwnLines
  <2>2. \A i \in DOMAIN m : i \in DOMAIN b /\ m[i] = b[i]
    BY DEF PartOf
  <2> HIDE DEF b
  <2>3. ASSUME NEW i \in DOMAIN m
        PROVE  m[i][1] = o.buf[1] /\ m[i][2] <= th[o.buf[1]].count
    <3>1. /\ b[i][1] = o.buf[1] /\ b[i][2] <= th[o.buf[1]].count
          /\ m[i] = b[i]
      BY <2>1, <2>2
    <3> QED
      BY <3>1
  <2>4. ASSUME NEW i \in DOMAIN m, NEW j \in DOMAIN m, i < j
        PROVE  m[i][2] < m[j][2]
    <3>1. b[i][2] < b[j][2] /\ m[i] = b[i] /\ m[j] = b[j]
      BY <2>1, <2>2, <2>4
    <3> QED
      BY <3>1
  <2> QED
    BY <2>3, <2>4
<1>5. \A d \in Day : /\ d \in Nat
                     /\ Len(disk[d]) \in Nat /\ DOMAIN disk[d] = 1..Len(disk[d])
                     /\ Len(disk'[d]) \in Nat /\ DOMAIN disk'[d] = 1..Len(disk'[d])
  <2>1. \A d \in Day : /\ disk[d] \in Seq(Line \cup {Hole, Earlier})
                       /\ disk'[d] \in Seq(Line \cup {Hole, Earlier})
    BY <1>1 DEF TypeOK
  <2> QED
    BY <2>1, DayRange, SMTT(30)
<1>6. /\ \A p \in Unwritten : /\ p.day \in Day /\ p.off \in Nat /\ p.len \in Nat
                              /\ p.day <= backend.today
      /\ backend.today \in Nat
  <2>1. \A p \in Unwritten : p \in Write
    BY <1>1, ElementTypes DEF Unwritten, Writes
  <2> QED
    <3>1. \A p \in Unwritten : p.day \in Day /\ p.off \in Nat /\ p.len \in Nat
      BY <2>1 DEF Write
    <3>2. \A p \in Unwritten : p.day <= backend.today
      BY DEF Inv, Contents, Extents
    <3>3. backend.today \in 0..MaxDay
      BY <1>1 DEF TypeOK, BackendState
    <3>4. backend.today \in Nat
      BY <3>3, DayRange, SMTT(30)
    <3> QED
      BY <3>1, <3>2, <3>4
<1>7. OwnLines' /\ BackIsOlder'
  BY DEF Inv, Contents, OwnLines, BackIsOlder, Free, front, back
<1>16. ASSUME NEW d \in Day, NEW k \in DOMAIN disk'[d], disk'[d][k] # Hole
       PROVE  \/ k \in DOMAIN disk[d] /\ disk'[d][k] = disk[d][k]
              \/ d = o.day /\ k - o.off \in DOMAIN m /\ disk'[d][k] = m[k - o.off]
  BY <1>16 DEF Saved
<1>8. ASSUME NEW l, l # Hole, OnDisk(l)
      PROVE  (OnDisk(l))'
  BY <1>0, <1>8, SMTT(30) DEF OnDisk, Range, Saved
<1>9. ASSUME NEW i \in DOMAIN m
      PROVE  (OnDisk(m[i]))'
  BY <1>0 DEF OnDisk, Range, Saved
<1>10. WholeBuffers'
  <2>1. \A p \in Unwritten' : p.len = Len(bufs'[p.buf].lines)
    BY <1>2 DEF Inv, Contents, WholeBuffers
  <2>2. ASSUME NEW p \in Range(cq'), NEW l \in Range(bufs[p.buf].lines)
        PROVE  (OnDisk(l))' \/ l \in dropped'
    <3>1. CASE p = o
      BY <1>9, <3>1 DEF Range, PartOf
    <3>2. CASE p \in Range(cq)
      <4>1. l \in Line
        <5>1. p.buf \in Buf
          BY <1>1, <3>2, ElementTypes DEF Writes
        <5>2. bufs[p.buf].lines \in Seq(Line)
          BY <1>1, <5>1 DEF TypeOK, Buffer
        <5> QED
          BY <5>2, SMTT(30) DEF Range
      <4> QED
        BY <1>8, <3>2, <4>1, LineIsNew DEF Inv, Contents, WholeBuffers
    <3> QED
      BY <1>2, <3>1, <3>2
  <2> QED
    BY <2>1, <2>2 DEF WholeBuffers
<1>11. FileLines'
  <2>1. disk'[1] # <<>> /\ disk'[1][1] = Earlier
    <3>1. 1 \in Day /\ disk[1] # <<>> /\ disk[1][1] = Earlier
      BY DayRange DEF Inv, Contents, FileLines
    <3>2. 1 \in DOMAIN disk[1] /\ disk[1][1] # Hole
      BY <1>5, <3>1, LineIsNew, SMTT(30)
    <3>3. 1 \in DOMAIN disk'[1] /\ disk'[1][1] = Earlier
      BY <3>1, <3>2 DEF Saved
    <3> QED
      BY <3>3, SMTT(30)
  <2>2. ASSUME NEW d \in Day, NEW k \in DOMAIN disk'[d]
        PROVE  /\ disk'[d][k] = Earlier => d = 1 /\ k = 1
               /\ disk'[d][k] \in Line =>
                    /\ d <= backend.today
                    /\ disk'[d][k][2] <= th[disk'[d][k][1]].count
    <3>1. CASE disk'[d][k] = Hole
      BY <3>1, LineIsNew
    <3>2. CASE k \in DOMAIN disk[d] /\ disk'[d][k] = disk[d][k]
      BY <3>2 DEF Inv, Contents, FileLines
    <3>3. CASE d = o.day /\ k - o.off \in DOMAIN m /\ disk'[d][k] = m[k - o.off]
      <4>1. d <= backend.today
        BY <1>2, <1>6, <3>3
      <4>2. /\ disk'[d][k] \in Line
            /\ disk'[d][k][1] = o.buf[1] /\ disk'[d][k][2] <= th[o.buf[1]].count
        BY <1>3, <1>4, <3>3
      <4> QED
        BY <4>1, <4>2, LineIsNew
    <3> QED
      BY <1>16, <3>1, <3>2, <3>3
  <2> QED
    BY <2>1, <2>2 DEF FileLines
<1>12. YoungBuffers'
  <2>1. ASSUME NEW d \in Day, NEW k \in DOMAIN disk'[d], disk'[d][k] \in Line,
               NEW b \in Buf, NEW j \in DOMAIN bufs[b].lines, b[1] = disk'[d][k][1],
               b \notin {p.buf : p \in Range(cq')}
        PROVE  disk'[d][k][2] < bufs[b].lines[j][2]
    <3>1. b # o.buf /\ b \notin {p.buf : p \in Range(cq)}
      BY <1>2, <2>1
    <3>2. CASE k \in DOMAIN disk[d] /\ disk'[d][k] = disk[d][k]
      BY <2>1, <3>1, <3>2 DEF Inv, Contents, YoungBuffers
    <3>3. CASE d = o.day /\ k - o.off \in DOMAIN m /\ disk'[d][k] = m[k - o.off]
      BY <1>2, <1>4, <2>1, <3>1, <3>3
    <3> QED
      BY <1>16, <2>1, <3>2, <3>3, LineIsNew
  <2>2. ASSUME NEW d \in Day, NEW k \in DOMAIN disk'[d], disk'[d][k] \in Line,
               NEW p \in Unwritten', p.buf[1] = disk'[d][k][1]
        PROVE  d < p.day \/ (d = p.day /\ k <= p.off)
    <3>1. CASE k \in DOMAIN disk[d] /\ disk'[d][k] = disk[d][k]
      BY <1>2, <2>2, <3>1 DEF Inv, Contents, YoungBuffers
    <3>2. CASE d = o.day /\ k - o.off \in DOMAIN m /\ disk'[d][k] = m[k - o.off]
      BY <1>2, <1>4, <2>2, <3>2
    <3> QED
      BY <1>16, <2>2, <3>1, <3>2, LineIsNew
  <2> QED
    BY <2>1, <2>2 DEF YoungBuffers
<1>13. Extents'
  <2>1. ASSUME NEW p \in Unwritten', NEW k \in DOMAIN disk'[p.day],
               p.off < k, k <= p.off + p.len
        PROVE  disk'[p.day][k] = Hole
    <3>1. p \in Unwritten /\ p # o /\ p.day \in Day
      BY <1>2, <1>6
    <3>2. CASE k \in DOMAIN disk[p.day] /\ disk'[p.day][k] = disk[p.day][k]
      BY <2>1, <3>1, <3>2 DEF Inv, Contents, Extents
    <3>3. CASE p.day = o.day /\ k - o.off \in DOMAIN m
      <4>1. o.off + o.len <= p.off \/ p.off + p.len <= o.off
        BY <1>2, <3>1, <3>3 DEF Inv, Contents, Extents
      <4>2. k \in Nat /\ o.off < k /\ k <= o.off + o.len
        <5>1. k \in Nat
          BY <1>5, <3>1, SMTT(30)
        <5>2. k - o.off \in 1..Len(m) /\ Len(m) \in Nat
          BY <1>3, <3>3
        <5> QED
          BY <1>0, <5>1, <5>2, SMTT(30)
      <4> QED
        BY <1>0, <1>6, <2>1, <3>1, <4>1, <4>2, SMTT(30)
    <3> QED
      BY <1>16, <3>1, <3>2, <3>3
  <2>2. ASSUME backend.pc # "rotate", backend.open
        PROVE  Len(disk'[backend.today]) <= backend.offset
    <3>1. /\ backend.today \in Day /\ Len(disk[backend.today]) <= backend.offset
          /\ o.off + o.len <= backend.offset
      BY <1>2, <2>2 DEF Inv, Contents, Extents
    <3>2. o.off + Len(m) <= backend.offset
      <4>1. backend.offset \in Nat
        BY <1>1 DEF TypeOK, BackendState
      <4> QED
        BY <1>0, <1>3, <3>1, <4>1, SMTT(30)
    <3> QED
      BY <3>1, <3>2 DEF Saved
  <2>3. ASSUME backend.pc # "rotate"
        PROVE  \A p \in Unwritten' :
                 p.day = backend.today /\ p.off + p.len <= backend.offset
    BY <1>2, <2>3 DEF Inv, Contents, Extents
  <2>4. \A p, q \in Unwritten' :
          p # q /\ p.day = q.day => p.off + p.len <= q.off \/ q.off + q.len <= p.off
    BY <1>2 DEF Inv, Contents, Extents
  <2>5. /\ \A p \in Unwritten' : p.day <= backend.today
        /\ backend.pc # "rotate" /\ backend.open => backend.today \in Day
    BY <1>2, <1>6 DEF Inv, Contents, Extents
  <2> QED
    BY <2>1, <2>2, <2>3, <2>4, <2>5 DEF Extents
<1>14. LinesConserved'
  <2>1. Earlier \in Range(disk'[1])
    BY <1>5, <1>11, DayRange, SMTT(30) DEF FileLines, Range
  <2>2. ASSUME NEW t \in Thread, NEW n \in 1..th[t].count
        PROVE  \/ (OnDisk(<<t, n>>))' \/ <<t, n>> \in dropped'
               \/ \E i \in {0, 1} : <<t, n>> \in Range(bufs[<<t, i>>].lines)
    <3>1. <<t, n>> # Hole
      BY DEF Hole
    <3> QED
      BY <1>8, <3>1 DEF Inv, Contents, LinesConserved
  <2> QED
    BY <2>1, <2>2 DEF LinesConserved
<1>15. LogOrder'
  <2> SUFFICES ASSUME NEW c \in Day, NEW d \in Day,
                      NEW j \in DOMAIN disk'[c], NEW k \in DOMAIN disk'[d],
                      c < d \/ (c = d /\ j < k),
                      disk'[c][j] # Hole, disk'[d][k] # Hole,
                      disk'[c][j][1] = disk'[d][k][1]
               PROVE  disk'[c][j][2] < disk'[d][k][2]
    BY DEF LogOrder
  <2>1. j \in Nat /\ k \in Nat /\ c \in Nat /\ d \in Nat
    BY <1>5, SMTT(30)
  <2>2. ASSUME NEW e \in Day, NEW i \in DOMAIN disk[e], disk[e][i] # Hole,
               disk[e][i][1] = o.buf[1]
        PROVE  disk[e][i] \in Line
    <3>1. disk[e][i] \in Line \cup {Hole, Earlier}
      BY <1>1, SMTT(30) DEF TypeOK
    <3>2. Earlier[1] = "earlier run"
      BY DEF Earlier
    <3> QED
      <4>1. disk[e][i] # Earlier
        BY <1>1, <2>2, <3>2, LoggerAssumption
      <4> QED
        BY <2>2, <3>1, <4>1
  <2>3. CASE /\ j \in DOMAIN disk[c] /\ disk'[c][j] = disk[c][j]
             /\ k \in DOMAIN disk[d] /\ disk'[d][k] = disk[d][k]
    BY <2>3 DEF Inv, Contents, LogOrder
  <2>4. CASE /\ j \in DOMAIN disk[c] /\ disk'[c][j] = disk[c][j]
             /\ d = o.day /\ k - o.off \in DOMAIN m /\ disk'[d][k] = m[k - o.off]
    <3>1. disk[c][j][1] = o.buf[1]
      BY <1>4, <2>4
    <3>2. disk[c][j] \in Line
      BY <2>2, <2>4, <3>1
    <3>3. \A i \in DOMAIN m : disk[c][j][2] < m[i][2]
      BY <1>1, <1>2, <2>4, <3>1, <3>2 DEF Inv, Contents, YoungBuffers, PartOf
    <3> QED
      BY <2>4, <3>3
  <2>5. CASE /\ c = o.day /\ j - o.off \in DOMAIN m /\ disk'[c][j] = m[j - o.off]
             /\ k \in DOMAIN disk[d] /\ disk'[d][k] = disk[d][k]
    <3>1. disk[d][k][1] = o.buf[1]
      BY <1>4, <2>5
    <3>2. disk[d][k] \in Line
      BY <2>2, <2>5, <3>1
    <3>3. d < o.day \/ (d = o.day /\ k <= o.off)
      BY <1>2, <2>5, <3>1, <3>2 DEF Inv, Contents, YoungBuffers
    <3>4. o.off < j
      BY <1>0, <1>3, <2>1, <2>5, SMTT(30)
    <3>5. c = o.day
      BY <2>5
    <3> QED
      BY <1>0, <2>1, <3>3, <3>4, <3>5, SMTT(30)
  <2>6. CASE /\ c = o.day /\ j - o.off \in DOMAIN m /\ disk'[c][j] = m[j - o.off]
             /\ d = o.day /\ k - o.off \in DOMAIN m /\ disk'[d][k] = m[k - o.off]
    <3>1. c = d
      BY <2>6
    <3>2. o.off \in Nat
      BY <1>0
    <3>3. j < k
      BY <2>1, <3>1, SMTT(30)
    <3>4. j - o.off < k - o.off
      BY <2>1, <3>2, <3>3, SMTT(30)
    <3> QED
      BY <1>4, <2>6, <3>4
  <2> QED
    BY <1>16, <2>3, <2>4, <2>5, <2>6
<1> QED
  BY <1>7, <1>10, <1>11, <1>12, <1>13, <1>14, <1>15 DEF Contents

\* A write ends.
LEMMA KernelWriteKeepsLines ==
  ASSUME Inv, KernelWrite, TypeOK'
  PROVE  Contents'
<1>1. PICK o \in ops : \E n \in 0..o.len :
        /\ ops' = ops \ {o} /\ cq' = Append(cq, o)
        /\ disk' = IF n = 0 THEN disk
                   ELSE [disk EXCEPT ![o.day] = WriteAt(@, o.off, Memory(o.buf, n))]
        /\ dropped' = dropped \cup {Memory(o.buf, o.len)[k] : k \in n + 1..o.len}
  BY DEF KernelWrite
<1>2. PICK n \in 0..o.len :
        /\ disk' = IF n = 0 THEN disk
                   ELSE [disk EXCEPT ![o.day] = WriteAt(@, o.off, Memory(o.buf, n))]
        /\ dropped' = dropped \cup {Memory(o.buf, o.len)[k] : k \in n + 1..o.len}
  BY <1>1
<1>3. UNCHANGED <<th, bufs, backend, sq>>
  BY DEF KernelWrite
<1> DEFINE m == Memory(o.buf, n)
<1>4. m \in Seq(Line) /\ Len(m) <= o.len /\ DOMAIN m = 1..n /\ PartOf(o, m)
  BY <1>2, MemoryIsPrefix DEF PartOf
<1>5. Saved(o, m)
  <2>1. CASE n = 0
    <3>1. disk' = disk /\ DOMAIN m = {}
      BY <1>2, <1>4, <2>1, SMTT(30)
    <3> HIDE DEF m
    <3> QED
      BY <3>1 DEF Saved
  <2>2. CASE n # 0
    <3>1. disk' = [disk EXCEPT ![o.day] = WriteAt(@, o.off, m)]
      BY <1>2, <2>2
    <3> HIDE DEF m
    <3> QED
      BY <1>4, <3>1, WrittenCells
  <2> QED
    BY <2>1, <2>2
<1> HIDE DEF m
<1>6. dropped \subseteq dropped'
  BY <1>2
<1> QED
  BY <1>1, <1>3, <1>4, <1>5, <1>6, WriteKeepsLines

\* The initial state.
LEMMA ContentsInit == Init => Contents
<1> SUFFICES ASSUME Init PROVE Contents
  OBVIOUS
<1>1. /\ sq = <<>> /\ cq = <<>> /\ ops = {} /\ Range(sq) = {} /\ Range(cq) = {}
      /\ Unwritten = {} /\ backend.pc = "start" /\ ~backend.open /\ TypeOK
  BY StructureInit, SMTT(30) DEF Init, Range, Unwritten, Structure
<1>2. \A b \in Buf : bufs[b].lines = <<>> /\ DOMAIN bufs[b].lines = {}
  BY SMTT(30) DEF Init, Fresh
<1>3. /\ disk[1] = <<Earlier>> /\ 1 \in Day
      /\ \A d \in Day : d # 1 => disk[d] = <<>>
  BY DayRange DEF Init
<1>4. \A d \in Day : \A k \in DOMAIN disk[d] : d = 1 /\ k = 1 /\ disk[d][k] = Earlier
  BY <1>3, SMTT(30)
<1>5. OwnLines /\ WholeBuffers
  BY <1>1, <1>2 DEF OwnLines, WholeBuffers
<1>6. BackIsOlder
  BY <1>1, <1>2, TwoBuffers DEF BackIsOlder
<1>7. FileLines /\ YoungBuffers
  BY <1>3, <1>4, LineIsNew, SMTT(30) DEF FileLines, YoungBuffers
<1>8. Extents
  BY <1>1 DEF Extents
<1>9. LinesConserved
  <2>1. Earlier \in Range(disk[1])
    BY <1>3, SMTT(30) DEF Range
  <2>2. \A t \in Thread : th[t].count = 0
    BY DEF Init
  <2> QED
    BY <2>1, <2>2, SMTT(30) DEF LinesConserved
<1>10. LogOrder
  <2> SUFFICES ASSUME NEW c \in Day, NEW d \in Day,
                      NEW j \in DOMAIN disk[c], NEW k \in DOMAIN disk[d],
                      c < d \/ (c = d /\ j < k)
               PROVE  FALSE
    BY DEF LogOrder
  <2>1. c = 1 /\ d = 1 /\ j = 1 /\ k = 1
    BY <1>4
  <2> QED
    BY <2>1, SMTT(30)
<1> QED
  BY <1>5, <1>6, <1>7, <1>8, <1>9, <1>10 DEF Contents

\* Every step keeps the lines.
LEMMA InvStep == Inv /\ [Next]_vars => Inv'
<1> SUFFICES ASSUME Inv, [Next]_vars PROVE Inv'
  OBVIOUS
<1>1. Structure /\ Structure' /\ TypeOK'
  BY StructureStep DEF Inv, Structure
<1>2. ASSUME NEW t \in Thread, NEW late \in BOOLEAN, LogLine(t, late)
      PROVE  Contents'
  <2>1. th[t].pc = "run" /\ UNCHANGED <<backend, ring, world, disk>>
    BY <1>2 DEF LogLine
  <2>2. UNCHANGED <<backend, sq, ops, cq, disk>>
    BY <2>1 DEF ring
  <2>3. CASE ClaimFront(t, "append")
    BY <2>1, <2>3, ClaimKeepsLines
  <2>4. CASE /\ th' = [th EXCEPT ![t].count = @ + 1]
             /\ \/ /\ bufs' = [bufs EXCEPT ![front(t)].lines = Append(@, NextLine(t))]
                   /\ UNCHANGED dropped
                \/ dropped' = dropped \cup {NextLine(t)} /\ UNCHANGED bufs
    BY <2>1, <2>2, <2>4, LogKeepsLines
  <2> QED
    BY <1>2, <2>3, <2>4 DEF LogLine
<1>3. ASSUME NEW t \in Thread, Publish(t) \/ Release(t)
      PROVE  Contents'
  BY <1>3, PublishKeepsLines, ReleaseKeepsLines
<1>4. ASSUME NEW t \in Thread, ExitThread(t)
      PROVE  Contents'
  <2>1. UNCHANGED <<backend, ring, world, disk>>
    BY <1>4 DEF ExitThread
  <2>2. CASE ClaimFront(t, "exit")
    BY <2>1, <2>2, ClaimKeepsLines
  <2>3. CASE /\ th' = [th EXCEPT ![t].pc = "wait", ![t].guarded = FALSE]
             /\ UNCHANGED <<bufs, dropped>>
    <3>1. UNCHANGED <<bufs, sq, ops, cq, disk, dropped, backend>>
      BY <2>1, <2>3 DEF ring
    <3> QED
      BY <2>3, <3>1, EndKeepsLines
  <2> QED
    BY <1>4, <2>2, <2>3 DEF ExitThread
<1>5. ASSUME NEW t \in Thread, DeleteState(t)
      PROVE  Contents'
  <2> DEFINE next == IF t = Main THEN "run" ELSE "gone"
  <2>1. /\ next \in {"run", "gone"} /\ FreeState(t, next)
        /\ Free(front(t)) /\ Free(back(t)) /\ UNCHANGED <<sq, ops, cq, disk, backend>>
    BY <1>5 DEF DeleteState, ring
  <2> HIDE DEF next
  <2> QED
    BY <2>1, FreeKeepsLines
<1>6. ASSUME DestroyLogger
      PROVE  Contents'
  <2>1. Main \in Thread /\ UNCHANGED <<backend, ring, world, disk>>
    BY <1>6, LoggerAssumption DEF DestroyLogger
  <2>2. CASE ClaimFront(Main, "dtor")
    BY <2>1, <2>2, ClaimKeepsLines
  <2>3. CASE th' = [th EXCEPT ![Main].pc = "stop"] /\ UNCHANGED <<bufs, dropped>>
    <3>1. UNCHANGED <<bufs, sq, ops, cq, disk, dropped, backend>>
      BY <2>1, <2>3 DEF ring
    <3> QED
      BY <2>1, <2>3, <3>1, EndKeepsLines
  <2> QED
    BY <1>6, <2>2, <2>3 DEF DestroyLogger
<1>7. ASSUME JoinBackend
      PROVE  Contents'
  <2>1. /\ Main \in Thread /\ FreeState(Main, "gone") /\ UNCHANGED <<sq, ops, cq, disk>>
        /\ backend.pc = "done" /\ backend \in BackendState /\ TypeOK
    BY <1>1, <1>7, LoggerAssumption DEF JoinBackend, ring, Structure, TypeOK
  <2>2. /\ backend'.pc = backend.pc /\ backend'.today = backend.today
        /\ ~backend'.open /\ backend'.offset = backend.offset
    BY <1>7, <2>1 DEF JoinBackend, BackendState
  <2>3. flush_queue_ = <<>> /\ backend.in_flight = 0
    BY <1>1, <2>1 DEF Structure, Drained
  <2>4. Referenced = {}
    BY <1>1, <2>3, EmptyRing, SMTT(30) DEF Referenced, Range
  <2>5. Free(front(Main)) /\ Free(back(Main))
    BY <1>1, <2>1, <2>4, TwoBuffers DEF Structure, Flagged, Free
  <2> QED
    BY <2>1, <2>2, <2>5, FreeKeepsLines
<1>8. ASSUME Backend
      PROVE  Contents'
  BY <1>8, BackendWaitKeepsLines, DequeueKeepsLines, SubmitKeepsLines,
     BackendReapKeepsLines DEF Backend
<1>9. ASSUME StopBackend \/ KernelWrite
      PROVE  Contents'
  BY <1>1, <1>9, StopKeepsLines, KernelWriteKeepsLines
<1>10. ASSUME Midnight \/ UNCHANGED vars
       PROVE  Contents'
  <2>1. UNCHANGED <<th, bufs, backend, sq, ops, cq, disk, dropped>>
    BY <1>10 DEF Midnight, vars, ring
  <2>2. Unwritten' = Unwritten /\ backend.today \in 0..MaxDay
    BY <1>1, <2>1 DEF Unwritten, Structure, TypeOK, BackendState
  <2>3. Extents'
    BY <2>1, <2>2, ExtentsStay
  <2>4. backend.today <= backend'.today
    BY <2>1, <2>2, DayRange, SMTT(30)
  <2> QED
    BY <2>1, <2>2, <2>3, <2>4, BackendKeepsLines
<1>11. Contents'
  BY <1>2, <1>3, <1>4, <1>5, <1>6, <1>7, <1>8, <1>9, <1>10 DEF Next
<1> QED
  BY <1>1, <1>11 DEF Inv

\* A logged line is in a file, in a buffer or among those given up, and what an
\* earlier run has logged stays: no write overwrites another's lines, whatever
\* the order in which the kernel ends them.
THEOREM NoLineIsLost == Spec => []LinesConserved
<1>1. Init => Inv
  BY StructureInit, ContentsInit DEF Inv
<1>2. Inv => LinesConserved
  BY DEF Inv, Contents
<1> QED
  BY <1>1, <1>2, InvStep, PTL DEF Spec

\* A thread's lines are in the files in the order they were logged, each once.
THEOREM LinesStayInOrder == Spec => []LogOrder
<1>1. Init => Inv
  BY StructureInit, ContentsInit DEF Inv
<1>2. Inv => LogOrder
  BY DEF Inv, Contents
<1> QED
  BY <1>1, <1>2, InvStep, PTL DEF Spec
=============================================================================
