------------------------------- MODULE Logger -------------------------------
(***************************************************************************)
(* Logger: every thread fills one of its two buffers and hands the full    *)
(* one to a backend thread through flush_queue_; the backend writes the    *)
(* buffers to the file of the day through an io_uring of its own.  A line  *)
(* is <<thread, number>>; every line has size 1.  flush_queue_ is used     *)
(* through what ClaimQueue promises.                                       *)
(***************************************************************************)
EXTENDS Integers, Sequences, FiniteSets, Functions

CONSTANTS
  Thread,      \* threads that log
  Main,        \* the thread that runs ~Logger
  BufferSize,  \* LoggerBuffer::BUFFER_SIZE, in lines
  Capacities,  \* what FLUSH_QUEUE_CAPACITY may be
  Faults,      \* what may fail: a subset of {"open", "write"}
  MaxLines,    \* bound on the lines of each thread
  MaxDay       \* bound on the calendar

ASSUME LoggerAssumption ==
  /\ Main \in Thread /\ IsFiniteSet(Thread) /\ "earlier run" \notin Thread
  /\ BufferSize \in Nat \ {0} /\ Capacities \subseteq Nat \ {0}
  /\ MaxLines \in [Thread -> Nat] /\ MaxDay \in Nat \ {0}
  /\ Faults \subseteq {"open", "write"}

VARIABLES
  th,           \* a thread: where it is, who called enqueue (append, exit,
                \* dtor), its guard, write_idx and the lines it has logged
  bufs,         \* bufs[<<t, i>>]: [lines, in_flight]
  flush_queue_, \* places [buf, ready], oldest first
  semaphore_,
  backend,      \* backend_loop: where it is, today_, fd_ >= 0, offset_,
                \* in_flight_ and its stop token
  sq, ops, cq,  \* the ring: prepared, running and completed writes
  capacity,     \* FLUSH_QUEUE_CAPACITY
  day,          \* the calendar
  disk,         \* disk[d]: the file of day d
  dropped       \* lines given up

ring   == <<sq, ops, cq>>
shared == <<flush_queue_, semaphore_>>
world  == <<capacity, day>>
vars   == <<th, bufs, shared, backend, ring, world, disk, dropped>>

Day  == 1..MaxDay
Buf  == Thread \X {0, 1}
Hole == <<>>   \* bytes of a file nothing was written to
Earlier == <<"earlier run", 1>>   \* a line the file of the first day has already

Fresh    == [lines |-> <<>>, in_flight |-> FALSE]
front(t) == <<t, th[t].write_idx>>
back(t)  == <<t, 1 - th[t].write_idx>>
Free(b)  == ~bufs[b].in_flight
NextLine(t) == <<t, th[t].count + 1>>

Init ==
  /\ th = [t \in Thread |-> [pc |-> "run", then |-> "append", guarded |-> TRUE,
                             write_idx |-> 0, count |-> 0]]
  /\ bufs = [b \in Buf |-> Fresh]
  /\ flush_queue_ = <<>> /\ semaphore_ = 0
  /\ backend = [pc |-> "start", today |-> 0, open |-> FALSE, offset |-> 0,
                in_flight |-> 0, stop |-> FALSE]
  /\ sq = <<>> /\ ops = {} /\ cq = <<>>
  /\ capacity \in Capacities /\ day = 1
  /\ disk = [d \in Day |-> IF d = 1 THEN <<Earlier>> ELSE <<>>]
  /\ dropped = {}

-----------------------------------------------------------------------------
(* The threads that log. *)

\* Defect: the other buffer may still be in flight.
ClaimFrontUnchecked(t, caller) ==
  /\ Len(flush_queue_) < capacity
  /\ flush_queue_' = Append(flush_queue_, [buf |-> front(t), ready |-> FALSE])
  /\ bufs' = [bufs EXCEPT ![front(t)].in_flight = TRUE]
  /\ th' = [th EXCEPT ![t].pc = "publish", ![t].then = caller,
                       ![t].guarded = @ /\ caller = "append"]
  /\ UNCHANGED <<semaphore_, dropped>>

\* in_flight_ is set and enqueue reserves a place; Publish makes it ready.
\* caller is what the thread returns to.
ClaimFront(t, caller) ==
  /\ Free(back(t)) /\ Len(flush_queue_) < capacity
  /\ flush_queue_' = Append(flush_queue_, [buf |-> front(t), ready |-> FALSE])
  /\ bufs' = [bufs EXCEPT ![front(t)].in_flight = TRUE]
  /\ th' = [th EXCEPT ![t].pc = "publish", ![t].then = caller,
                       ![t].guarded = @ /\ caller = "append"]
  /\ UNCHANGED <<semaphore_, dropped>>

\* log and append; late is the second since the last flush.  A thread logs
\* without a guard in static destructors only: the main thread.
LogLine(t, late) ==
  LET is_full   == Len(bufs[front(t)].lines) = BufferSize
      timed_out == ~is_full /\ bufs[front(t)].lines # <<>> /\ late
      blocked   == ~Free(back(t)) \/ Len(flush_queue_) = capacity
  IN  /\ th[t].pc = "run" /\ th[t].count < MaxLines[t]
      /\ \/ (is_full \/ timed_out) /\ ClaimFront(t, "append")
         \/ /\ is_full \/ timed_out => blocked
            /\ th' = [th EXCEPT ![t].count = @ + 1]
            /\ IF is_full
                 THEN dropped' = dropped \cup {NextLine(t)} /\ UNCHANGED bufs
                 ELSE /\ bufs' = [bufs EXCEPT ![front(t)].lines = Append(@, NextLine(t))]
                      /\ UNCHANGED dropped
            /\ UNCHANGED shared
      /\ UNCHANGED <<backend, ring, world, disk>>

Publish(t) ==
  /\ th[t].pc = "publish"
  /\ flush_queue_' = [k \in DOMAIN flush_queue_ |->
       [flush_queue_[k] EXCEPT !.ready = @ \/ flush_queue_[k].buf = front(t)]]
  /\ th' = [th EXCEPT ![t].pc = "release"]
  /\ UNCHANGED <<bufs, semaphore_, backend, ring, world, disk, dropped>>

\* Defect: no release.
ReleaseSilent(t) ==
  /\ th[t].pc = "release"
  /\ \/ /\ th[t].then = "append"
        /\ th' = [th EXCEPT ![t].pc = "run", ![t].write_idx = 1 - @, ![t].count = @ + 1]
        /\ bufs' = [bufs EXCEPT ![back(t)].lines = Append(@, NextLine(t))]
     \/ /\ th[t].then # "append"
        /\ th' = [th EXCEPT ![t].pc = IF th[t].then = "exit" THEN "wait" ELSE "stop"]
        /\ UNCHANGED bufs
  /\ UNCHANGED <<shared, backend, ring, world, disk, dropped>>

\* semaphore_.release(), and what append, the guard or ~Logger does next.
Release(t) ==
  /\ th[t].pc = "release"
  /\ semaphore_' = semaphore_ + 1
  /\ \/ /\ th[t].then = "append"
        /\ th' = [th EXCEPT ![t].pc = "run", ![t].write_idx = 1 - @, ![t].count = @ + 1]
        /\ bufs' = [bufs EXCEPT ![back(t)].lines = Append(@, NextLine(t))]
     \/ /\ th[t].then # "append"
        /\ th' = [th EXCEPT ![t].pc = IF th[t].then = "exit" THEN "wait" ELSE "stop"]
        /\ UNCHANGED bufs
  /\ UNCHANGED <<flush_queue_, backend, ring, world, disk, dropped>>

\* ~ThreadFlushGuard up to its wait.  main ends after its workers were joined.
ExitThread(t) ==
  /\ th[t].pc = "run" /\ th[t].guarded
  /\ t = Main => \A u \in Thread \ {Main} : th[u].pc = "gone"
  /\ \/ bufs[front(t)].lines # <<>> /\ ClaimFront(t, "exit")
     \/ /\ \/ bufs[front(t)].lines = <<>> \/ ~Free(back(t))
           \/ Len(flush_queue_) = capacity
        /\ th' = [th EXCEPT ![t].pc = "wait", ![t].guarded = FALSE]
        /\ UNCHANGED <<bufs, shared, dropped>>
  /\ UNCHANGED <<backend, ring, world, disk>>

\* delete ts: lines still in a buffer are lost.
FreeState(t, next) ==
  /\ dropped' = dropped \cup UNION {Range(bufs[<<t, i>>].lines) : i \in {0, 1}}
  /\ bufs' = [b \in Buf |-> IF b[1] = t THEN Fresh ELSE bufs[b]]
  /\ th' = [th EXCEPT ![t].pc = next, ![t].write_idx = 0]

\* Defect: the wait looks at one buffer only.
DeleteStateEarly(t) ==
  /\ th[t].pc = "wait"
  /\ Free(back(t))
  /\ FreeState(t, IF t = Main THEN "run" ELSE "gone")
  /\ UNCHANGED <<shared, backend, ring, world, disk>>

DeleteState(t) ==
  /\ th[t].pc = "wait"
  /\ Free(front(t)) /\ Free(back(t))
  /\ FreeState(t, IF t = Main THEN "run" ELSE "gone")
  /\ UNCHANGED <<shared, backend, ring, world, disk>>

\* ~Logger: the hand-over of what main logged after its guard, the stop
\* request with its release, the join.
DestroyLogger ==
  /\ th[Main].pc = "run" /\ ~th[Main].guarded
  /\ \/ bufs[front(Main)].lines # <<>> /\ ClaimFront(Main, "dtor")
     \/ /\ bufs[front(Main)].lines = <<>>
        /\ th' = [th EXCEPT ![Main].pc = "stop"]
        /\ UNCHANGED <<bufs, shared, dropped>>
  /\ UNCHANGED <<backend, ring, world, disk>>

StopBackend ==
  /\ th[Main].pc = "stop"
  /\ th' = [th EXCEPT ![Main].pc = "join"]
  /\ backend' = [backend EXCEPT !.stop = TRUE]
  /\ semaphore_' = semaphore_ + 1
  /\ UNCHANGED <<bufs, flush_queue_, ring, world, disk, dropped>>

JoinBackend ==
  /\ th[Main].pc = "join" /\ backend.pc = "done"
  /\ FreeState(Main, "gone")
  /\ backend' = [backend EXCEPT !.open = FALSE]
  /\ UNCHANGED <<shared, ring, world, disk>>

-----------------------------------------------------------------------------
(* backend_loop. *)

\* Defect: offset_ starts at 0.
SwitchFileOverwrites(today, next) ==
  \/ backend' = [backend EXCEPT !.pc = next, !.today = today, !.open = TRUE,
                                !.offset = 0]
  \/ /\ "open" \in Faults
     /\ backend' = [backend EXCEPT !.pc = next, !.today = today, !.open = FALSE]

\* switch_log_file_date, then on to next.  offset_ is the size of the file
\* that is there; without a file it keeps its value.
SwitchFile(today, next) ==
  \/ backend' = [backend EXCEPT !.pc = next, !.today = today, !.open = TRUE,
                                !.offset = Len(disk[today])]
  \/ /\ "open" \in Faults
     /\ backend' = [backend EXCEPT !.pc = next, !.today = today, !.open = FALSE]

\* Defect: the buffer is free, but not empty.
HandleCqeKeepsLines ==
  /\ bufs' = [bufs EXCEPT ![Head(cq).buf].in_flight = FALSE]
  /\ cq' = Tail(cq)
  /\ backend' = [backend EXCEPT !.in_flight = @ - 1]

\* handle_cqe of the oldest completion; its result is not looked at.
HandleCqe ==
  /\ bufs' = [bufs EXCEPT ![Head(cq).buf] = Fresh]
  /\ cq' = Tail(cq)
  /\ backend' = [backend EXCEPT !.in_flight = @ - 1]

Goto(next) ==
  backend' = [backend EXCEPT !.pc = next] /\ UNCHANGED <<bufs, cq>>

\* submit_and_wait(in_flight_), then one handle_cqe after the other.
AwaitWrites ==
  backend.in_flight > 0 /\ Len(cq) >= backend.in_flight /\ HandleCqe

\* The first file; the top of the loop, where a new date waits for the writes
\* of the old file; semaphore_.acquire().
BackendWait ==
  /\ \/ /\ backend.pc = "start" /\ SwitchFile(day, "check")
        /\ UNCHANGED <<bufs, cq, semaphore_>>
     \/ /\ backend.pc = "check" /\ UNCHANGED semaphore_
        /\ \/ backend.stop /\ Goto("drain")
           \/ ~backend.stop /\ backend.today = day /\ Goto("acquire")
           \/ /\ ~backend.stop /\ backend.today # day
              /\ backend' = [backend EXCEPT !.pc = "rotate", !.today = day]
              /\ UNCHANGED <<bufs, cq>>
     \/ /\ backend.pc = "rotate" /\ UNCHANGED semaphore_
        /\ \/ AwaitWrites
           \/ backend.in_flight = 0 /\ SwitchFile(backend.today, "acquire") /\ UNCHANGED <<bufs, cq>>
     \/ /\ backend.pc = "acquire" /\ semaphore_ > 0
        /\ semaphore_' = semaphore_ - 1
        /\ Goto("drain")
  /\ UNCHANGED <<th, flush_queue_, sq, ops, world, disk, dropped>>

ItemReady == flush_queue_ # <<>> /\ Head(flush_queue_).ready

\* dequeue and submit_buf; without a file the buffer is thrown away.
BackendDequeue ==
  LET b == Head(flush_queue_).buf
      n == Len(bufs[b].lines)
  IN  /\ backend.pc \in {"drain", "last"}
      /\ ItemReady
      /\ flush_queue_' = Tail(flush_queue_)
      /\ \/ /\ backend.open
            /\ sq' = Append(sq, [buf |-> b, day |-> backend.today,
                                 off |-> backend.offset, len |-> n])
            /\ backend' = [backend EXCEPT !.offset = @ + n, !.in_flight = @ + 1]
            /\ UNCHANGED <<bufs, dropped>>
         \/ /\ ~backend.open
            /\ bufs' = [bufs EXCEPT ![b] = Fresh]
            /\ dropped' = dropped \cup Range(bufs[b].lines)
            /\ UNCHANGED <<sq, backend>>
      /\ UNCHANGED <<th, semaphore_, ops, cq, world, disk>>

\* dequeue returns false; submit.
BackendSubmit ==
  /\ backend.pc \in {"drain", "last"}
  /\ ~ItemReady
  /\ ops' = ops \cup Range(sq) /\ sq' = <<>>
  /\ Goto(IF backend.pc = "drain" THEN "reap" ELSE "finish")
  /\ UNCHANGED <<th, shared, world, disk, dropped>>

\* peek_cqe until there is none and the test of the stop token; after a stop
\* the wait for every write.
BackendReap ==
  /\ \/ /\ backend.pc = "reap"
        /\ \/ cq # <<>> /\ HandleCqe
           \/ cq = <<>> /\ Goto(IF backend.stop THEN "last" ELSE "check")
     \/ /\ backend.pc = "finish"
        /\ AwaitWrites \/ (backend.in_flight = 0 /\ Goto("done"))
  /\ UNCHANGED <<th, shared, sq, ops, world, disk, dropped>>

Backend == BackendWait \/ BackendDequeue \/ BackendSubmit \/ BackendReap

-----------------------------------------------------------------------------
(* The kernel and the calendar. *)

\* What the memory of a buffer holds at the time of the write.
Memory(b, n) ==
  [k \in 1..n |-> IF k <= Len(bufs[b].lines) THEN bufs[b].lines[k] ELSE Hole]

WriteAt(f, off, data) ==
  [k \in 1..(IF Len(f) < off + Len(data) THEN off + Len(data) ELSE Len(f)) |->
     IF k \in off + 1..off + Len(data) THEN data[k - off]
     ELSE IF k <= Len(f) THEN f[k] ELSE Hole]

\* A write ends, in any order with the others; it may write less than all, or
\* nothing.
KernelWrite ==
  /\ \E o \in ops : \E n \in 0..o.len :
       /\ n < o.len => "write" \in Faults
       /\ ops' = ops \ {o} /\ cq' = Append(cq, o)
       /\ disk' = IF n = 0 THEN disk
                  ELSE [disk EXCEPT ![o.day] = WriteAt(@, o.off, Memory(o.buf, n))]
       /\ dropped' = dropped \cup {Memory(o.buf, o.len)[k] : k \in n + 1..o.len}
  /\ UNCHANGED <<th, bufs, shared, backend, sq, world>>

Midnight ==
  /\ day < MaxDay
  /\ day' = day + 1
  /\ UNCHANGED <<th, bufs, shared, capacity, backend, ring, disk, dropped>>

Next ==
  \/ \E t \in Thread :
       \/ \E late \in BOOLEAN : LogLine(t, late)
       \/ Publish(t) \/ Release(t) \/ ExitThread(t) \/ DeleteState(t)
  \/ DestroyLogger \/ StopBackend \/ JoinBackend
  \/ Backend
  \/ KernelWrite \/ Midnight

Spec == Init /\ [][Next]_vars

\* A thread inside the logger goes on, the backend runs, the kernel ends every
\* write; nobody has to log another line, and no thread has to exit.
Fairness ==
  /\ \A t \in Thread : WF_vars(Publish(t) \/ Release(t) \/ DeleteState(t))
  /\ WF_vars(Backend)
  /\ WF_vars(KernelWrite)
  /\ WF_vars(DestroyLogger \/ StopBackend \/ JoinBackend)

FairSpec == Spec /\ Fairness

-----------------------------------------------------------------------------
(* Properties. *)

\* Buffers the queue, the ring or the kernel refer to.
Referenced ==
  {q.buf : q \in Range(flush_queue_)} \cup
  {o.buf : o \in Range(sq) \cup ops \cup Range(cq)}

\* A buffer is referred to exactly while its in_flight_ is set, and no thread
\* writes a line into it or frees it meanwhile (append's switch of buffers,
\* the wait of ~ThreadFlushGuard, the join of ~Logger).
InFlightExact ==
  \A b \in Buf :
    /\ bufs[b].in_flight <=> b \in Referenced
    /\ b \in Referenced =>
         /\ th[b[1]].pc # "gone"
         /\ th[b[1]].pc = "run" => b # front(b[1])

\* A thread has at most one buffer in flight, and in_flight_ counts the writes
\* in the ring: get_sqe never finds the ring full while there are no more
\* threads than entries, and handle_cqe never gets an empty completion.
RingFits ==
  /\ backend.in_flight = Len(sq) + Cardinality(ops) + Len(cq)
  /\ \A t \in Thread : ~(bufs[<<t, 0>>].in_flight /\ bufs[<<t, 1>>].in_flight)

\* A thread's lines reach the files in the order they were logged, each once.
LogOrder ==
  \A c, d \in Day : \A j \in DOMAIN disk[c], k \in DOMAIN disk[d] :
    /\ c < d \/ (c = d /\ j < k)
    /\ disk[c][j] # Hole /\ disk[d][k] # Hole /\ disk[c][j][1] = disk[d][k][1]
    => disk[c][j][2] < disk[d][k][2]

OnDisk(l) == \E d \in Day : l \in Range(disk[d])

\* A logged line is in a file, in a buffer or among those given up: dropped by
\* append, lost at the end of the thread, without a file or in a failed write;
\* what an earlier run has logged stays.
LinesConserved ==
  /\ Earlier \in Range(disk[1])
  /\ \A t \in Thread : \A n \in 1..th[t].count :
       \/ OnDisk(<<t, n>>) \/ <<t, n>> \in dropped
       \/ \E i \in {0, 1} : <<t, n>> \in Range(bufs[<<t, i>>].lines)

\* The backend sleeps although a write has been completed; nothing else is
\* left to do for it.
Parked ==
  backend.pc = "acquire" /\ semaphore_ = 0 /\ flush_queue_ = <<>> /\ cq # <<>>

\* A buffer that was handed over becomes free again, which is what append and
\* the end of a thread wait for: no release of semaphore_ is lost, whatever the
\* order in which the producers make their places ready.  It fails in one case
\* only: completions are reaped after an acquire, and nobody releases again.
FlushEnds == \A b \in Buf :
  bufs[b].in_flight ~> (~bufs[b].in_flight \/ []Parked)
=============================================================================
