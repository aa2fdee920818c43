--------------------------- MODULE TcpBufferProofs ---------------------------
(***************************************************************************)
(* How deep the submission queue of a TCP worker must be, also when the    *)
(* kernel gives its entries back only after a batch of them; and, with a   *)
(* queue that deep, which never refuses a re-arm, that no provided buffer  *)
(* is lost and what a channel takes back to the pool.                      *)
(***************************************************************************)
EXTENDS TcpRingProofs

USE ZenonT(30)

-----------------------------------------------------------------------------
(***************************************************************************)
(* The submission queue and the batch the kernel takes from it.            *)
(***************************************************************************)
\* Nothing was taken yet.
Fresh ==
  /\ sq = <<AcceptSqe, WakeupSqe>> /\ ops = <<>> /\ cq = <<>>
  /\ kbatch = [left |-> 0, taken |-> 0]
  /\ \/ phase = "submit" /\ flushed = 0
     \/ phase = "wait" /\ flushed = 2

\* The accept was taken, the read of wakeup_fd_ is next.
Taking ==
  kbatch = [left |-> 1, taken |-> 1] /\ \A i \in 2..Len(sq) : sq[i].op # "wakeup"

\* The read of wakeup_fd_ was taken.
Started == \A i \in 1..Len(sq) : sq[i].op # "wakeup"

\* The kinds of operation there are: the read of wakeup_fd_, the accept, and a
\* receive and a write of every channel.
Wakeup == <<NoChan, "wakeup">>
Kinds == {Wakeup, <<NoChan, "accept">>} \cup (Chan \X {"recv", "write"})

\* How many they are.
LEMMA KindsCount ==
  /\ IsFiniteSet(Kinds) /\ Cardinality(Kinds) = 2 * PoolSize + 2
  /\ IsFiniteSet(Kinds \ {Wakeup}) /\ Cardinality(Kinds \ {Wakeup}) = 2 * PoolSize + 1
<1>1. PoolSize \in Nat /\ PoolSize > 0
  BY SizesAssumption, SMTT(30)
<1>2. IsFiniteSet(Chan) /\ Cardinality(Chan) = PoolSize
  <2>1. IsFiniteSet(1..PoolSize) /\ Cardinality(1..PoolSize) = PoolSize - 1 + 1
    BY <1>1, FS_Interval, SMTT(30)
  <2> QED
    BY <1>1, <2>1, SMTT(30) DEF Chan
<1>3. IsFiniteSet({"recv", "write"}) /\ Cardinality({"recv", "write"}) = 2
  <2>1. IsFiniteSet({"recv"}) /\ Cardinality({"recv"}) = 1
    BY FS_Singleton
  <2>2. /\ IsFiniteSet({"recv"} \cup {"write"})
        /\ Cardinality({"recv"} \cup {"write"}) = 1 + 1
    BY <2>1, FS_AddElement
  <2>3. {"recv"} \cup {"write"} = {"recv", "write"}
    OBVIOUS
  <2> QED
    BY <2>2, <2>3, SMTT(30)
<1> DEFINE two == {"recv", "write"}
           C == Chan \X two
<1>4. IsFiniteSet(C) /\ Cardinality(C) = PoolSize * 2
  <2>1. IsFiniteSet(two) /\ Cardinality(two) = 2
    BY <1>3
  <2> HIDE DEF two
  <2> QED
    BY <1>2, <2>1, FS_Product
<1>5. /\ <<NoChan, "accept">> \notin C
      /\ Wakeup \notin C \cup {<<NoChan, "accept">>}
  BY DEF Wakeup
<1>6. /\ Kinds \ {Wakeup} = C \cup {<<NoChan, "accept">>}
      /\ Kinds = (C \cup {<<NoChan, "accept">>}) \cup {Wakeup}
  <2>1. Kinds = (C \cup {<<NoChan, "accept">>}) \cup {Wakeup}
    BY DEF Kinds
  <2> HIDE DEF C
  <2> QED
    BY <1>5, <2>1
<1> DEFINE D == C \cup {<<NoChan, "accept">>}
<1> HIDE DEF C, two
<1>7. IsFiniteSet(D) /\ Cardinality(D) = PoolSize * 2 + 1
  BY <1>4, <1>5, FS_AddElement
<1>8. Wakeup \notin D /\ Kinds \ {Wakeup} = D /\ Kinds = D \cup {Wakeup}
  BY <1>5, <1>6
<1> HIDE DEF D
<1>9. IsFiniteSet(Kinds) /\ Cardinality(Kinds) = PoolSize * 2 + 1 + 1
  BY <1>7, <1>8, FS_AddElement
<1> QED
  BY <1>1, <1>7, <1>8, <1>9, SMTT(30)

\* The submission queue holds one read of wakeup_fd_.
OneWakeup ==
  \A i, j \in DOMAIN sq : sq[i].op = "wakeup" /\ sq[j].op = "wakeup" => i = j

\* The submission queue holds no operation twice.
LEMMA SqDistinct ==
  ASSUME Inv, RingInv, OneWakeup, ~reused, NEW i \in DOMAIN sq, NEW j \in DOMAIN sq, i # j
  PROVE  <<sq[i].ch, sq[i].op>> # <<sq[j].ch, sq[j].op>> /\ <<sq[i].ch, sq[i].op>> \in Kinds
<1> DEFINE h == sq[i].ch
           op == sq[i].op
           S == {m \in DOMAIN sq : sq[m].ch = h /\ sq[m].op = op}
<1>1. sq \in Seq(Sqe) /\ sq[i] \in Sqe /\ Formed(sq[i])
  BY SMTT(30) DEF Inv, TypeOK, Ring, Range
<1>2. \/ h = NoChan /\ op \in {"accept", "wakeup"}
      \/ h \in Chan /\ op \in {"recv", "write"}
  BY <1>1 DEF Formed, Control, Sqe
<1> HIDE DEF h, op
<1>3. Held(sq, h, op) \in Nat /\ Held(ops, h, op) \in Nat /\ Ended(cq, h, op) \in Nat
  BY RingTypes
<1>4. op # "wakeup" => Unfinished(h, op) <= 1
  BY <1>2, SMTT(30) DEF RingInv, Tally, Waits
<1>5. op # "wakeup" => Held(sq, h, op) <= 1
  BY <1>3, <1>4, SMTT(30) DEF Unfinished
<1>6. i \in S /\ (op # "wakeup" => Cardinality(S) <= 1)
  BY <1>5 DEF Held, h, op
<1>7. IsFiniteSet(S)
  <2>1. IsFiniteSet(1..Len(sq)) /\ S \in SUBSET (1..Len(sq))
    BY <1>1, FS_Interval, SMTT(30)
  <2> QED
    BY <2>1, FS_Subset
<1>8. ASSUME <<h, op>> = <<sq[j].ch, sq[j].op>>, op # "wakeup"
      PROVE  FALSE
  <2>1. j \in S
    BY <1>8
  <2> HIDE DEF S
  <2>2. /\ IsFiniteSet({i}) /\ Cardinality({i}) = 1
    BY FS_Singleton
  <2>3. Cardinality({i} \cup {j}) = 1 + 1
    BY <2>2, FS_AddElement
  <2>4. {i} \cup {j} \in SUBSET S
    BY <1>6, <2>1
  <2>5. Cardinality({i} \cup {j}) <= Cardinality(S) /\ Cardinality(S) \in Nat
    BY <1>7, <2>4, FS_Subset, FS_CardinalityType
  <2> QED
    BY <1>6, <1>8, <2>3, <2>5, SMTT(30)
<1>9. <<h, op>> \in Kinds
  BY <1>2 DEF Kinds, Wakeup
<1>10. op = "wakeup" /\ sq[j].op = op => i = j
  BY DEF OneWakeup, h, op
<1> QED
  BY <1>8, <1>9, <1>10 DEF h, op

\* A set that holds the kinds of all its entries bounds the submission queue.
LEMMA SqDepth ==
  ASSUME Inv, RingInv, OneWakeup, ~reused, NEW T \in SUBSET Kinds,
         \A i \in DOMAIN sq : <<sq[i].ch, sq[i].op>> \in T
  PROVE  Len(sq) <= Cardinality(T)
<1> DEFINE f == [i \in 1..Len(sq) |-> <<sq[i].ch, sq[i].op>>]
<1>1. sq \in Seq(Sqe) /\ Len(sq) \in Nat /\ DOMAIN sq = 1..Len(sq)
  BY RingTypes, SMTT(30)
<1>2. f \in [1..Len(sq) -> T]
  BY <1>1
<1>3. ASSUME NEW i \in 1..Len(sq), NEW j \in 1..Len(sq), f[i] = f[j]
      PROVE  i = j
  BY <1>1, <1>3, SqDistinct
<1>4. f \in Injection(1..Len(sq), T)
  <2> HIDE DEF f
  <2> QED
    BY <1>2, <1>3 DEF Injection, IsInjective
<1>5. IsFiniteSet(T)
  BY KindsCount, FS_Subset
<1> HIDE DEF f
<1>6. Cardinality(1..Len(sq)) <= Cardinality(T)
  BY <1>4, <1>5, FS_Injection
<1>7. Cardinality(1..Len(sq)) = Len(sq)
  BY <1>1, FS_Interval, SMTT(30)
<1> QED
  BY <1>6, <1>7

\* How long the submission queue can be, also when a channel's receive or write
\* is not in it.
LEMMA SqLength ==
  ASSUME Inv, RingInv, OneWakeup, ~reused
  PROVE  /\ Len(sq) <= 2 * PoolSize + 2
         /\ Started => Len(sq) <= 2 * PoolSize + 1
         /\ \A h \in Chan, op \in {"recv", "write"} :
              Held(sq, h, op) = 0 => /\ Len(sq) <= 2 * PoolSize + 1
                                     /\ Started => Len(sq) <= 2 * PoolSize
<1> DEFINE K(i) == <<sq[i].ch, sq[i].op>>
<1>1. sq \in Seq(Sqe) /\ Sqe \in SUBSET Entry /\ DOMAIN sq = 1..Len(sq)
  BY RingTypes, SMTT(30) DEF Entry
<1>2. ASSUME NEW i \in DOMAIN sq
      PROVE  K(i) \in Kinds /\ (Started => K(i) # Wakeup)
  <2>1. sq[i] \in Range(sq)
    BY DEF Range
  <2>2. sq[i] \in Sqe /\ Formed(sq[i])
    BY <1>1, <2>1, SMTT(30) DEF Inv, Ring
  <2>3. sq[i].ch = NoChan => sq[i].op \in {"accept", "wakeup"}
    BY <2>2 DEF Formed, Control
  <2>4. sq[i].ch # NoChan => sq[i].ch \in Chan /\ sq[i].op \in {"recv", "write"}
    BY <2>2 DEF Formed, Control, Sqe
  <2>5. Started => sq[i].op # "wakeup"
    BY <1>1 DEF Started
  <2> QED
    BY <2>3, <2>4, <2>5 DEF Kinds, Wakeup
<1>3. Len(sq) <= Cardinality(Kinds) /\ (Started => Len(sq) <= Cardinality(Kinds \ {Wakeup}))
  <2>1. Kinds \in SUBSET Kinds /\ Kinds \ {Wakeup} \in SUBSET Kinds
    OBVIOUS
  <2> QED
    BY <1>2, <2>1, SqDepth
<1>4. ASSUME NEW h \in Chan, NEW op \in {"recv", "write"}, Held(sq, h, op) = 0
      PROVE  /\ Len(sq) <= 2 * PoolSize + 1
             /\ Started => Len(sq) <= 2 * PoolSize
  <2> DEFINE x == <<h, op>>
             T == Kinds \ {x}
             U == (Kinds \ {Wakeup}) \ {x}
  <2>1. \A y \in Range(sq) : ~(y.ch = h /\ y.op = op)
    BY <1>1, <1>4, HeldNone
  <2>2. \A i \in DOMAIN sq : K(i) # x
    BY <2>1 DEF Range
  <2>3. x \in Kinds /\ x # Wakeup
    BY DEF Kinds, Wakeup
  <2> HIDE DEF x
  <2>4. x \in Kinds \ {Wakeup} /\ T \in SUBSET Kinds /\ U \in SUBSET Kinds
    BY <2>3
  <2>5. /\ Cardinality(T) = Cardinality(Kinds) - 1
        /\ Cardinality(U) = Cardinality(Kinds \ {Wakeup}) - 1
    BY <2>3, <2>4, KindsCount, FS_RemoveElement
  <2>6. Len(sq) <= Cardinality(T) /\ (Started => Len(sq) <= Cardinality(U))
    BY <1>2, <2>2, <2>4, SqDepth
  <2> DEFINE t == Cardinality(T)
             u == Cardinality(U)
             v == Cardinality(Kinds)
             w == Cardinality(Kinds \ {Wakeup})
             n == Len(sq)
  <2>7. /\ t = v - 1 /\ u = w - 1 /\ n <= t /\ (Started => n <= u)
        /\ v = 2 * PoolSize + 2 /\ w = 2 * PoolSize + 1
    BY <2>5, <2>6, KindsCount
  <2> HIDE DEF t, u, v, w, n
  <2>8. n <= 2 * PoolSize + 1 /\ (Started => n <= 2 * PoolSize)
    BY <2>7, SizesAssumption, SMTT(30)
  <2> QED
    BY <2>8 DEF n
<1> QED
  BY <1>3, <1>4, KindsCount

\* A batch is of published entries and no longer than the queue can be.  Without
\* SQPOLL it is all of the queue, and only while the thread waits.
BatchInv ==
  ~reused =>
    /\ Fresh \/ Taking \/ Started
    /\ kbatch.left <= flushed /\ (kbatch.left = 0 => kbatch.taken = 0)
    /\ kbatch.left + kbatch.taken <= 2 * PoolSize + 1
    /\ ~SqPoll => /\ kbatch.left \in {0, flushed}
                  /\ flushed # 0 => flushed = Len(sq) /\ phase = "wait"

\* The numbers of the queue.
LEMMA BatchNumbers ==
  ASSUME Inv
  PROVE  /\ kbatch.left \in Nat /\ kbatch.taken \in Nat /\ flushed \in Nat
         /\ Len(sq) \in Nat /\ flushed <= Len(sq) /\ sq \in Seq(Sqe)
<1>1. /\ kbatch \in [left: Nat, taken: Nat] /\ flushed \in Nat /\ sq \in Seq(Sqe)
      /\ flushed <= Len(sq)
  BY DEF Inv, TypeOK
<1> QED
  BY <1>1, SMTT(30)

\* There is one read of wakeup_fd_.
LEMMA WakeupOnce ==
  ASSUME Inv, Fresh \/ Taking \/ Started
  PROVE  OneWakeup
<1> SUFFICES ASSUME NEW i \in DOMAIN sq, NEW j \in DOMAIN sq,
                    sq[i].op = "wakeup", sq[j].op = "wakeup"
             PROVE  i = j
  BY DEF OneWakeup
<1>1. DOMAIN sq = 1..Len(sq) /\ Len(sq) \in Nat
  BY BatchNumbers, SMTT(30)
<1>2. CASE Fresh
  BY <1>2, SMTT(30) DEF Fresh, AcceptSqe
<1>3. CASE Taking
  <2>1. i \notin 2..Len(sq) /\ j \notin 2..Len(sq)
    BY <1>3 DEF Taking
  <2> QED
    BY <1>1, <2>1, SMTT(30)
<1>4. CASE Started
  BY <1>1, <1>4 DEF Started
<1> QED
  BY <1>2, <1>3, <1>4

\* The bounds on the queue and the batch, with the numbers in them by name.
LEMMA Lengths ==
  ASSUME Inv, RingInv, BatchInv, ~reused
  PROVE  /\ Len(sq) + kbatch.taken <= IF SqPoll THEN 4 * PoolSize + 1 ELSE 2 * PoolSize + 1
         /\ kbatch.left = 0 => Len(sq) <= 2 * PoolSize + 1
         /\ \A h \in Chan, op \in {"recv", "write"} :
              Held(sq, h, op) = 0 /\ (SqPoll \/ phase # "wait")
                => Len(sq) + kbatch.taken <= IF SqPoll THEN 4 * PoolSize ELSE 2 * PoolSize
<1> DEFINE n == Len(sq)
           k == kbatch.left
           m == kbatch.taken
           f == flushed
           P == PoolSize
<1>1. n \in Nat /\ k \in Nat /\ m \in Nat /\ f \in Nat /\ f <= n /\ P \in Nat /\ P > 0
  BY BatchNumbers, SizesAssumption, SMTT(30)
<1>2. /\ Fresh \/ Taking \/ Started
      /\ k <= f /\ (k = 0 => m = 0) /\ k + m <= 2 * P + 1
      /\ ~SqPoll => k \in {0, f} /\ (f # 0 => f = n /\ phase = "wait")
  BY DEF BatchInv
<1>3. /\ n <= 2 * P + 2 /\ (Started => n <= 2 * P + 1)
      /\ \A h \in Chan, op \in {"recv", "write"} :
           Held(sq, h, op) = 0 => n <= 2 * P + 1 /\ (Started => n <= 2 * P)
  BY <1>2, WakeupOnce, SqLength
<1>4. (Fresh => n = 2 /\ k = 0 /\ m = 0) /\ (Taking => k = 1 /\ m = 1)
  BY SMTT(30) DEF Fresh, Taking
<1> HIDE DEF n, k, m, f, P
<1>5. n + m <= IF SqPoll THEN 4 * P + 1 ELSE 2 * P + 1
  BY <1>1, <1>2, <1>3, <1>4, SMTT(30)
<1>6. k = 0 => n <= 2 * P + 1
  BY <1>1, <1>2, <1>3, <1>4, SMTT(30)
<1>7. ASSUME NEW h \in Chan, NEW op \in {"recv", "write"}, Held(sq, h, op) = 0,
             SqPoll \/ phase # "wait"
      PROVE  n + m <= IF SqPoll THEN 4 * P ELSE 2 * P
  <2>1. n <= 2 * P + 1 /\ (Started => n <= 2 * P)
    BY <1>3, <1>7
  <2> QED
    BY <1>1, <1>2, <1>4, <1>7, <2>1, SMTT(30)
<1> QED
  BY <1>5, <1>6, <1>7 DEF n, k, m, f, P

\* A step that leaves the queue and the batch alone.
LEMMA QuietBatch ==
  ASSUME BatchInv, KeepReuse, ~Fresh, UNCHANGED <<sq, kbatch, flushed>>,
         SqPoll \/ flushed = 0 \/ phase' = phase
  PROVE  BatchInv'
<1>1. ~reused' => ~reused
  BY DEF KeepReuse
<1>2. (Taking => Taking') /\ (Started => Started')
  BY DEF Taking, Started
<1> QED
  BY <1>1, <1>2 DEF BatchInv

\* What follows the old entries of the queue is no read of wakeup_fd_.
Grows ==
  /\ sq \in Seq(Sqe) /\ sq' \in Seq(Sqe) /\ Len(sq) <= Len(sq')
  /\ \A i \in 1..Len(sq) : sq'[i] = sq[i]
  /\ \A i \in 1..Len(sq') : i > Len(sq) => sq'[i].op # "wakeup"

\* A handler adds to the queue.
LEMMA GrownBatch ==
  ASSUME Inv, BatchInv, KeepReuse, ~Fresh, Grows, UNCHANGED <<kbatch, flushed>>,
         phase # "wait"
  PROVE  BatchInv'
<1>1. ~reused' => ~reused
  BY DEF KeepReuse
<1>2. Len(sq) \in Nat /\ Len(sq') \in Nat
  BY SMTT(30) DEF Grows
<1>3. ASSUME Taking
      PROVE  Taking'
  <2>1. ASSUME NEW i \in 2..Len(sq')
        PROVE  sq'[i].op # "wakeup"
    <3>1. CASE i > Len(sq)
      <4>1. i \in 1..Len(sq')
        BY <1>2, <2>1, SMTT(30)
      <4> QED
        BY <3>1, <4>1 DEF Grows
    <3>2. CASE i <= Len(sq)
      <4>1. i \in 1..Len(sq) /\ i \in 2..Len(sq)
        BY <1>2, <2>1, <3>2, SMTT(30)
      <4> QED
        BY <1>3, <4>1 DEF Grows, Taking
    <3> QED
      BY <1>2, <2>1, <3>1, <3>2, SMTT(30)
  <2> QED
    BY <1>3, <2>1 DEF Taking
<1>4. ASSUME Started
      PROVE  Started'
  <2>1. ASSUME NEW i \in 1..Len(sq')
        PROVE  sq'[i].op # "wakeup"
    <3>1. CASE i > Len(sq)
      BY <2>1, <3>1 DEF Grows
    <3>2. CASE i <= Len(sq)
      <4>1. i \in 1..Len(sq)
        BY <1>2, <2>1, <3>2, SMTT(30)
      <4> QED
        BY <1>4, <4>1 DEF Grows, Started
    <3> QED
      BY <1>2, <2>1, <3>1, <3>2, SMTT(30)
  <2> QED
    BY <2>1 DEF Started
<1>5. ~reused' /\ ~SqPoll => flushed = 0
  BY <1>1 DEF BatchInv
<1> QED
  BY <1>1, <1>3, <1>4, <1>5 DEF BatchInv

\* A queue that continues the old one, or the old one and an accept, has grown.
LEMMA ContinuesGrown ==
  ASSUME Inv, NEW h, NEW c, NEW q, q \in {sq, Append(sq, AcceptSqe)}, sq' \in Seq(Sqe),
         Continues(h, c, q, sq')
  PROVE  Grows
<1>1. sq \in Seq(Sqe) /\ Len(sq) \in Nat /\ Len(sq') \in Nat
  BY BatchNumbers, SMTT(30)
<1>2. CASE q = sq
  BY <1>1, <1>2 DEF Continues, Control, Grows
<1>3. CASE q = Append(sq, AcceptSqe)
  <2>1. /\ Len(q) = Len(sq) + 1 /\ q[Len(sq) + 1] = AcceptSqe
        /\ \A i \in 1..Len(sq) : q[i] = sq[i]
    BY <1>1, <1>3, SMTT(30)
  <2>2. Len(sq) <= Len(sq') /\ \A i \in 1..Len(sq) : i \in 1..Len(q)
    BY <1>1, <2>1, SMTT(30) DEF Continues
  <2>3. ASSUME NEW i \in 1..Len(sq'), i > Len(sq)
        PROVE  sq'[i].op # "wakeup"
    <3>1. i = Len(sq) + 1 \/ i > Len(q)
      BY <1>1, <2>1, <2>3, SMTT(30)
    <3>2. CASE i = Len(sq) + 1
      <4>1. i \in 1..Len(q)
        BY <1>1, <2>1, <3>2, SMTT(30)
      <4>2. sq'[i] = AcceptSqe
        BY <2>1, <3>2, <4>1 DEF Continues
      <4>3. AcceptSqe.op # "wakeup"
        BY SMTT(30) DEF AcceptSqe
      <4> QED
        BY <4>2, <4>3
    <3>3. CASE i > Len(q)
      BY <2>3, <3>3 DEF Continues, Control
    <3> QED
      BY <3>1, <3>2, <3>3
  <2> QED
    BY <1>1, <2>1, <2>2, <2>3 DEF Continues, Grows
<1> QED
  BY <1>2, <1>3

\* The steps of the loop between the handlers.
LEMMA LoopBatch ==
  ASSUME Inv, BatchInv, \/ RingSubmit \/ PeekBatch \/ BatchDone \/ ReadsDone
                        \/ AcceptFailed \/ AcceptTerminates
  PROVE  BatchInv'
<1>1. CASE RingSubmit
  <2>1. /\ phase = "submit" /\ phase' = "wait" /\ flushed' = Len(sq) /\ KeepReuse
        /\ UNCHANGED <<sq, cq, ops, kbatch>>
    BY <1>1 DEF RingSubmit, kernel
  <2>2. ~reused' => ~reused
    BY <2>1 DEF KeepReuse
  <2>3. (Taking => Taking') /\ (Started => Started')
    BY <2>1 DEF Taking, Started
  <2>4. Fresh => Fresh'
    BY <2>1, SMTT(30) DEF Fresh
  <2>5. kbatch.left <= flushed => kbatch.left <= Len(sq)
    BY BatchNumbers, SMTT(30)
  <2>6. ~SqPoll /\ ~reused' => kbatch.left = 0
    BY <2>1, <2>2 DEF BatchInv
  <2> QED
    BY <2>1, <2>2, <2>3, <2>4, <2>5, <2>6 DEF BatchInv
<1>2. CASE PeekBatch \/ BatchDone \/ ReadsDone \/ AcceptFailed \/ AcceptTerminates
  <2>1. /\ KeepReuse /\ UNCHANGED <<sq, kbatch, flushed>>
        /\ phase \in {"batch", "reads"} \/ (cq # <<>> /\ (SqPoll \/ flushed = 0))
    BY <1>2 DEF PeekBatch, BatchDone, ReadsDone, AcceptFailed, AcceptTerminates, NextCqe, kernel
  <2>2. ~Fresh
    BY <2>1 DEF Fresh
  <2>3. reused' \/ SqPoll \/ flushed = 0
    BY <2>1 DEF BatchInv, KeepReuse
  <2>4. CASE reused'
    BY <2>4 DEF BatchInv
  <2> QED
    BY <2>1, <2>2, <2>3, <2>4, QuietBatch
<1> QED
  BY <1>1, <1>2

\* The steps that run a handler.
LEMMA HandlerBatch ==
  ASSUME Inv, Inv', BatchInv, CompleteChannel \/ AcceptAssign \/ AcceptDrop \/ BatchRead
  PROVE  BatchInv'
<1>1. /\ KeepReuse /\ UNCHANGED <<kbatch, flushed>> /\ phase \in {"batch", "reads"}
  BY DEF CompleteChannel, AcceptAssign, AcceptDrop, BatchRead, NextCqe, kernel
<1>2. sq \in Seq(Sqe) /\ sq' \in Seq(Sqe)
  BY DEF Inv, TypeOK
<1>3. CASE CompleteChannel
  <2> DEFINE e == Head(cq)
             h == e.ch
  <2>1. cq # <<>> /\ NextCqe(e) /\ e.op # "accept"
    BY <1>3 DEF CompleteChannel
  <2>2. PICK close \in {FALSE, Closes} : Commit(h, Complete(h, e, close, FrameOf(h)))
    BY <1>3 DEF CompleteChannel
  <2> HIDE DEF e
  <2>3. e \in Cqe /\ Formed(e) /\ close \in BOOLEAN
    BY <2>1, CqeTaken, ModesAssumption
  <2>4. h \in Chan
    BY <2>1, <2>3 DEF Formed, Cqe, Control
  <2> DEFINE s == FrameOf(h)
             r == Complete(h, e, close, s)
  <2>5. s \in Frame /\ s.sq = sq /\ Shut(s) /\ Parked(s)
    BY <2>4, FrameOfType
  <2>6. sq' = r.sq
    BY <2>2 DEF Commit
  <2> HIDE DEF h, s
  <2>7. Handles(h, s, r)
    BY <2>3, <2>4, <2>5, CompleteHandles
  <2> HIDE DEF r
  <2>8. Continues(h, s.c.conn, sq, sq')
    BY <2>5, <2>6, <2>7 DEF Handles
  <2> QED
    BY <1>2, <2>8, ContinuesGrown, <1>1, GrownBatch DEF Fresh
<1>4. CASE BatchRead
  <2> DEFINE h == Head(pending_reads)
             s == [FrameOf(h) EXCEPT !.c.marked = FALSE, !.reads = Tail(@)]
  <2>1. pending_reads # <<>> /\ pending_reads \in Seq(Chan)
    BY <1>4 DEF BatchRead, Inv, TypeOK
  <2>2. PICK echo \in BOOLEAN, close \in {FALSE, Closes} :
          Commit(h, OnRead(h, echo, close, s))
    BY <1>4 DEF BatchRead
  <2>3. h \in Chan /\ Tail(pending_reads) \in Seq(Chan) /\ close \in BOOLEAN
    BY <2>1, TailSet, ModesAssumption
  <2> HIDE DEF h
  <2>4. s \in Frame /\ s.sq = sq /\ Shut(s) /\ Parked(s)
    <3> DEFINE x == [chan[h] EXCEPT !.marked = FALSE]
               t == Tail(pending_reads)
               f == FrameOf(h)
    <3>1. /\ f \in Frame /\ f.c = chan[h] /\ f.sq = sq /\ f.reads = pending_reads
          /\ Shut(f) /\ Parked(f)
      BY <2>3, FrameOfType
    <3>2. /\ x \in Channel /\ x.fd = chan[h].fd /\ x.closed = chan[h].closed
          /\ x.wr = chan[h].wr /\ x.send = chan[h].send
          /\ x.draft = chan[h].draft /\ x.pending = chan[h].pending
      BY <2>3 DEF Inv, TypeOK, Channel
    <3>3. s = [f EXCEPT !.c = x, !.reads = t]
      BY <3>1 DEF Frame
    <3>4. t \in Seq(Chan)
      BY <2>3
    <3> HIDE DEF x, t, f, s
    <3>5. s \in Frame /\ s.sq = f.sq /\ s.c = x
      BY <3>1, <3>2, <3>3, <3>4 DEF Frame
    <3> QED
      BY <3>1, <3>2, <3>5 DEF Shut, Parked
  <2> DEFINE r == OnRead(h, echo, close, s)
  <2>5. sq' = r.sq
    BY <2>2 DEF Commit
  <2> HIDE DEF s
  <2>6. Within(h, s, r)
    BY <2>3, <2>4, OnReadWithin
  <2> HIDE DEF r
  <2>7. Continues(h, s.c.conn, sq, sq')
    BY <2>4, <2>5, <2>6 DEF Within
  <2> QED
    BY <1>2, <2>7, ContinuesGrown, <1>1, GrownBatch DEF Fresh
<1>5. CASE AcceptAssign
  <2> DEFINE e == Head(cq)
             h == Head(free_queue)
             s == [FrameOf(h) EXCEPT !.free = Tail(@), !.sq = AcceptSq(e)]
  <2>1. /\ cq # <<>> /\ free_queue # <<>> /\ NextCqe(e) /\ e.op = "accept" /\ e.res >= 0
        /\ free_queue \in Seq(Chan)
    BY <1>5 DEF AcceptAssign, Inv, TypeOK
  <2>2. PICK close \in {FALSE, Closes} : Commit(h, Assign(h, e.res, e.conn, close, s))
    BY <1>5 DEF AcceptAssign
  <2> HIDE DEF e
  <2>3. e.res \in Fd /\ e.conn \in Conn /\ close \in BOOLEAN
    BY <2>1, CqeTaken, ModesAssumption DEF Accepted
  <2>4. h \in Chan /\ Tail(free_queue) \in Seq(Chan)
    BY <2>1, TailSet
  <2>5. AcceptSq(e) \in Seq(Sqe) /\ AcceptSq(e) \in {sq, Append(sq, AcceptSqe)}
    BY AcceptSqSet DEF AcceptSq
  <2> HIDE DEF h
  <2>6. s \in Frame /\ s.sq = AcceptSq(e)
    BY <2>4, <2>5, FrameOfType DEF Frame
  <2> DEFINE r == Assign(h, e.res, e.conn, close, s)
  <2>7. sq' = r.sq
    BY <2>2 DEF Commit
  <2> HIDE DEF s
  <2>8. Continues(h, e.conn, s.sq, r.sq)
    BY <2>3, <2>4, <2>6, AssignStarts
  <2> HIDE DEF r
  <2>9. Grows
    BY <1>2, <2>5, <2>6, <2>7, <2>8, ContinuesGrown
  <2> QED
    BY <1>1, <2>9, GrownBatch DEF Fresh
<1>6. CASE AcceptDrop
  <2>1. PICK e : sq' = AcceptSq(e)
    BY <1>6 DEF AcceptDrop
  <2>2. sq' \in {sq, Append(sq, AcceptSqe)}
    BY <2>1 DEF AcceptSq
  <2>3. Grows
    BY <1>2, <2>2, ContinuesSelf, ContinuesGrown
  <2> QED
    BY <1>1, <2>3, GrownBatch DEF Fresh
<1> QED
  BY <1>3, <1>4, <1>5, <1>6

\* The kernel takes a submission: of a batch under way, or the first of all
\* that is published.
LEMMA KernelTakeBatch ==
  ASSUME Inv, RingInv, BatchInv, KernelTake
  PROVE  BatchInv'
<1> SUFFICES ASSUME ~reused' PROVE BatchInv'
  BY DEF BatchInv
<1>1. ~reused
  BY DEF KernelTake, KeepReuse
<1> DEFINE k == kbatch.left
           m == kbatch.taken
           f == flushed
           l == Len(sq)
           n == IF k = 0 THEN f ELSE k
           P == PoolSize
<1>2. /\ f > 0 /\ sq' = Tail(sq) /\ flushed' = f - 1 /\ phase' = phase
      /\ kbatch' = IF n = 1 THEN [left |-> 0, taken |-> 0]
                   ELSE [left |-> n - 1, taken |-> m + 1]
  BY DEF KernelTake, user
<1>3. /\ k \in Nat /\ m \in Nat /\ f \in Nat /\ l \in Nat /\ f <= l /\ sq \in Seq(Sqe)
      /\ P \in Nat /\ P > 0
  BY BatchNumbers, SizesAssumption, SMTT(30)
<1>4. sq # <<>> /\ Len(sq') = l - 1 /\ \A i \in 1..Len(sq') : sq'[i] = sq[i + 1] /\ i + 1 \in 2..l
  BY <1>2, <1>3, SMTT(30)
<1>5. /\ Fresh \/ Taking \/ Started
      /\ k <= f /\ (k = 0 => m = 0) /\ k + m <= 2 * P + 1
      /\ ~SqPoll => k \in {0, f} /\ (f # 0 => f = l /\ phase = "wait")
  BY <1>1 DEF BatchInv
<1>6. k = 0 => l <= 2 * P + 1
  BY <1>1, Lengths
<1>7. kbatch'.left = n - 1 /\ (n = 1 => kbatch'.taken = 0) /\ (n # 1 => kbatch'.taken = m + 1)
  <2>1. CASE n = 1
    <3>1. kbatch' = [left |-> 0, taken |-> 0]
      BY <1>2, <2>1
    <3>2. n - 1 = 0
      BY <2>1, SMTT(30)
    <3> HIDE DEF n
    <3> QED
      BY <2>1, <3>1, <3>2
  <2>2. CASE n # 1
    <3>1. kbatch' = [left |-> n - 1, taken |-> m + 1]
      BY <1>2, <2>2
    <3> HIDE DEF n, m
    <3> QED
      BY <2>2, <3>1
  <2> QED
    BY <2>1, <2>2
<1>8. Fresh' \/ Taking' \/ Started'
  <2>1. CASE Fresh
    <3>1. /\ sq = <<AcceptSqe, WakeupSqe>> /\ k = 0 /\ m = 0 /\ f = 2 /\ l = 2
      BY <1>2, <2>1, SMTT(30) DEF Fresh
    <3>2. n = 2 /\ n - 1 = 1 /\ m + 1 = 1 /\ n # 1
      BY <3>1, SMTT(30)
    <3>3. kbatch' = [left |-> n - 1, taken |-> m + 1]
      BY <1>2, <3>2
    <3>4. kbatch' = [left |-> 1, taken |-> 1]
      BY <3>2, <3>3
    <3>5. \A i \in 2..Len(sq') : FALSE
      BY <1>4, <3>1, SMTT(30)
    <3> QED
      BY <3>4, <3>5 DEF Taking
  <2>2. CASE Taking \/ Started
    <3>1. \A i \in 2..l : sq[i].op # "wakeup"
      <4>1. \A i \in 2..l : i \in 1..l
        BY <1>3, SMTT(30)
      <4> QED
        BY <2>2, <4>1 DEF Taking, Started
    <3> QED
      BY <1>4, <3>1 DEF Started
  <2> QED
    BY <1>5, <2>1, <2>2
<1> DEFINE x == kbatch'.left
           y == kbatch'.taken
           g == flushed'
           j == Len(sq')
<1>9. /\ x = n - 1 /\ (n = 1 => y = 0) /\ (n # 1 => y = m + 1) /\ g = f - 1 /\ j = l - 1
      /\ n \in {k, f} /\ (k = 0 => n = f) /\ (k # 0 => n = k)
  BY <1>2, <1>4, <1>7
<1> HIDE DEF k, m, f, l, n, P, x, y, g, j
<1>10. x <= g /\ (x = 0 => y = 0) /\ x + y <= 2 * P + 1
  BY <1>2, <1>3, <1>5, <1>6, <1>9, SMTT(30)
<1>11. ~SqPoll => x \in {0, g} /\ (g # 0 => g = j)
  BY <1>2, <1>3, <1>5, <1>9, SMTT(30)
<1>12. ~SqPoll => phase' = "wait"
  BY <1>2, <1>3, <1>5, SMTT(30)
<1> QED
  BY <1>8, <1>10, <1>11, <1>12 DEF BatchInv, x, y, g, j, P

\* The kernel's other steps.
LEMMA KernelBatch ==
  ASSUME BatchInv, Kernel, ~KernelTake
  PROVE  BatchInv'
<1>1. /\ KeepReuse /\ UNCHANGED <<sq, kbatch, flushed, phase>> /\ \E i \in DOMAIN ops : TRUE
  BY DEF Kernel, KernelAccept, KernelAcceptError, KernelRecv, KernelRecvEnd, KernelRecvNoBufs,
         KernelWrite, KernelWriteFail, user
<1>2. ~Fresh
  BY <1>1, SMTT(30) DEF Fresh
<1> QED
  BY <1>1, <1>2, QuietBatch

\* The invariant holds in the initial state.
LEMMA BatchInit == Init => BatchInv
<1> SUFFICES ASSUME Init PROVE BatchInv
  OBVIOUS
<1>1. Fresh /\ kbatch = [left |-> 0, taken |-> 0] /\ flushed = 0
  BY DEF Init, Fresh
<1>2. kbatch.left = 0 /\ kbatch.taken = 0
  BY <1>1
<1>3. 0 <= 0 /\ 0 + 0 <= 2 * PoolSize + 1
  BY SizesAssumption, SMTT(30)
<1> QED
  BY <1>1, <1>2, <1>3 DEF BatchInv

\* Every step keeps it.
LEMMA BatchNext == Inv /\ RingInv /\ BatchInv /\ [Next]_vars => BatchInv'
<1> SUFFICES ASSUME Inv, RingInv, BatchInv, [Next]_vars PROVE BatchInv'
  OBVIOUS
<1>0. Inv'
  BY NextInv
<1>1. CASE Worker
  BY <1>0, <1>1, LoopBatch, HandlerBatch DEF Worker
<1>2. CASE Kernel
  BY <1>2, KernelTakeBatch, KernelBatch
<1>3. CASE UNCHANGED vars
  <2>1. UNCHANGED <<sq, kbatch, flushed, phase, ops, cq, reused>>
    BY <1>3 DEF vars, user, kernel
  <2>2. (Fresh => Fresh') /\ (Taking => Taking') /\ (Started => Started')
    BY <2>1 DEF Fresh, Taking, Started
  <2> QED
    BY <2>1, <2>2 DEF BatchInv
<1> QED
  BY <1>1, <1>2, <1>3 DEF Next

\* How deep the submission queue must be for every get_sqe to succeed: one entry
\* for the accept and two for every channel, with SQPOLL almost twice that
\* (IoRing::get_sqe in src/include/core/io_ring.hpp).
THEOREM QueueIsDeepEnough == Spec => []SqBound
<1>1. Inv /\ RingInv /\ BatchInv => SqBound
  BY Lengths DEF SqBound
<1> QED
  BY <1>1, InitInv, NextInv, RingInit, RingNext, BatchInit, BatchNext, PTL DEF Spec
-----------------------------------------------------------------------------
\* The queue is as deep as SqBound asks.
Roomy == QueueDepth >= IF SqPoll THEN 4 * PoolSize + 1 ELSE 2 * PoolSize + 1

\* A receive that is not armed, or a write, finds room in the queue.
NeverFull ==
  Roomy /\ ~reused /\ phase # "wait" =>
    \A h \in Chan : chan[h].rd # "await" \/ chan[h].wr # "await" => ~SqFull(sq)

\* The counts leave room.
LEMMA RingRoom == Inv /\ RingInv /\ BatchInv => NeverFull
<1> SUFFICES ASSUME Inv, RingInv, BatchInv, Roomy, ~reused, phase # "wait",
                    NEW h \in Chan, NEW op \in {"recv", "write"},
                    op = "recv" => chan[h].rd # "await", op = "write" => chan[h].wr # "await"
             PROVE  ~SqFull(sq)
  BY DEF NeverFull
<1>1. Unfinished(h, op) = 0
  BY DEF RingInv, Tally, Waits
<1>2. Held(sq, h, op) \in Nat /\ Held(ops, h, op) \in Nat /\ Ended(cq, h, op) \in Nat
  BY RingTypes
<1>3. Held(sq, h, op) = 0
  BY <1>1, <1>2, SMTT(30) DEF Unfinished
<1> DEFINE n == Len(sq) + kbatch.taken
<1>4. n <= (IF SqPoll THEN 4 * PoolSize ELSE 2 * PoolSize) /\ n \in Nat
  <2>1. n \in Nat
    BY BatchNumbers, SMTT(30)
  <2> QED
    BY <1>3, <2>1, Lengths
<1>5. SqFull(sq) <=> n >= QueueDepth
  BY DEF SqFull
<1> HIDE DEF n
<1> QED
  BY <1>4, <1>5, SizesAssumption, SMTT(30) DEF Roomy

\* The same of the next state.
LEMMA RingRoomNext == Inv' /\ RingInv' /\ BatchInv' => NeverFull'
BY RingRoom, PTL

DataCqes == {e \in Cqe : e.op = "recv" /\ e.res > 0}

\* Completions that carry a buffer.
Laden(q) == Cardinality({i \in DOMAIN q : q[i].op = "recv" /\ q[i].res > 0})

\* What Laden counts.
LEMMA LadenOccurs ==
  ASSUME NEW q \in Seq(Cqe)
  PROVE  Laden(q) = Occurs(q, DataCqes) /\ Laden(q) \in Nat
<1>1. \A i \in DOMAIN q : q[i] \in Cqe
  BY SMTT(30)
<1>2. {i \in DOMAIN q : q[i].op = "recv" /\ q[i].res > 0} = Places(q, DataCqes)
  BY <1>1 DEF Places, DataCqes
<1>3. Laden(q) = Occurs(q, DataCqes)
  BY <1>2 DEF Laden, Occurs
<1> QED
  BY <1>3, OccursType

\* A completion is posted.
LEMMA LadenAppend ==
  ASSUME NEW q \in Seq(Cqe), NEW e \in Cqe
  PROVE  Laden(Append(q, e)) = IF e.op = "recv" /\ e.res > 0 THEN Laden(q) + 1 ELSE Laden(q)
<1>1. Append(q, e) \in Seq(Cqe) /\ (e \in DataCqes <=> e.op = "recv" /\ e.res > 0)
  BY SMTT(30) DEF DataCqes
<1>2. Laden(Append(q, e)) = Occurs(Append(q, e), DataCqes)
  BY <1>1, LadenOccurs
<1>3. Laden(q) = Occurs(q, DataCqes)
  BY LadenOccurs
<1> QED
  BY <1>1, <1>2, <1>3, OccursAppend

\* A completion is taken.
LEMMA LadenTail ==
  ASSUME NEW q \in Seq(Cqe), q # <<>>
  PROVE  Laden(q) = IF Head(q).op = "recv" /\ Head(q).res > 0
                    THEN Laden(Tail(q)) + 1 ELSE Laden(Tail(q))
<1>1. Tail(q) \in Seq(Cqe) /\ Head(q) \in Cqe
  BY SMTT(30)
<1>2. Head(q) \in DataCqes <=> Head(q).op = "recv" /\ Head(q).res > 0
  BY <1>1 DEF DataCqes
<1>3. Laden(q) = Occurs(q, DataCqes)
  BY LadenOccurs
<1>4. Laden(Tail(q)) = Occurs(Tail(q), DataCqes)
  BY <1>1, LadenOccurs
<1> QED
  BY <1>2, <1>3, <1>4, OccursTail

\* The buffers in the read buffer q of channel h.
Shelf(h, q) == {h} \X DOMAIN q

Stored == UNION {Shelf(h, chan[h].read_buf) : h \in Chan}

\* How many they are.
LEMMA ShelfSize ==
  ASSUME NEW h, NEW q \in Seq(Unit)
  PROVE  IsFiniteSet(Shelf(h, q)) /\ Cardinality(Shelf(h, q)) = Len(q)
<1>1. Len(q) \in Nat /\ DOMAIN q = 1..Len(q)
  BY SMTT(30)
<1>2. IsFiniteSet(1..Len(q)) /\ Cardinality(1..Len(q)) = Len(q)
  BY <1>1, FS_Interval, SMTT(30)
<1>3. IsFiniteSet({h}) /\ Cardinality({h}) = 1
  BY FS_Singleton
<1> DEFINE D == 1..Len(q)
           H == {h}
<1>4. Shelf(h, q) = H \X D /\ Cardinality(D) \in Nat
  BY <1>1, <1>2 DEF Shelf
<1>5. IsFiniteSet(D) /\ IsFiniteSet(H) /\ Cardinality(D) = Len(q) /\ Cardinality(H) = 1
  BY <1>2, <1>3
<1> HIDE DEF D, H
<1>6. IsFiniteSet(H \X D) /\ Cardinality(H \X D) = 1 * Cardinality(D)
  BY <1>5, FS_Product
<1> QED
  BY <1>4, <1>5, <1>6, SMTT(30)

\* One channel's read buffer changes.
LEMMA StoredChange ==
  ASSUME Inv, NEW h \in Chan, NEW c \in Channel, chan' = [chan EXCEPT ![h] = c],
         IsFiniteSet(Stored)
  PROVE  /\ IsFiniteSet(Stored') /\ Cardinality(Stored) \in Nat
         /\ Cardinality(Stored') + Len(chan[h].read_buf)
              = Cardinality(Stored) + Len(c.read_buf)
<1> DEFINE A == Shelf(h, chan[h].read_buf)
           B == Shelf(h, c.read_buf)
           R == Stored \ A
<1>1. chan[h].read_buf \in Seq(Unit) /\ c.read_buf \in Seq(Unit)
  BY DEF Inv, TypeOK, Channel
<1>2. /\ IsFiniteSet(A) /\ Cardinality(A) = Len(chan[h].read_buf)
      /\ IsFiniteSet(B) /\ Cardinality(B) = Len(c.read_buf)
  BY <1>1, ShelfSize
<1>3. \A g, q, x : x \in Shelf(g, q) => x[1] = g
  BY DEF Shelf
<1>4. chan'[h] = c /\ \A g \in Chan : g # h => chan'[g] = chan[g]
  BY DEF Inv, TypeOK
<1>5. /\ \A x : x \in Stored <=> \E g \in Chan : x \in Shelf(g, chan[g].read_buf)
      /\ \A x : x \in Stored' <=> \E g \in Chan : x \in Shelf(g, chan'[g].read_buf)
  BY DEF Stored
<1>6. A \subseteq Stored /\ Stored' = R \cup B /\ R \cap B = {}
  <2>1. A \subseteq Stored
    BY <1>5
  <2>2. \A x \in R : \E g \in Chan : g # h /\ x \in Shelf(g, chan[g].read_buf)
    BY <1>5
  <2>3. R \cap B = {}
    BY <1>3, <2>2, SMTT(30)
  <2>4. ASSUME NEW x \in Stored' PROVE x \in R \cup B
    <3>1. PICK g \in Chan : x \in Shelf(g, chan'[g].read_buf)
      BY <1>5
    <3>2. CASE g = h
      BY <1>4, <3>1, <3>2
    <3>3. CASE g # h
      BY <1>3, <1>4, <1>5, <3>1, <3>3, SMTT(30)
    <3> QED
      BY <3>2, <3>3
  <2>5. ASSUME NEW x \in R PROVE x \in Stored'
    BY <1>4, <1>5, <2>2
  <2>6. ASSUME NEW x \in B PROVE x \in Stored'
    BY <1>4, <1>5
  <2> QED
    BY <2>1, <2>3, <2>4, <2>5, <2>6
<1> HIDE DEF A, B
<1>7. IsFiniteSet(R) /\ Cardinality(R) = Cardinality(Stored) - Cardinality(A)
  <2>1. Stored \cap A = A
    BY <1>6
  <2> QED
    BY <2>1, FS_Difference
<1> HIDE DEF R
<1>8. IsFiniteSet(R \cup B) /\ Cardinality(R \cup B) = Cardinality(R) + Cardinality(B) - 0
  <2>1. /\ IsFiniteSet(R \cup B)
        /\ Cardinality(R \cup B) = Cardinality(R) + Cardinality(B) - Cardinality(R \cap B)
    BY <1>2, <1>7, FS_Union
  <2>2. Cardinality(R \cap B) = 0
    BY <1>6, FS_EmptySet
  <2> QED
    BY <2>1, <2>2
<1>9. Cardinality(Stored) \in Nat /\ Cardinality(A) \in Nat /\ Cardinality(B) \in Nat
  BY <1>2, FS_CardinalityType
<1> DEFINE u == Cardinality(Stored)
           v == Cardinality(Stored')
           ca == Cardinality(A)
           cb == Cardinality(B)
           cr == Cardinality(R)
<1>10. v = cr + cb - 0 /\ cr = u - ca /\ u \in Nat /\ ca \in Nat /\ cb \in Nat
  BY <1>6, <1>7, <1>8, <1>9
<1>11. v + ca = u + cb
  <2> HIDE DEF u, v, ca, cb, cr
  <2> QED
    BY <1>10, SMTT(30)
<1> QED
  BY <1>2, <1>6, <1>8, <1>9, <1>11

\* The receive of completion i of the completions q is still with the kernel,
\* or its final completion comes later.
Followed(q, p, i) ==
  \/ \E x \in Range(p) : x.op = "recv" /\ x.ch = q[i].ch
  \/ \E j \in DOMAIN q : j > i /\ q[j].op = "recv" /\ q[j].ch = q[i].ch /\ ~q[j].more

\* IORING_CQE_F_MORE is kept: more completions come.
Sources(q, p) == \A i \in DOMAIN q : q[i].op = "recv" /\ q[i].more => Followed(q, p, i)

\* The worker takes a completion.
LEMMA SourcesTail ==
  ASSUME NEW q \in Seq(Cqe), q # <<>>, NEW p, Sources(q, p)
  PROVE  Sources(Tail(q), p)
<1> DEFINE r == Tail(q)
<1>1. /\ Len(q) \in Nat /\ Len(q) >= 1 /\ DOMAIN q = 1..Len(q) /\ DOMAIN r = 1..(Len(q) - 1)
      /\ \A j \in DOMAIN r : r[j] = q[j + 1]
  BY SMTT(30)
<1> HIDE DEF r
<1> SUFFICES ASSUME NEW i \in DOMAIN r, r[i].op = "recv", r[i].more
             PROVE  Followed(r, p, i)
  BY DEF Sources, r
<1>2. i + 1 \in DOMAIN q /\ r[i] = q[i + 1] /\ i \in Nat
  BY <1>1, SMTT(30)
<1>3. Followed(q, p, i + 1)
  BY <1>2 DEF Sources
<1>4. CASE \E x \in Range(p) : x.op = "recv" /\ x.ch = q[i + 1].ch
  BY <1>2, <1>4 DEF Followed
<1>5. ASSUME NEW j \in DOMAIN q, j > i + 1, q[j].op = "recv", q[j].ch = q[i + 1].ch, ~q[j].more
      PROVE  Followed(r, p, i)
  <2>1. j - 1 \in DOMAIN r /\ j - 1 > i /\ (j - 1) + 1 = j
    BY <1>1, <1>2, <1>5, SMTT(30)
  <2>2. r[j - 1] = q[j]
    BY <1>1, <2>1
  <2> QED
    BY <1>2, <1>5, <2>1, <2>2 DEF Followed
<1> QED
  BY <1>3, <1>4, <1>5 DEF Followed

\* The kernel posts a completion.
LEMMA SourcesPost ==
  ASSUME NEW q \in Seq(Cqe), NEW e \in Cqe, NEW p, NEW o, Sources(q, p),
         \A x \in Range(p) : x \in Range(o) \/ (x.op = e.op /\ x.ch = e.ch /\ ~e.more),
         e.op = "recv" /\ e.more => \E x \in Range(o) : x.op = "recv" /\ x.ch = e.ch
  PROVE  Sources(Append(q, e), o)
<1> DEFINE r == Append(q, e)
           n == Len(q)
<1>1. /\ n \in Nat /\ DOMAIN q = 1..n /\ DOMAIN r = 1..(n + 1) /\ r[n + 1] = e
      /\ \A j \in DOMAIN q : r[j] = q[j]
  BY SMTT(30)
<1> HIDE DEF r, n
<1> SUFFICES ASSUME NEW i \in DOMAIN r, r[i].op = "recv", r[i].more
             PROVE  Followed(r, o, i)
  BY DEF Sources, r
<1>2. CASE i = n + 1
  BY <1>1, <1>2 DEF Followed
<1>3. CASE i # n + 1
  <2>1. i \in DOMAIN q /\ r[i] = q[i] /\ i < n + 1 /\ n + 1 \in DOMAIN r
    BY <1>1, <1>3, SMTT(30)
  <2>2. Followed(q, p, i)
    BY <2>1 DEF Sources
  <2>3. ASSUME NEW x \in Range(p), x.op = "recv", x.ch = q[i].ch
        PROVE  Followed(r, o, i)
    <3>1. CASE x \in Range(o)
      BY <2>1, <2>3, <3>1 DEF Followed
    <3>2. CASE x.op = e.op /\ x.ch = e.ch /\ ~e.more
      BY <1>1, <2>1, <2>3, <3>2 DEF Followed
    <3> QED
      BY <3>1, <3>2
  <2>4. ASSUME NEW j \in DOMAIN q, j > i, q[j].op = "recv", q[j].ch = q[i].ch, ~q[j].more
        PROVE  Followed(r, o, i)
    <3>1. j \in DOMAIN r /\ r[j] = q[j]
      BY <1>1, SMTT(30)
    <3> QED
      BY <2>1, <2>4, <3>1 DEF Followed
  <2> QED
    BY <2>2, <2>3, <2>4 DEF Followed
<1> QED
  BY <1>2, <1>3

\* What is left of the kernel's list.
LEMMA CutKeeps ==
  ASSUME NEW S, NEW q \in Seq(S), NEW i \in DOMAIN q, NEW r, r = Cut(q, i),
         NEW x \in Range(q), x # q[i]
  PROVE  x \in Range(r)
<1>1. r \in Seq(S)
  BY CutSet DEF Cut
<1>2. Occurs(q, {x}) = Occurs(r, {x})
  BY OccursCut DEF Cut
<1>3. Occurs(q, {x}) # 0
  BY OccursType
<1> QED
  BY <1>1, <1>2, <1>3, OccursType, SMTT(30)

\* Data that a channel is still owed keeps its reader waiting.
LEMMA DataIsAwaited ==
  ASSUME Inv, RingInv, ~reused, Sources(cq, ops), cq # <<>>, NEW e, e = Head(cq),
         e.op = "recv", e.ch \in Chan
  PROVE  chan[e.ch].rd = "await"
<1> DEFINE h == e.ch
<1>1. cq \in Seq(Cqe) /\ ops \in Seq(Op) /\ 1 \in DOMAIN cq /\ e = cq[1] /\ Op \in SUBSET Entry
  BY RingTypes, SMTT(30) DEF Entry
<1>2. /\ Held(sq, h, "recv") \in Nat /\ Held(ops, h, "recv") \in Nat
      /\ Ended(cq, h, "recv") \in Nat
  BY RingTypes
<1>3. Unfinished(h, "recv") = Waits(chan[h].rd)
  BY DEF RingInv, Tally
<1>4. CASE \E j \in DOMAIN cq : cq[j].op = "recv" /\ cq[j].ch = h /\ ~cq[j].more
  <2>1. PICK j \in DOMAIN cq : cq[j].op = "recv" /\ cq[j].ch = h /\ ~cq[j].more
    BY <1>4
  <2>2. cq[j] \in EndsOf(h, "recv") /\ cq[j] \in Range(cq)
    BY <1>1, <2>1, SMTT(30) DEF EndsOf, Range
  <2>3. Ended(cq, h, "recv") # 0
    BY <1>1, <2>2, EndedOccurs, OccursType, SMTT(30)
  <2> QED
    BY <1>2, <1>3, <2>3, SMTT(30) DEF Unfinished, Waits
<1>5. CASE \E x \in Range(ops) : x.op = "recv" /\ x.ch = h
  <2>1. PICK x \in Range(ops) : x.op = "recv" /\ x.ch = h
    BY <1>5
  <2>2. x \in OpsOf(h, "recv")
    BY <1>1, <2>1, SMTT(30) DEF OpsOf, Range
  <2>3. Held(ops, h, "recv") # 0
    BY <1>1, <2>2, HeldOccurs, OccursType, SMTT(30)
  <2> QED
    BY <1>2, <1>3, <2>3, SMTT(30) DEF Unfinished, Waits
<1>6. e.more => Followed(cq, ops, 1)
  BY <1>1 DEF Sources
<1> QED
  BY <1>1, <1>4, <1>5, <1>6, SMTT(30) DEF Followed

-----------------------------------------------------------------------------
(***************************************************************************)
(* The invariant of the buffers, on top of Inv and RingInv.                *)
(***************************************************************************)
\* A provided buffer holds one unit of data.
Unitary(e) == e.op = "recv" /\ e.res > 0 => Len(e.data) = 1

\* Every buffer is with the kernel, in a completion or in a read buffer.
Stocked == avail + Laden(cq) + Cardinality(Stored) = BufNum

\* A reader that has ended gave its buffers back.
Emptied == \A h \in Chan : chan[h].rd # "await" => chan[h].read_buf = <<>>

\* A writer that has ended was closed and left nothing in the write buffer.
Drained ==
  \A h \in Chan :
    /\ chan[h].wr \in {"none", "done"} => chan[h].send = <<>> /\ chan[h].draft = <<>>
    /\ chan[h].wr = "done" => chan[h].closed

BufInv ==
  /\ IsFiniteSet(Stored)
  /\ Sources(cq, ops)
  /\ \A e \in Range(cq) : Unitary(e)
  /\ Roomy /\ ~reused => Stocked /\ Emptied
  /\ Roomy /\ ~reused /\ ~Careless => Drained

\* A step that leaves the channels alone.
LEMMA BufMoves ==
  ASSUME BufInv, chan' = chan, KeepReuse, Sources(cq', ops'),
         \A e \in Range(cq') : Unitary(e), avail' + Laden(cq') = avail + Laden(cq)
  PROVE  BufInv'
<1>1. ~reused' => ~reused
  BY DEF KeepReuse
<1>2. Stored' = Stored
  BY DEF Stored
<1>3. Stocked => Stocked'
  BY <1>2 DEF Stocked
<1>4. (Emptied => Emptied') /\ (Drained => Drained')
  BY DEF Emptied, Drained
<1>5. (Roomy <=> Roomy') /\ (Careless <=> Careless')
  BY DEF Roomy
<1> QED
  BY <1>1, <1>2, <1>3, <1>4, <1>5 DEF BufInv

\* A kernel step that posts a completion of operation i.
LEMMA PostBuf ==
  ASSUME Inv, BufInv, Inv', NEW i \in DOMAIN ops, NEW e, Post(i, e),
         e.op = ops[i].op, e.ch = ops[i].ch, Unitary(e), chan' = chan, KeepReuse,
         avail = IF e.op = "recv" /\ e.res > 0 THEN avail' + 1 ELSE avail'
  PROVE  BufInv'
<1> DEFINE r == Cut(ops, i)
<1>0. e \in Cqe /\ avail' \in Int
  <2>1. cq' = Append(cq, e) /\ cq \in Seq(Cqe) /\ cq' \in Seq(Cqe) /\ avail' \in Int
    BY SMTT(30) DEF Post, Inv, TypeOK
  <2>2. Len(cq) + 1 \in DOMAIN cq' /\ cq'[Len(cq) + 1] = e
    BY <2>1, SMTT(30)
  <2> QED
    BY <2>1, <2>2, SMTT(30)
<1>1. cq \in Seq(Cqe) /\ ops \in Seq(Op) /\ ops[i] \in Range(ops)
  BY DEF Inv, TypeOK, Range
<1>2. cq' = Append(cq, e) /\ ops' = IF e.more THEN ops ELSE r
  BY DEF Post, Cut
<1>3. \A x \in Range(ops) : x # ops[i] => x \in Range(r)
  <2>1. r = Cut(ops, i)
    OBVIOUS
  <2> HIDE DEF r
  <2> QED
    BY <1>1, <2>1, CutKeeps
<1> HIDE DEF r
<1>4. /\ \A x \in Range(ops) : x \in Range(ops') \/ (x.op = e.op /\ x.ch = e.ch /\ ~e.more)
      /\ e.op = "recv" /\ e.more => \E x \in Range(ops') : x.op = "recv" /\ x.ch = e.ch
  BY <1>1, <1>2, <1>3
<1>5. Sources(cq', ops')
  BY <1>0, <1>1, <1>2, <1>4, SourcesPost DEF BufInv
<1>6. \A x \in Range(cq') : Unitary(x)
  BY <1>0, <1>1, <1>2, AppendSet, SMTT(30) DEF BufInv
<1>7. Laden(cq') = IF e.op = "recv" /\ e.res > 0 THEN Laden(cq) + 1 ELSE Laden(cq)
  BY <1>0, <1>1, <1>2, LadenAppend
<1>8. Laden(cq) \in Nat
  BY <1>1, LadenOccurs
<1> DEFINE m == Laden(cq)
           n == Laden(cq')
<1>9. avail' + n = avail + m
  <2>1. n = IF e.op = "recv" /\ e.res > 0 THEN m + 1 ELSE m
    BY <1>7
  <2>2. m \in Nat
    BY <1>8
  <2> HIDE DEF m, n
  <2> QED
    BY <1>0, <2>1, <2>2, SMTT(30)
<1> QED
  BY <1>5, <1>6, <1>9, BufMoves

\* More operations in progress.
LEMMA SourcesMore ==
  ASSUME NEW q, NEW p, NEW o, Sources(q, p), Range(p) \subseteq Range(o)
  PROVE  Sources(q, o)
BY DEF Sources, Followed

\* The kernel takes a submission.
LEMMA KernelTakeBuf ==
  ASSUME Inv, BufInv, KernelTake
  PROVE  BufInv'
<1> DEFINE e == Head(sq)
           d == CqeOf(e, -1, FALSE, <<>>)
<1>1. PICK file :
        LET o == [op |-> e.op, ch |-> e.ch, conn |-> e.conn, file |-> file, data |-> e.data]
        IN  \/ e.ch # NoChan /\ cq' = Append(cq, d) /\ ops' = ops
            \/ ops' = Append(ops, o) /\ cq' = cq
  BY DEF KernelTake
<1>2. /\ flushed > 0 /\ chan' = chan /\ avail' = avail /\ KeepReuse
  BY DEF KernelTake, user
<1>3. /\ sq \in Seq(Sqe) /\ ops \in Seq(Op) /\ cq \in Seq(Cqe) /\ sq # <<>>
  BY <1>2, SMTT(30) DEF Inv, TypeOK
<1>4. e \in Sqe /\ e \in Range(sq)
  BY <1>3, TailSet
<1> HIDE DEF e
<1>5. e.ch # NoChan => d \in Cqe /\ d.res = -1 /\ ~d.more
  <2>1. <<>> \in Seq(Unit) /\ -1 \in Int
    BY SMTT(30)
  <2>2. e.ch # NoChan => e.op \in {"recv", "write"}
    <3>1. Formed(e)
      BY <1>4 DEF Inv, Ring
    <3> QED
      BY <1>4, <3>1 DEF Formed, Control, Sqe
  <2> QED
    BY <1>4, <2>1, <2>2 DEF Sqe, Cqe, CqeOf
<1> HIDE DEF d
<1>6. CASE e.ch # NoChan /\ cq' = Append(cq, d) /\ ops' = ops
  <2>1. Sources(cq', ops')
    BY <1>3, <1>5, <1>6, SourcesPost DEF BufInv
  <2>2. \A x \in Range(cq') : Unitary(x)
    BY <1>3, <1>5, <1>6, AppendSet, SMTT(30) DEF BufInv, Unitary
  <2>3. Laden(cq') = Laden(cq)
    BY <1>3, <1>5, <1>6, LadenAppend, SMTT(30)
  <2> QED
    BY <1>2, <2>1, <2>2, <2>3, BufMoves
<1>7. ASSUME NEW o, ops' = Append(ops, o), cq' = cq
      PROVE  BufInv'
  <2>1. Range(ops) \subseteq Range(ops')
    BY <1>3, <1>7, SMTT(30) DEF Range
  <2>2. Sources(cq', ops')
    BY <1>7, <2>1, SourcesMore DEF BufInv
  <2>3. \A x \in Range(cq') : Unitary(x)
    BY <1>7 DEF BufInv
  <2> QED
    BY <1>2, <1>7, <2>2, <2>3, BufMoves
<1> QED
  BY <1>1, <1>6, <1>7

\* A connection arrives.
LEMMA KernelAcceptBuf ==
  ASSUME Inv, BufInv, Inv', NEW f \in Fd, NEW more \in MoreFlags, KernelAccept(f, more)
  PROVE  BufInv'
<1> DEFINE c == nconn + 1
<1>1. PICK i \in DOMAIN ops :
        /\ ops[i].op = "accept"
        /\ Post(i, [CqeOf(ops[i], f, more, <<>>) EXCEPT !.conn = c])
  BY DEF KernelAccept
<1> DEFINE e == [CqeOf(ops[i], f, more, <<>>) EXCEPT !.conn = c]
<1>2. e.op = ops[i].op /\ e.ch = ops[i].ch
  BY DEF CqeOf
<1>3. Post(i, e)
  BY <1>1
<1> HIDE DEF e
<1>4. chan' = chan /\ avail' = avail /\ KeepReuse
  BY DEF KernelAccept, user
<1> QED
  BY <1>1, <1>2, <1>3, <1>4, PostBuf DEF Unitary

\* The completions that carry an error or the end of the stream.
LEMMA KernelFailureBuf ==
  ASSUME Inv, BufInv, Inv', NEW c,
         \/ KernelAcceptError \/ KernelRecvEnd(c) \/ KernelRecvNoBufs(c)
         \/ KernelWriteFail(c)
  PROVE  BufInv'
<1>1. PICK i \in DOMAIN ops, n \in {-1, 0} : Post(i, CqeOf(ops[i], n, FALSE, <<>>))
  BY DEF KernelAcceptError, KernelRecvEnd, KernelRecvNoBufs, KernelWriteFail
<1> DEFINE e == CqeOf(ops[i], n, FALSE, <<>>)
<1>2. e.op = ops[i].op /\ e.ch = ops[i].ch /\ e.res = n
  BY DEF CqeOf
<1>3. Post(i, e)
  BY <1>1
<1> HIDE DEF e
<1>4. chan' = chan /\ avail' = avail /\ KeepReuse
  BY DEF KernelAcceptError, KernelRecvEnd, KernelRecvNoBufs, KernelWriteFail, user
<1>5. ~(e.res > 0)
  BY <1>2, SMTT(30)
<1> QED
  BY <1>2, <1>3, <1>4, <1>5, PostBuf DEF Unitary

\* Data arrives in a buffer of the ring.
LEMMA KernelRecvBuf ==
  ASSUME Inv, BufInv, Inv', NEW c \in Conn, NEW more \in MoreFlags, KernelRecv(c, more)
  PROVE  BufInv'
<1> DEFINE data == <<UnitOf(c, recvd[c] + 1)>>
<1>1. PICK i \in DOMAIN ops : ops[i].op = "recv" /\ Post(i, CqeOf(ops[i], 1, more, data))
  BY DEF KernelRecv
<1>2. Len(data) = 1
  OBVIOUS
<1> HIDE DEF data
<1> DEFINE e == CqeOf(ops[i], 1, more, data)
<1>3. e.op = ops[i].op /\ e.ch = ops[i].ch /\ e.res = 1 /\ e.data = data
  BY DEF CqeOf
<1>4. Post(i, e)
  BY <1>1
<1> HIDE DEF e
<1>5. chan' = chan /\ avail' = avail - 1 /\ KeepReuse
  BY DEF KernelRecv, user
<1>6. avail = avail' + 1
  BY <1>5, SMTT(30) DEF Inv, TypeOK
<1> QED
  BY <1>1, <1>2, <1>3, <1>4, <1>5, <1>6, PostBuf, SMTT(30) DEF Unitary

\* A write completes, wholly or in part.
LEMMA KernelWriteBuf ==
  ASSUME Inv, BufInv, Inv', NEW c \in Conn, NEW n \in 1..WriteCap, KernelWrite(c, n)
  PROVE  BufInv'
<1>1. PICK i \in DOMAIN ops : ops[i].op = "write" /\ Post(i, CqeOf(ops[i], n, FALSE, <<>>))
  BY DEF KernelWrite
<1> DEFINE e == CqeOf(ops[i], n, FALSE, <<>>)
<1>2. e.op = ops[i].op /\ e.ch = ops[i].ch
  BY DEF CqeOf
<1>3. Post(i, e)
  BY <1>1
<1> HIDE DEF e
<1>4. chan' = chan /\ avail' = avail /\ KeepReuse
  BY DEF KernelWrite, user
<1> QED
  BY <1>1, <1>2, <1>3, <1>4, PostBuf DEF Unitary

\* Steps of the loop between the handlers, and accepts that reach no channel.
LEMMA LoopBuf ==
  ASSUME Inv, BufInv,
         \/ RingSubmit \/ PeekBatch \/ BatchDone \/ ReadsDone
         \/ AcceptFailed \/ AcceptTerminates \/ AcceptDrop
  PROVE  BufInv'
<1>1. chan' = chan /\ avail' = avail /\ KeepReuse
  BY DEF RingSubmit, PeekBatch, BatchDone, ReadsDone, AcceptFailed, AcceptTerminates,
         AcceptDrop
<1>2. CASE RingSubmit \/ PeekBatch \/ BatchDone \/ ReadsDone
  <2>1. cq' = cq /\ ops' = ops
    BY <1>2 DEF RingSubmit, PeekBatch, BatchDone, ReadsDone, kernel
  <2> QED
    BY <1>1, <2>1, BufMoves DEF BufInv
<1>3. CASE AcceptFailed \/ AcceptTerminates \/ AcceptDrop
  <2>1. PICK e : cq # <<>> /\ NextCqe(e) /\ e.op = "accept"
    BY <1>3 DEF AcceptFailed, AcceptTerminates, AcceptDrop
  <2>2. e = Head(cq) /\ cq' = Tail(cq) /\ cq \in Seq(Cqe) /\ ops' = ops
    BY <2>1 DEF NextCqe, kernel, Inv, TypeOK
  <2>3. Sources(cq', ops')
    BY <2>1, <2>2, SourcesTail DEF BufInv
  <2>4. \A x \in Range(cq') : Unitary(x)
    BY <2>1, <2>2, TailSet DEF BufInv
  <2>5. Laden(cq') = Laden(cq)
    BY <2>1, <2>2, LadenTail
  <2> QED
    BY <1>1, <2>3, <2>4, <2>5, BufMoves
<1> QED
  BY <1>2, <1>3

\* The channel that a handler leaves behind.
LEMMA HandledChannel ==
  ASSUME Inv, RingInv, BufInv, Inv', RingInv', BatchInv', Roomy, ~reused, ~reused',
         phase' # "wait", kbatch' = kbatch, NEW h \in Chan,
         NEW a, NEW b, NEW k, NEW s, NEW z, NEW r, Handling(h, a, b, k, s, z, r),
         NEW n, Buffered(h, n, s, z, r)
  PROVE  /\ r.c.rd # "await" => r.c.read_buf = <<>>
         /\ ~Careless => /\ r.c.wr \in {"none", "done"} => r.c.send = <<>> /\ r.c.draft = <<>>
                         /\ r.c.wr = "done" => r.c.closed
         /\ ~(r.c.rd = "done" /\ Full(r.sq))
<1>1. /\ Serves(h, a, b, k, s, z, r) /\ chan'[h] = r.c /\ sq' = r.sq
      /\ s.c.rd = chan[h].rd /\ s.c.wr = chan[h].wr /\ s.c.closed = chan[h].closed
      /\ s.c.send = chan[h].send /\ s.c.draft = chan[h].draft
  BY DEF Handling, Commit, Inv, TypeOK
<1>2. r.c.rd # "await" \/ r.c.wr # "await" => ~Full(r.sq)
  <2>1. r.c.rd # "await" \/ r.c.wr # "await" => ~SqFull(r.sq)
    BY <1>1, RingRoomNext DEF NeverFull, SqFull
  <2> QED
    BY <2>1 DEF Full, Inv, TypeOK
<1>3. ~(r.c.rd = "done" /\ Full(r.sq))
  BY <1>2
<1>4. s.c.read_buf = chan[h].read_buf /\ (chan[h].rd # "await" => chan[h].read_buf = <<>>)
  BY DEF Buffered, BufInv, Emptied
<1>5. r.c.rd # "await" => r.c.read_buf = <<>>
  BY <1>1, <1>3, <1>4 DEF Serves
<1>6. ASSUME ~Careless
      PROVE  /\ r.c.wr \in {"none", "done"} => r.c.send = <<>> /\ r.c.draft = <<>>
             /\ r.c.wr = "done" => r.c.closed
  <2>1. /\ chan[h].wr \in {"none", "done"} => chan[h].send = <<>> /\ chan[h].draft = <<>>
        /\ chan[h].wr = "done" => chan[h].closed
    BY <1>6 DEF BufInv, Drained
  <2>2. /\ Ending(z, r) /\ z.c.send = s.c.send /\ z.c.draft = s.c.draft
        /\ z.c.wr = "run" \/ z = s
    BY <1>1 DEF Serves, Carries, Starts
  <2>3. chan[h].wr = "none" /\ z.c.wr # "run" => r.c.send = s.c.send /\ r.c.draft = s.c.draft
    BY DEF Buffered
  <2> QED
    BY <1>1, <1>2, <1>6, <2>1, <2>2, <2>3 DEF Ending
<1> QED
  BY <1>3, <1>5, <1>6

\* A handler keeps the invariant.
LEMMA HandledBuf ==
  ASSUME Inv, RingInv, BufInv, Inv', RingInv', BatchInv', phase' # "wait", kbatch' = kbatch,
         NEW h \in Chan, NEW n \in Nat, NEW r,
         Handled(h, n, r), Sources(cq', ops'), Laden(cq) = Laden(cq') + n,
         Laden(cq') \in Nat, n # 0 /\ ~reused => chan[h].rd = "await"
  PROVE  BufInv'
<1>1. /\ Commit(h, r) /\ Range(cq') \subseteq Range(cq) /\ chan' = [chan EXCEPT ![h] = r.c]
      /\ avail' = r.avail
  BY DEF Handled, Commit
<1>2. ~reused' => ~reused
  BY DEF Handled, KeepReuse
<1>3. r.c \in Channel /\ chan'[h] = r.c /\ \A g \in Chan : g # h => chan'[g] = chan[g]
  <2>1. chan \in [Chan -> Channel] /\ chan' \in [Chan -> Channel]
    BY DEF Inv, TypeOK
  <2> QED
    BY <1>1, <2>1
<1>4. /\ IsFiniteSet(Stored') /\ Cardinality(Stored) \in Nat
      /\ Cardinality(Stored') + Len(chan[h].read_buf)
           = Cardinality(Stored) + Len(r.c.read_buf)
  BY <1>1, <1>3, StoredChange DEF BufInv
<1>5. \A e \in Range(cq') : Unitary(e)
  BY <1>1 DEF BufInv
<1>6. ASSUME Roomy, ~reused'
      PROVE  Stocked' /\ Emptied' /\ (~Careless => Drained')
  <2>1. PICK a, b, k, s, z : Handling(h, a, b, k, s, z, r) /\ Buffered(h, n, s, z, r)
    BY <1>2, <1>6 DEF Handled
  <2>2. /\ r.c.rd # "await" => r.c.read_buf = <<>>
        /\ ~Careless => /\ r.c.wr \in {"none", "done"} => r.c.send = <<>> /\ r.c.draft = <<>>
                        /\ r.c.wr = "done" => r.c.closed
        /\ ~(r.c.rd = "done" /\ Full(r.sq))
    BY <1>2, <1>6, <2>1, HandledChannel
  <2>3. Emptied /\ Stocked /\ (~Careless => Drained)
    BY <1>2, <1>6 DEF BufInv
  <2>4. Emptied' /\ (~Careless => Drained')
    <3>1. Emptied'
      BY <1>3, <2>2, <2>3 DEF Emptied
    <3>2. ASSUME ~Careless, NEW g \in Chan
          PROVE  /\ chan'[g].wr \in {"none", "done"}
                      => chan'[g].send = <<>> /\ chan'[g].draft = <<>>
                 /\ chan'[g].wr = "done" => chan'[g].closed
      <4>1. CASE g = h
        BY <1>3, <2>2, <3>2, <4>1
      <4>2. CASE g # h
        BY <1>3, <2>3, <3>2, <4>2 DEF Drained
      <4> QED
        BY <4>1, <4>2
    <3> QED
      BY <3>1, <3>2 DEF Drained
  <2>5. r.avail + Len(r.c.read_buf) = avail + Len(chan[h].read_buf) + n
    BY <1>2, <1>6, <2>1, <2>2 DEF Buffered, Kept
  <2> DEFINE u == Cardinality(Stored)
             v == Cardinality(Stored')
             p == Len(chan[h].read_buf)
             q == Len(r.c.read_buf)
             m == Laden(cq)
             w == Laden(cq')
             x == avail
             y == avail'
  <2>6. /\ u \in Nat /\ v + p = u + q /\ m = w + n /\ w \in Nat /\ x + m + u = BufNum
        /\ y + q = x + p + n
    BY <1>1, <1>4, <2>3, <2>5 DEF Stocked
  <2>7. p \in Nat /\ q \in Nat /\ x \in Nat /\ y \in Nat /\ v \in Nat
    <3>1. v \in Nat
      BY <1>4, FS_CardinalityType
    <3>2. chan[h].read_buf \in Seq(Unit) /\ r.c.read_buf \in Seq(Unit)
      BY <1>3 DEF Inv, TypeOK, Channel
    <3>3. x \in Nat /\ y \in Nat
      BY DEF Inv, TypeOK
    <3>4. \A d \in Seq(Unit) : Len(d) \in Nat
      BY SMTT(30)
    <3> QED
      BY <3>1, <3>2, <3>3, <3>4
  <2>8. y + w + v = BufNum
    <3> HIDE DEF u, v, p, q, m, w, x, y
    <3> QED
      BY <2>6, <2>7, SMTT(30)
  <2> QED
    BY <2>4, <2>8 DEF Stocked
<1> QED
  BY <1>4, <1>5, <1>6 DEF BufInv, Roomy

\* The invariant holds in every behaviour.
LEMMA BufInit == Init => BufInv
<1> SUFFICES ASSUME Init PROVE BufInv
  OBVIOUS
<1>1. \A h \in Chan : chan[h] = NewChannel
  BY DEF Init
<1>2. cq = <<>> /\ avail = BufNum /\ Range(cq) = {} /\ DOMAIN cq = {}
  BY SMTT(30) DEF Init, Range
<1>3. Stored = {}
  <2>1. \A h \in Chan : Shelf(h, chan[h].read_buf) = {}
    BY <1>1, SMTT(30) DEF Shelf, NewChannel
  <2> QED
    BY <2>1 DEF Stored
<1>4. IsFiniteSet(Stored) /\ Cardinality(Stored) = 0
  BY <1>3, FS_EmptySet
<1>5. Laden(cq) = 0
  <2>1. {i \in DOMAIN cq : cq[i].op = "recv" /\ cq[i].res > 0} = {}
    BY <1>2
  <2> QED
    BY <2>1, FS_EmptySet DEF Laden
<1>6. Stocked
  BY <1>2, <1>4, <1>5, SizesAssumption, SMTT(30) DEF Stocked
<1>7. Emptied /\ Drained
  BY <1>1, SMTT(30) DEF Emptied, Drained, NewChannel
<1>8. Sources(cq, ops)
  BY <1>2 DEF Sources
<1> QED
  BY <1>2, <1>4, <1>6, <1>7, <1>8 DEF BufInv

\* Every step keeps it.
LEMMA BufNext == Inv /\ RingInv /\ BatchInv /\ BufInv /\ [Next]_vars => BufInv'
<1> SUFFICES ASSUME Inv, RingInv, BatchInv, BufInv, [Next]_vars PROVE BufInv'
  OBVIOUS
<1>0. Inv' /\ RingInv' /\ BatchInv'
  BY NextInv, RingNext, BatchNext
<1>1. CASE \/ RingSubmit \/ PeekBatch \/ BatchDone \/ ReadsDone
           \/ AcceptFailed \/ AcceptTerminates \/ AcceptDrop
  BY <1>1, LoopBuf
<1>2. ASSUME cq # <<>>, NEW e, NextCqe(e), ops' = ops
      PROVE  /\ Sources(cq', ops') /\ Carried(e) \in Nat
             /\ Laden(cq) = Laden(cq') + Carried(e) /\ Laden(cq') \in Nat
             /\ Carried(e) # 0 => e.op = "recv" /\ e = Head(cq)
  <2>1. e = Head(cq) /\ cq' = Tail(cq) /\ cq \in Seq(Cqe)
    BY <1>2 DEF NextCqe, Inv, TypeOK
  <2>2. Sources(cq', ops')
    BY <1>2, <2>1, SourcesTail DEF BufInv
  <2>3. e \in Range(cq) /\ cq' \in Seq(Cqe)
    BY <1>2, <2>1, TailSet
  <2>4. Unitary(e)
    BY <2>3 DEF BufInv
  <2>5. Laden(cq') \in Nat
    BY <2>3, LadenOccurs
  <2>6. Laden(cq) = IF e.op = "recv" /\ e.res > 0 THEN Laden(cq') + 1 ELSE Laden(cq')
    BY <1>2, <2>1, LadenTail
  <2>7. Carried(e) = IF e.op = "recv" /\ e.res > 0 THEN 1 ELSE 0
    BY <2>4 DEF Carried, Unitary
  <2> QED
    BY <2>1, <2>2, <2>5, <2>6, <2>7, SMTT(30)
<1>3. CASE AcceptAssign
  <2>0. kbatch' = kbatch /\ phase' # "wait"
    BY <1>3 DEF AcceptAssign, NextCqe, kernel
  <2>1. PICK e, r : \E h \in Chan :
          /\ cq # <<>> /\ NextCqe(e) /\ e.op = "accept" /\ ops' = ops /\ Handled(h, 0, r)
    BY <1>3, AcceptAssignHandled
  <2>2. Carried(e) = 0
    BY <2>1 DEF Carried
  <2>3. /\ Sources(cq', ops') /\ Laden(cq) = Laden(cq') + 0 /\ Laden(cq') \in Nat
    BY <1>2, <2>1, <2>2
  <2> QED
    BY <1>0, <2>0, <2>1, <2>3, HandledBuf
<1>4. CASE CompleteChannel
  <2>0. kbatch' = kbatch /\ phase' # "wait"
    BY <1>4 DEF CompleteChannel, NextCqe, kernel
  <2>1. PICK e, r : /\ cq # <<>> /\ NextCqe(e) /\ e.ch \in Chan /\ ops' = ops
                    /\ Handled(e.ch, Carried(e), r)
    BY <1>4, CompleteChannelHandled
  <2>2. /\ Sources(cq', ops') /\ Carried(e) \in Nat
        /\ Laden(cq) = Laden(cq') + Carried(e) /\ Laden(cq') \in Nat
        /\ Carried(e) # 0 => e.op = "recv" /\ e = Head(cq)
    BY <1>2, <2>1
  <2>3. Carried(e) # 0 /\ ~reused => chan[e.ch].rd = "await"
    BY <2>1, <2>2, DataIsAwaited DEF BufInv
  <2> QED
    BY <1>0, <2>0, <2>1, <2>2, <2>3, HandledBuf
<1>5. CASE BatchRead
  <2>0. kbatch' = kbatch /\ phase' # "wait"
    BY <1>5 DEF BatchRead, kernel
  <2>1. PICK h \in Chan : \E r : cq' = cq /\ ops' = ops /\ Handled(h, 0, r)
    BY <1>5, BatchReadHandled
  <2>2. Laden(cq) \in Nat
    BY LadenOccurs DEF Inv, TypeOK
  <2>3. Sources(cq', ops') /\ Laden(cq) = Laden(cq') + 0 /\ Laden(cq') \in Nat
    BY <2>1, <2>2, SMTT(30) DEF BufInv
  <2> QED
    BY <1>0, <2>0, <2>1, <2>3, HandledBuf
<1>6. CASE Kernel
  <2>1. CASE KernelTake
    BY <2>1, KernelTakeBuf
  <2>2. ASSUME NEW f \in Fd, NEW more \in MoreFlags, KernelAccept(f, more)
        PROVE  BufInv'
    BY <1>0, <2>2, KernelAcceptBuf
  <2>3. CASE KernelAcceptError
    BY <1>0, <2>3, KernelFailureBuf
  <2>4. ASSUME NEW c \in Conn, KernelRecvEnd(c) \/ KernelRecvNoBufs(c) \/ KernelWriteFail(c)
        PROVE  BufInv'
    BY <1>0, <2>4, KernelFailureBuf
  <2>5. ASSUME NEW c \in Conn, NEW more \in MoreFlags, KernelRecv(c, more)
        PROVE  BufInv'
    BY <1>0, <2>5, KernelRecvBuf
  <2>6. ASSUME NEW c \in Conn, NEW n \in 1..WriteCap, KernelWrite(c, n)
        PROVE  BufInv'
    BY <1>0, <2>6, KernelWriteBuf
  <2> QED
    BY <1>6, <2>1, <2>2, <2>3, <2>4, <2>5, <2>6 DEF Kernel
<1>7. CASE UNCHANGED vars
  <2>1. UNCHANGED <<chan, cq, ops, avail, reused>>
    BY <1>7 DEF vars, user, kernel
  <2>2. Stored' = Stored /\ Laden(cq') = Laden(cq)
    BY <2>1 DEF Stored
  <2>3. (Stocked => Stocked') /\ (Emptied => Emptied') /\ (Drained => Drained')
    BY <2>1, <2>2 DEF Stocked, Emptied, Drained
  <2> QED
    BY <2>1, <2>2, <2>3 DEF BufInv, Roomy
<1> QED
  BY <1>1, <1>3, <1>4, <1>5, <1>6, <1>7 DEF Next, Worker
-----------------------------------------------------------------------------
\* No provided buffer is lost: with a queue as deep as QueueIsDeepEnough says a
\* worker needs (with SQPOLL almost twice as deep), each is with the kernel, in
\* a completion or in a read buffer (BufRing::release, ReadBufStream::consume).
THEOREM NoBufferIsLost == Spec => [](Roomy => BuffersConserved)
<1>1. BufInv => (Roomy => BuffersConserved)
  BY DEF BufInv, Stocked, BuffersConserved, Laden, Stored, Shelf
<1> QED
  BY <1>1, InitInv, NextInv, RingInit, RingNext, BatchInit, BatchNext, BufInit,
     BufNext, PTL DEF Spec

\* A channel goes back to the pool with nothing to send, nothing unread and
\* no operation of its own, if besides nothing is submitted after close()
\* (TcpChannel::on_drained, tcp_read_loop, tcp_write_loop).
THEOREM ReleasedChannelIsClean == Spec => [](Roomy /\ ~Careless => PooledIsClean)
<1>1. Inv /\ RingInv /\ BufInv => (Roomy /\ ~Careless => PooledIsClean)
  <2>1. SUFFICES ASSUME Inv, RingInv, BufInv, Roomy, ~Careless, ~reused,
                        NEW h \in Range(free_queue)
                 PROVE  /\ chan[h].send = <<>> /\ chan[h].draft = <<>>
                        /\ chan[h].read_buf = <<>>
                        /\ chan[h].in_flight = 0
                        /\ chan[h].rd \in {"none", "done"} /\ chan[h].wr \in {"none", "done"}
    BY DEF PooledIsClean
  <2>2. h \in Chan /\ chan[h] \in Channel
    BY <2>1, SMTT(30) DEF Inv, TypeOK, Range
  <2>3. chan[h].rd # "await" /\ chan[h].wr # "await"
    <3>1. \A op : Held(sq, h, op) = 0 /\ Held(ops, h, op) = 0 /\ Ended(cq, h, op) = 0
      BY <2>1, <2>2, PooledIsFree DEF InPool
    <3>2. Unfinished(h, "recv") = 0 /\ Unfinished(h, "write") = 0
      BY <3>1, SMTT(30) DEF Unfinished
    <3> QED
      BY <2>1, <2>2, <3>2, SMTT(30) DEF RingInv, Tally, Waits
  <2>4. chan[h].in_flight = 0 /\ (chan[h].closed \/ chan[h].wr = "none")
    BY <2>1, <2>2 DEF RingInv, Idle, InPool
  <2>5. chan[h].wr # "run" /\ Alert(chan[h])
    BY <2>1, <2>2 DEF RingInv, Standing
  <2>6. chan[h].wr = "notify" => ~chan[h].pending
    BY <2>1, <2>2 DEF Inv, NoLostWakeup
  <2>7. chan[h].wr \in {"none", "done"} /\ chan[h].rd \in {"none", "done"}
    BY <2>2, <2>3, <2>4, <2>5, <2>6, SMTT(30) DEF Alert, Channel, ReadState, WriteState
  <2>8. chan[h].send = <<>> /\ chan[h].draft = <<>> /\ chan[h].read_buf = <<>>
    BY <2>1, <2>2, <2>3, <2>7 DEF BufInv, Emptied, Drained
  <2> QED
    BY <2>4, <2>7, <2>8
<1> QED
  BY <1>1, InitInv, NextInv, RingInit, RingNext, BatchInit, BatchNext, BufInit,
     BufNext, PTL DEF Spec
=============================================================================
