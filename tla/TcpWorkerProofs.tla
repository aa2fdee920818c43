--------------------------- MODULE TcpWorkerProofs ---------------------------
(***************************************************************************)
(* Proofs about TcpWorker, for every size of its pools and queues: what    *)
(* the handlers do to a channel's frame, the inductive invariant, one      *)
(* lemma per action, and the theorems.                                     *)
(***************************************************************************)
EXTENDS TcpWorker, FiniteSets, FiniteSetTheorems, TLAPS

USE ZenonT(30)

(***************************************************************************)
(* How the elements of a sequence, their repetition and their number       *)
(* change when one is appended or removed.                                 *)
(***************************************************************************)
\* The places of q that hold an element of T, and how many there are.
Places(q, T) == {i \in DOMAIN q : q[i] \in T}
Occurs(q, T) == Cardinality(Places(q, T))

\* r is q without its element i.
Without(q, i, r) ==
  /\ Len(r) = Len(q) - 1
  /\ \A j \in 1..Len(r) : r[j] = q[IF j < i THEN j ELSE j + 1]

\* Appending adds one element, and no repetition if it is new.
LEMMA AppendSet ==
  ASSUME NEW S, NEW q \in Seq(S), NEW x \in S
  PROVE  /\ Range(Append(q, x)) = Range(q) \cup {x}
         /\ IsInjective(q) /\ x \notin Range(q) => IsInjective(Append(q, x))
<1> DEFINE r == Append(q, x)
<1>1. /\ Len(q) \in Nat /\ DOMAIN q = 1..Len(q) /\ DOMAIN r = 1..(Len(q) + 1)
      /\ r[Len(q) + 1] = x /\ \A i \in 1..Len(q) : r[i] = q[i]
  BY SMTT(30)
<1> HIDE DEF r
<1>2. Range(r) = Range(q) \cup {x}
  BY <1>1, SMTT(30) DEF Range
<1>3. ASSUME IsInjective(q), x \notin Range(q)
      PROVE  IsInjective(r)
  BY <1>1, <1>3, SMTT(30) DEF Range, IsInjective
<1> QED
  BY <1>2, <1>3 DEF r

\* Removing the head of a sequence without repetition removes its element.
LEMMA TailSet ==
  ASSUME NEW S, NEW q \in Seq(S), q # <<>>
  PROVE  /\ Head(q) \in S /\ Tail(q) \in Seq(S)
         /\ Range(q) = {Head(q)} \cup Range(Tail(q))
         /\ IsInjective(q) => IsInjective(Tail(q)) /\ Head(q) \notin Range(Tail(q))
<1> DEFINE r == Tail(q)
<1>1. /\ Len(q) \in Nat \ {0} /\ DOMAIN q = 1..Len(q) /\ DOMAIN r = 1..(Len(q) - 1)
      /\ Head(q) = q[1] /\ \A i \in 1..(Len(q) - 1) : r[i] = q[i + 1]
      /\ Head(q) \in S /\ r \in Seq(S)
  BY SMTT(30)
<1> HIDE DEF r
<1>2. Range(q) = {Head(q)} \cup Range(r)
  <2>1. ASSUME NEW i \in DOMAIN q
        PROVE  q[i] \in {Head(q)} \cup Range(r)
    <3>1. CASE i = 1
      BY <1>1, <3>1
    <3>2. CASE i # 1
      <4>1. i - 1 \in 1..(Len(q) - 1) /\ r[i - 1] = q[i]
        BY <1>1, <2>1, <3>2, SMTT(30)
      <4> QED
        BY <1>1, <4>1 DEF Range
    <3> QED
      BY <3>1, <3>2
  <2>2. ASSUME NEW i \in DOMAIN r
        PROVE  r[i] \in Range(q)
    BY <1>1, SMTT(30) DEF Range
  <2>3. Head(q) \in Range(q)
    BY <1>1, SMTT(30) DEF Range
  <2> QED
    BY <2>1, <2>2, <2>3 DEF Range
<1>3. ASSUME IsInjective(q)
      PROVE  IsInjective(r) /\ Head(q) \notin Range(r)
  <2>1. ASSUME NEW i \in DOMAIN r, NEW j \in DOMAIN r, r[i] = r[j]
        PROVE  i = j
    <3>1. i + 1 \in DOMAIN q /\ j + 1 \in DOMAIN q /\ q[i + 1] = q[j + 1]
      BY <1>1, <2>1, SMTT(30)
    <3>2. i + 1 = j + 1
      BY <1>3, <3>1 DEF IsInjective
    <3> QED
      BY <1>1, <3>2, SMTT(30)
  <2>2. ASSUME NEW i \in DOMAIN r
        PROVE  r[i] # Head(q)
    <3>1. i + 1 \in DOMAIN q /\ 1 \in DOMAIN q /\ r[i] = q[i + 1] /\ i + 1 # 1
      BY <1>1, SMTT(30)
    <3> QED
      BY <1>1, <1>3, <3>1 DEF IsInjective
  <2> QED
    BY <2>1, <2>2 DEF Range, IsInjective
<1> QED
  BY <1>1, <1>2, <1>3 DEF r

\* Removing an operation from the kernel's list adds none.
LEMMA CutSet ==
  ASSUME NEW S, NEW q \in Seq(S), NEW i \in DOMAIN q
  PROVE  /\ SubSeq(q, 1, i - 1) \o SubSeq(q, i + 1, Len(q)) \in Seq(S)
         /\ Range(SubSeq(q, 1, i - 1) \o SubSeq(q, i + 1, Len(q))) \subseteq Range(q)
<1> DEFINE a == SubSeq(q, 1, i - 1)
           b == SubSeq(q, i + 1, Len(q))
           r == a \o b
<1>1. Len(q) \in Nat /\ DOMAIN q = 1..Len(q) /\ i \in 1..Len(q)
  BY SMTT(30)
<1>2. /\ a \in Seq(S) /\ Len(a) = i - 1 /\ \A j \in 1..(i - 1) : a[j] = q[j]
  BY <1>1, SMTT(30)
<1>3. /\ b \in Seq(S) /\ Len(b) = Len(q) - i /\ \A j \in 1..(Len(q) - i) : b[j] = q[i + j]
  BY <1>1, SMTT(30)
<1>4. r = a \o b
  OBVIOUS
<1> HIDE DEF a, b, r
<1>5. r \in Seq(S) /\ Len(r) = Len(a) + Len(b) /\ DOMAIN r = 1..(Len(a) + Len(b))
  BY <1>2, <1>3, <1>4, SMTT(30)
<1>6. ASSUME NEW j \in DOMAIN r
      PROVE  r[j] \in Range(q)
  <2>1. CASE j <= Len(a)
    <3>1. r[j] = a[j]
      BY <1>2, <1>3, <1>4, <1>5, <2>1, SMTT(30)
    <3>2. r[j] = q[j] /\ j \in DOMAIN q
      BY <1>1, <1>2, <1>5, <2>1, <3>1, SMTT(30)
    <3> QED
      BY <3>2 DEF Range
  <2>2. CASE j > Len(a)
    <3> DEFINE k == j - Len(a)
    <3>1. /\ j \in 1..(Len(a) + Len(b)) /\ j > Len(a)
          /\ Len(a) \in Nat /\ Len(b) \in Nat
      BY <1>2, <1>3, <1>5, <2>2, SMTT(30)
    <3>2. (a \o b)[j] = b[j - Len(a)]
      BY <1>2, <1>3, <3>1, SMTT(30)
    <3>3. k \in 1..Len(b) /\ r[j] = b[k]
      BY <1>4, <3>1, <3>2, SMTT(30)
    <3> HIDE DEF k
    <3>4. k \in 1..(Len(q) - i) /\ k \in Int
      BY <1>1, <1>3, <3>3, SMTT(30)
    <3>5. r[j] = q[i + k]
      BY <1>3, <3>3, <3>4
    <3>6. i + k \in DOMAIN q
      BY <1>1, <3>4, SMTT(30)
    <3> QED
      BY <3>5, <3>6 DEF Range
  <2> QED
    BY <1>1, <1>2, <1>5, <2>1, <2>2, SMTT(30)
<1>7. r \in Seq(S) /\ Range(r) \subseteq Range(q)
  BY <1>5, <1>6 DEF Range
<1> QED
  BY <1>7 DEF a, b, r
-----------------------------------------------------------------------------
\* A place of a sequence is one of finitely many.
LEMMA OccursType ==
  ASSUME NEW S, NEW q \in Seq(S), NEW T
  PROVE  /\ IsFiniteSet(Places(q, T)) /\ Occurs(q, T) \in Nat
         /\ Occurs(q, T) <= Len(q)
         /\ Occurs(q, T) = 0 <=> \A x \in Range(q) : x \notin T
<1> DEFINE P == Places(q, T)
           n == Len(q)
<1>1. n \in Nat /\ DOMAIN q = 1..n
  BY SMTT(30)
<1> HIDE DEF n
<1>2. IsFiniteSet(1..n) /\ Cardinality(1..n) = n
  BY <1>1, FS_Interval, SMTT(30)
<1>3. P \in SUBSET (1..n)
  BY <1>1 DEF Places
<1>4. Occurs(q, T) = Cardinality(P)
  BY DEF Occurs
<1>5. P = {} <=> \A x \in Range(q) : x \notin T
  BY DEF Range, Places
<1> HIDE DEF P
<1>6. IsFiniteSet(P) /\ Cardinality(P) <= n
  BY <1>2, <1>3, FS_Subset
<1>7. Cardinality(P) \in Nat /\ (Cardinality(P) = 0 <=> P = {})
  BY <1>6, FS_CardinalityType, FS_EmptySet
<1> QED
  BY <1>4, <1>5, <1>6, <1>7 DEF P, n

\* Appending an element counts it.
LEMMA OccursAppend ==
  ASSUME NEW S, NEW q \in Seq(S), NEW x \in S, NEW T
  PROVE  Occurs(Append(q, x), T) = IF x \in T THEN Occurs(q, T) + 1 ELSE Occurs(q, T)
<1> DEFINE r == Append(q, x)
           n == Len(q)
           P == Places(q, T)
           R == Places(r, T)
<1>1. /\ n \in Nat /\ DOMAIN q = 1..n /\ DOMAIN r = 1..(n + 1)
      /\ r[n + 1] = x /\ \A i \in 1..n : r[i] = q[i]
  BY SMTT(30)
<1> HIDE DEF r, n
<1>2. IF x \in T THEN R = P \cup {n + 1} /\ n + 1 \notin P ELSE R = P
  BY <1>1, SMTT(30) DEF Places
<1>3. IsFiniteSet(P)
  BY OccursType
<1>4. Occurs(q, T) = Cardinality(P) /\ Occurs(r, T) = Cardinality(R)
  BY DEF Occurs
<1> HIDE DEF P, R
<1>5. IF x \in T THEN Cardinality(R) = Cardinality(P) + 1 ELSE R = P
  BY <1>2, <1>3, FS_AddElement
<1> QED
  BY <1>4, <1>5 DEF r

\* Removing element i, and moving the ones behind it up, uncounts it.
LEMMA OccursRemove ==
  ASSUME NEW S, NEW q \in Seq(S), NEW R, NEW r \in Seq(R), NEW i \in 1..Len(q), NEW T,
         Without(q, i, r)
  PROVE  Occurs(q, T) = IF q[i] \in T THEN Occurs(r, T) + 1 ELSE Occurs(r, T)
<1> DEFINE n == Len(q)
           P == Places(q, T)
           Q == Places(r, T)
           f == [j \in Q |-> IF j < i THEN j ELSE j + 1]
<1>1. n \in Nat /\ n >= 1 /\ DOMAIN q = 1..n /\ DOMAIN r = 1..(n - 1) /\ i \in 1..n
  BY SMTT(30) DEF Without
<1>2. \A j \in 1..(n - 1) : r[j] = q[IF j < i THEN j ELSE j + 1]
  BY <1>1 DEF Without
<1> HIDE DEF n
<1>3. f \in Bijection(Q, P \ {i})
  <2>1. ASSUME NEW j \in Q
        PROVE  f[j] \in P \ {i}
    BY <1>1, <1>2, SMTT(30) DEF Places
  <2>2. ASSUME NEW j \in Q, NEW k \in Q, f[j] = f[k]
        PROVE  j = k
    BY <1>1, <2>2, SMTT(30) DEF Places
  <2>3. ASSUME NEW k \in P \ {i}
        PROVE  \E j \in Q : f[j] = k
    <3>1. CASE k < i
      <4>1. k \in Q /\ f[k] = k
        BY <1>1, <1>2, <3>1, SMTT(30) DEF Places
      <4> QED
        BY <4>1
    <3>2. CASE k > i
      <4>1. k - 1 \in Q /\ f[k - 1] = k
        BY <1>1, <1>2, <3>2, SMTT(30) DEF Places
      <4> QED
        BY <4>1
    <3>3. k \in 1..n /\ k # i
      BY <1>1 DEF Places
    <3>4. k < i \/ k > i
      BY <1>1, <3>3, SMTT(30)
    <3> QED
      BY <3>1, <3>2, <3>4
  <2> HIDE DEF f, P, Q
  <2>4. f \in [Q -> P \ {i}]
    BY <2>1 DEF f
  <2> QED
    BY <2>2, <2>3, <2>4 DEF Bijection, Injection, Surjection, IsInjective, Range
<1>4. IsFiniteSet(P) /\ IsFiniteSet(Q)
  BY OccursType
<1>5. Occurs(q, T) = Cardinality(P) /\ Occurs(r, T) = Cardinality(Q)
  BY DEF Occurs
<1>6. i \in P <=> q[i] \in T
  BY <1>1 DEF Places
<1> HIDE DEF P, Q, f
<1>7. Cardinality(P \ {i}) = Cardinality(Q)
  <2>1. ExistsBijection(Q, P \ {i})
    BY <1>3 DEF ExistsBijection
  <2> QED
    BY <1>4, <2>1, FS_Bijection
<1>8. Cardinality(P \ {i}) = IF i \in P THEN Cardinality(P) - 1 ELSE Cardinality(P)
  BY <1>4, FS_RemoveElement
<1>9. Cardinality(P) \in Nat
  BY <1>4, FS_CardinalityType
<1> QED
  BY <1>5, <1>6, <1>7, <1>8, <1>9, SMTT(30)

\* The head of a queue leaves it.
LEMMA OccursTail ==
  ASSUME NEW S, NEW q \in Seq(S), q # <<>>, NEW T
  PROVE  Occurs(q, T) = IF Head(q) \in T THEN Occurs(Tail(q), T) + 1
                                         ELSE Occurs(Tail(q), T)
<1> DEFINE r == Tail(q)
<1>1. /\ r \in Seq(S) /\ Len(r) = Len(q) - 1 /\ 1 \in 1..Len(q) /\ Head(q) = q[1]
      /\ \A j \in 1..Len(r) : r[j] = q[j + 1]
  BY SMTT(30)
<1> HIDE DEF r
<1>2. Without(q, 1, r)
  BY <1>1, SMTT(30) DEF Without
<1>3. Occurs(q, T) = IF q[1] \in T THEN Occurs(r, T) + 1 ELSE Occurs(r, T)
  BY <1>1, <1>2, OccursRemove, SMTT(30)
<1> QED
  BY <1>1, <1>3 DEF r

\* An element leaves the middle of a list.
LEMMA OccursCut ==
  ASSUME NEW S, NEW q \in Seq(S), NEW i \in DOMAIN q, NEW T
  PROVE  Occurs(q, T) =
           IF q[i] \in T
           THEN Occurs(SubSeq(q, 1, i - 1) \o SubSeq(q, i + 1, Len(q)), T) + 1
           ELSE Occurs(SubSeq(q, 1, i - 1) \o SubSeq(q, i + 1, Len(q)), T)
<1> DEFINE a == SubSeq(q, 1, i - 1)
           b == SubSeq(q, i + 1, Len(q))
           r == a \o b
<1>1. Len(q) \in Nat /\ i \in 1..Len(q) /\ i \in Int
  BY SMTT(30)
<1>2. /\ a \in Seq(S) /\ Len(a) = i - 1 /\ \A j \in 1..(i - 1) : a[j] = q[j]
  BY <1>1, SMTT(30)
<1>3. /\ b \in Seq(S) /\ Len(b) = Len(q) - i /\ \A j \in 1..(Len(q) - i) : b[j] = q[i + j]
  BY <1>1, SMTT(30)
<1>4. r = a \o b
  OBVIOUS
<1> HIDE DEF a, b, r
<1>5. r \in Seq(S) /\ Len(r) = Len(q) - 1
  BY <1>1, <1>2, <1>3, <1>4, SMTT(30)
<1>6. ASSUME NEW j \in 1..Len(r)
      PROVE  r[j] = q[IF j < i THEN j ELSE j + 1]
  <2>1. CASE j < i
    <3>1. j \in 1..(i - 1) /\ r[j] = a[j]
      BY <1>1, <1>2, <1>3, <1>4, <1>5, <2>1, SMTT(30)
    <3> QED
      BY <1>2, <2>1, <3>1
  <2>2. CASE ~(j < i)
    <3> DEFINE k == j - (i - 1)
    <3>1. k \in 1..(Len(q) - i) /\ k \in Int /\ i + k = j + 1 /\ j \in Int
      BY <1>1, <1>5, <2>2, SMTT(30)
    <3>2. (a \o b)[j] = b[j - Len(a)]
      BY <1>1, <1>2, <1>3, <1>5, <2>2, SMTT(30)
    <3>3. r[j] = b[k]
      BY <1>2, <1>4, <3>2
    <3> HIDE DEF k
    <3>4. b[k] = q[i + k]
      BY <1>3, <3>1
    <3> QED
      BY <2>2, <3>1, <3>3, <3>4
  <2> QED
    BY <2>1, <2>2
<1>7. Without(q, i, r)
  BY <1>5, <1>6 DEF Without
<1>8. Occurs(q, T) = IF q[i] \in T THEN Occurs(r, T) + 1 ELSE Occurs(r, T)
  BY <1>1, <1>5, <1>7, OccursRemove, SMTT(30)
<1> QED
  BY <1>8 DEF a, b, r

-----------------------------------------------------------------------------

(***************************************************************************)
(* What the operators of TcpWorker do to a channel's frame.  The handlers  *)
(* are compositions of these operators, so the proof is too: Within        *)
(* relates a frame to the frame after any part of a handler, it is         *)
(* reflexive and transitive, and each operator is shown to stay within it. *)
(***************************************************************************)
\* A parked writer has nothing to send and no unseen notification.
Parked(s) == s.c.wr = "notify" => s.c.send = <<>> /\ ~s.c.pending

\* A channel whose closed_ is set has no fd.
Shut(s) == s.c.closed => s.c.fd = NoFd

\* The operations that are no channel's.
Control == {"accept", "wakeup"}

\* Queue r continues queue q with SQEs of channel h for connection c.
Continues(h, c, q, r) ==
  /\ Len(q) <= Len(r)
  /\ \A i \in 1..Len(q) : r[i] = q[i]
  /\ \A i \in 1..Len(r) : i > Len(q) => r[i].ch = h /\ r[i].conn = c /\ r[i].op \notin Control

\* What any part of a handler of channel h, but InFlightDec and the marking
\* of a pending read, does to a frame.
Within(h, s, r) ==
  /\ s \in Frame /\ r \in Frame
  /\ r.c.conn = s.c.conn
  /\ r.c.fd \in {s.c.fd, NoFd}
  /\ r.c.marked = s.c.marked /\ r.reads = s.reads
  /\ r.free = s.free
  /\ Continues(h, s.c.conn, s.sq, r.sq)

\* What a whole handler of channel h does: it may also give the channel, then
\* without fd, back to the pool, and enter it once in pending_reads_.
Handles(h, s, r) ==
  /\ s \in Frame /\ r \in Frame
  /\ r.c.conn = s.c.conn
  /\ r.c.fd \in {s.c.fd, NoFd}
  /\ \/ r.c.marked = s.c.marked /\ r.reads = s.reads
     \/ ~s.c.marked /\ r.c.marked /\ r.reads = Append(s.reads, h)
  /\ \/ r.free = s.free
     \/ r.free = Append(s.free, h) /\ r.c.fd = NoFd
  /\ Continues(h, s.c.conn, s.sq, r.sq)

-----------------------------------------------------------------------------
\* A handler that prepares nothing leaves the submission queue as it is.
LEMMA ContinuesSelf ==
  ASSUME NEW h, NEW c, NEW q \in Seq(Sqe)
  PROVE  Continues(h, c, q, q)
<1>1. Len(q) \in Nat
  BY SMTT(30)
<1>2. \A i \in 1..Len(q) : ~(i > Len(q))
  BY <1>1, SMTT(30)
<1> QED
  BY <1>1, <1>2, SMTT(30) DEF Continues

\* SQEs prepared by two parts of a handler are all of the same channel.
LEMMA ContinuesTrans ==
  ASSUME NEW h, NEW c, NEW q \in Seq(Sqe), NEW r \in Seq(Sqe), NEW t \in Seq(Sqe),
         Continues(h, c, q, r), Continues(h, c, r, t)
  PROVE  Continues(h, c, q, t)
<1>1. Len(q) \in Nat /\ Len(r) \in Nat /\ Len(t) \in Nat
  BY SMTT(30)
<1>2. Len(q) <= Len(t) /\ \A i \in 1..Len(q) : t[i] = q[i]
  BY <1>1, SMTT(30) DEF Continues
<1>3. ASSUME NEW i \in 1..Len(t), i > Len(q)
      PROVE  t[i].ch = h /\ t[i].conn = c /\ t[i].op \notin Control
  <2>1. CASE i > Len(r)
    BY <2>1 DEF Continues
  <2>2. CASE i <= Len(r)
    <3>1. i \in 1..Len(r) /\ t[i] = r[i]
      BY <1>1, <2>2, SMTT(30) DEF Continues
    <3> QED
      BY <1>3, <3>1 DEF Continues
  <2> QED
    BY <1>1, <2>1, <2>2, SMTT(30)
<1> QED
  BY <1>2, <1>3 DEF Continues

\* Parts of a handler compose.
LEMMA WithinTrans ==
  ASSUME NEW h, NEW s, NEW r, NEW t, Within(h, s, r), Within(h, r, t)
  PROVE  Within(h, s, t)
<1>1. s.sq \in Seq(Sqe) /\ r.sq \in Seq(Sqe) /\ t.sq \in Seq(Sqe)
  BY DEF Within, Frame
<1>2. Continues(h, s.c.conn, s.sq, t.sq)
  BY <1>1, ContinuesTrans DEF Within
<1> QED
  BY <1>2 DEF Within

\* get_sqe, prep_* and set_data add one SQE with the token of the channel.
LEMMA PrepWithin ==
  ASSUME NEW h \in Chan, NEW op \in {"recv", "write"}, NEW data \in Seq(Unit),
         NEW s \in Frame
  PROVE  /\ Within(h, s, Prep(h, op, data, s))
         /\ Prep(h, op, data, s).c = s.c
<1> DEFINE e == [op |-> op, ch |-> h, conn |-> s.c.conn, fd |-> s.c.fd, data |-> data]
           r == Prep(h, op, data, s)
<1>1. e \in Sqe /\ e.ch = h /\ e.conn = s.c.conn /\ e.op \notin Control
  BY DEF Frame, Channel, Sqe, Control
<1>2. s.sq \in Seq(Sqe) /\ Append(s.sq, e) \in Seq(Sqe)
  BY <1>1, SMTT(30) DEF Frame
<1>3. r = [s EXCEPT !.sq = Append(s.sq, e)]
  BY DEF Prep
<1> HIDE DEF e, r
<1>4. /\ r \in Frame /\ r.c = s.c /\ r.reads = s.reads /\ r.free = s.free
      /\ r.sq = Append(s.sq, e)
  BY <1>2, <1>3 DEF Frame
<1>5. Continues(h, s.c.conn, s.sq, Append(s.sq, e))
  BY <1>1, <1>2, SMTT(30) DEF Continues
<1>6. Within(h, s, r) /\ r.c = s.c
  BY <1>4, <1>5 DEF Within
<1> QED
  BY <1>6 DEF r

\* A change of the channel alone.
LEMMA ChannelWithin ==
  ASSUME NEW h \in Chan, NEW s \in Frame, NEW x \in Channel,
         x.conn = s.c.conn, x.fd \in {s.c.fd, NoFd}, x.marked = s.c.marked
  PROVE  /\ Within(h, s, [s EXCEPT !.c = x])
         /\ [s EXCEPT !.c = x].c = x
         /\ [s EXCEPT !.c = x].fdtab = s.fdtab
<1> DEFINE r == [s EXCEPT !.c = x]
<1>1. /\ r \in Frame /\ r.c = x /\ r.reads = s.reads /\ r.free = s.free
      /\ r.sq = s.sq /\ r.fdtab = s.fdtab
  BY DEF Frame
<1>2. s.sq \in Seq(Sqe)
  BY DEF Frame
<1> HIDE DEF r
<1>3. Within(h, s, r)
  BY <1>1, <1>2, ContinuesSelf DEF Within
<1> QED
  BY <1>1, <1>3 DEF r

\* tcp_read_loop arming its receive, the full submission queue included.
LEMMA ArmRecvWithin ==
  ASSUME NEW h \in Chan, NEW s \in Frame
  PROVE  /\ Within(h, s, ArmRecv(h, s))
         /\ ArmRecv(h, s).c.wr = s.c.wr
         /\ ArmRecv(h, s).c.closed = s.c.closed
         /\ ArmRecv(h, s).c.fd = s.c.fd
         /\ Parked(s) => Parked(ArmRecv(h, s))
<1>1. CASE SqFull(s.sq)
  <2> DEFINE x == [s.c EXCEPT !.rd = "done"]
  <2>1. /\ x \in Channel /\ x.conn = s.c.conn /\ x.fd = s.c.fd
        /\ x.marked = s.c.marked /\ x.wr = s.c.wr /\ x.closed = s.c.closed
        /\ x.send = s.c.send /\ x.pending = s.c.pending
    BY DEF Frame, Channel, ReadState
  <2>2. ArmRecv(h, s) = [s EXCEPT !.c = x]
    BY <1>1 DEF ArmRecv, Frame
  <2> HIDE DEF x
  <2> QED
    BY <2>1, <2>2, ChannelWithin, SMTT(30) DEF Parked
<1>2. CASE ~SqFull(s.sq)
  <2> DEFINE p == Prep(h, "recv", <<>>, s)
             n == s.c.in_flight + 1
             x == [s.c EXCEPT !.in_flight = n, !.rd = "await"]
  <2>1. Within(h, s, p) /\ p.c = s.c
    <3>1. <<>> \in Seq(Unit)
      BY SMTT(30)
    <3> QED
      BY <3>1, PrepWithin
  <2>2. n \in Int
    BY SMTT(30) DEF Frame, Channel
  <2>3. ArmRecv(h, s) = [p EXCEPT !.c.in_flight = p.c.in_flight + 1, !.c.rd = "await"]
    BY <1>2 DEF ArmRecv
  <2> HIDE DEF p, n
  <2>4. /\ x \in Channel /\ x.conn = s.c.conn /\ x.fd = s.c.fd
        /\ x.marked = s.c.marked /\ x.wr = s.c.wr /\ x.closed = s.c.closed
        /\ x.send = s.c.send /\ x.pending = s.c.pending
    BY <2>2 DEF Frame, Channel, ReadState
  <2>5. ArmRecv(h, s) = [p EXCEPT !.c = x]
    BY <2>1, <2>3 DEF Within, Frame, n
  <2> HIDE DEF x
  <2>6. Within(h, p, [p EXCEPT !.c = x]) /\ [p EXCEPT !.c = x].c = x
    BY <2>1, <2>4, ChannelWithin, SMTT(30) DEF Within
  <2> QED
    BY <2>1, <2>4, <2>5, <2>6, WithinTrans DEF Parked
<1> QED
  BY <1>1, <1>2

\* tcp_write_loop arming its write, the full submission queue included.
LEMMA ArmWriteWithin ==
  ASSUME NEW h \in Chan, NEW s \in Frame
  PROVE  /\ Within(h, s, ArmWrite(h, s))
         /\ ArmWrite(h, s).c.wr # "notify"
         /\ ArmWrite(h, s).c.closed = s.c.closed
         /\ ArmWrite(h, s).c.fd = s.c.fd
<1>1. CASE SqFull(s.sq)
  <2> DEFINE x == [s.c EXCEPT !.wr = "done"]
  <2>1. /\ x \in Channel /\ x.conn = s.c.conn /\ x.fd = s.c.fd
        /\ x.marked = s.c.marked /\ x.wr = "done" /\ x.closed = s.c.closed
    BY DEF Frame, Channel, WriteState
  <2>2. ArmWrite(h, s) = [s EXCEPT !.c = x]
    BY <1>1 DEF ArmWrite, Frame
  <2> HIDE DEF x
  <2> QED
    BY <2>1, <2>2, ChannelWithin, SMTT(30)
<1>2. CASE ~SqFull(s.sq)
  <2> DEFINE p == Prep(h, "write", s.c.send, s)
             n == s.c.in_flight + 1
             m == Len(s.c.send)
             x == [s.c EXCEPT !.in_flight = n, !.wr = "await", !.submitted = m]
  <2>1. Within(h, s, p) /\ p.c = s.c
    <3>1. s.c.send \in Seq(Unit)
      BY DEF Frame, Channel
    <3> QED
      BY <3>1, PrepWithin
  <2>2. n \in Int /\ m \in Nat
    BY SMTT(30) DEF Frame, Channel
  <2>3. ArmWrite(h, s) = [p EXCEPT !.c.in_flight = p.c.in_flight + 1, !.c.wr = "await",
                                   !.c.submitted = m]
    BY <1>2 DEF ArmWrite
  <2> HIDE DEF p, n, m
  <2>4. /\ x \in Channel /\ x.conn = s.c.conn /\ x.fd = s.c.fd
        /\ x.marked = s.c.marked /\ x.wr = "await" /\ x.closed = s.c.closed
    BY <2>2 DEF Frame, Channel, WriteState
  <2>5. ArmWrite(h, s) = [p EXCEPT !.c = x]
    BY <2>1, <2>3 DEF Within, Frame, n
  <2> HIDE DEF x
  <2>6. Within(h, p, [p EXCEPT !.c = x]) /\ [p EXCEPT !.c = x].c = x
    BY <2>1, <2>4, ChannelWithin, SMTT(30) DEF Within
  <2> QED
    BY <2>1, <2>4, <2>5, <2>6, WithinTrans
<1> QED
  BY <1>1, <1>2

\* tcp_write_loop from the top of its loop parks only with an empty send queue
\* and pending_ clear.
LEMMA WriterRunWithin ==
  ASSUME NEW h \in Chan, NEW woken \in BOOLEAN, NEW s \in Frame
  PROVE  /\ Within(h, s, WriterRun(h, woken, s))
         /\ Parked(WriterRun(h, woken, s))
         /\ WriterRun(h, woken, s).c.closed = s.c.closed
         /\ WriterRun(h, woken, s).c.fd = s.c.fd
<1> DEFINE r == WriterRun(h, woken, s)
           idle == s.c.send = <<>>
           t == IF idle THEN [s EXCEPT !.c.pending = FALSE] ELSE s
           x == IF idle THEN [s.c EXCEPT !.pending = FALSE] ELSE s.c
           Done(y) == /\ y \in Channel /\ y.conn = s.c.conn /\ y.fd = s.c.fd
                      /\ y.marked = s.c.marked /\ y.closed = s.c.closed
<1>1. Done(x) /\ (idle => x.send = <<>> /\ x.pending = FALSE)
  BY DEF Frame, Channel
<1>2. t = [s EXCEPT !.c = x] /\ Within(h, s, t) /\ t.c = x /\ t \in Frame
  <2>1. t = [s EXCEPT !.c = x]
    BY DEF Frame
  <2> HIDE DEF x, t
  <2> QED
    BY <1>1, <2>1, ChannelWithin DEF Within
<1>3. CASE idle /\ ~woken /\ ~s.c.pending
  <2> DEFINE y == [s.c EXCEPT !.wr = "notify"]
  <2>1. Done(y) /\ y.send = s.c.send /\ y.pending = s.c.pending
    BY DEF Frame, Channel, WriteState
  <2>2. r = [s EXCEPT !.c = y]
    BY <1>3 DEF WriterRun, Frame
  <2> HIDE DEF y
  <2> QED
    BY <1>3, <2>1, <2>2, ChannelWithin, SMTT(30) DEF Parked
<1>4. CASE ~(idle /\ ~woken /\ ~s.c.pending)
  <2>1. CASE s.c.closed /\ s.c.in_flight <= 0
    <3> DEFINE y == [x EXCEPT !.wr = "done", !.send = <<>>, !.draft = <<>>]
    <3>1. r = [t EXCEPT !.c.wr = "done", !.c.send = <<>>, !.c.draft = <<>>]
      BY <1>4, <2>1 DEF WriterRun
    <3> HIDE DEF x, t
    <3>2. Done(y) /\ y.wr = "done"
      <4>1. <<>> \in Seq(Unit)
        BY SMTT(30)
      <4> QED
        BY <1>1, <4>1 DEF Channel, WriteState
    <3>3. r = [t EXCEPT !.c = y]
      BY <1>2, <3>1 DEF Frame
    <3> HIDE DEF y
    <3>4. Within(h, t, [t EXCEPT !.c = y]) /\ [t EXCEPT !.c = y].c = y
      BY <1>1, <1>2, <3>2, ChannelWithin
    <3> QED
      BY <1>2, <3>2, <3>3, <3>4, WithinTrans DEF Parked
  <2>2. CASE ~(s.c.closed /\ s.c.in_flight <= 0) /\ idle
    <3> DEFINE y == [x EXCEPT !.wr = "notify"]
    <3>1. r = [t EXCEPT !.c.wr = "notify"]
      BY <1>4, <2>2 DEF WriterRun
    <3> HIDE DEF x, t
    <3>2. Done(y) /\ y.send = <<>> /\ y.pending = FALSE
      BY <1>1, <2>2 DEF Channel, WriteState
    <3>3. r = [t EXCEPT !.c = y]
      BY <1>2, <3>1 DEF Frame
    <3> HIDE DEF y
    <3>4. Within(h, t, [t EXCEPT !.c = y]) /\ [t EXCEPT !.c = y].c = y
      BY <1>1, <1>2, <3>2, ChannelWithin
    <3> QED
      BY <1>2, <3>2, <3>3, <3>4, WithinTrans DEF Parked
  <2>3. CASE ~(s.c.closed /\ s.c.in_flight <= 0) /\ ~idle
    <3>1. r = ArmWrite(h, t)
      BY <1>4, <2>3 DEF WriterRun
    <3> HIDE DEF x, t, r
    <3>2. /\ Within(h, t, r) /\ r.c.wr # "notify"
          /\ r.c.closed = t.c.closed /\ r.c.fd = t.c.fd
      BY <1>2, <3>1, ArmWriteWithin
    <3>3. Within(h, s, r)
      BY <1>2, <3>2, WithinTrans
    <3>4. /\ Within(h, s, r) /\ Parked(r)
          /\ r.c.closed = s.c.closed /\ r.c.fd = s.c.fd
      BY <1>1, <1>2, <3>2, <3>3 DEF Parked
    <3> QED
      BY <3>4 DEF r
  <2> QED
    BY <2>1, <2>2, <2>3
<1> QED
  BY <1>3, <1>4

\* NotifyToken::notify resumes a parked writer or leaves pending_ set.
LEMMA NotifyWithin ==
  ASSUME NEW h \in Chan, NEW s \in Frame
  PROVE  /\ Within(h, s, Notify(h, s))
         /\ Parked(Notify(h, s))
         /\ Notify(h, s).c.closed = s.c.closed
         /\ Notify(h, s).c.fd = s.c.fd
<1>1. CASE s.c.wr = "notify"
  <2>1. Notify(h, s) = WriterRun(h, TRUE, s)
    BY <1>1 DEF Notify
  <2> QED
    BY <2>1, WriterRunWithin
<1>2. CASE s.c.wr # "notify"
  <2> DEFINE x == [s.c EXCEPT !.pending = TRUE]
  <2>1. /\ x \in Channel /\ x.conn = s.c.conn /\ x.fd = s.c.fd
        /\ x.marked = s.c.marked /\ x.wr = s.c.wr /\ x.closed = s.c.closed
    BY DEF Frame, Channel
  <2>2. Notify(h, s) = [s EXCEPT !.c = x]
    BY <1>2 DEF Notify, Frame
  <2> HIDE DEF x
  <2> QED
    BY <1>2, <2>1, <2>2, ChannelWithin, SMTT(30) DEF Parked
<1> QED
  BY <1>1, <1>2

\* TcpChannel::close leaves closed_ set and no fd.
LEMMA CloseWithin ==
  ASSUME NEW h \in Chan, NEW s \in Frame
  PROVE  /\ Within(h, s, Close(h, s))
         /\ Parked(Close(h, s))
         /\ Close(h, s).c.closed = TRUE
         /\ Close(h, s).c.fd = NoFd
<1> DEFINE x == [s.c EXCEPT !.closed = TRUE]
           u == [s EXCEPT !.c.closed = TRUE]
           t == Notify(h, u)
           f == t.c.fd
           z == [t.c EXCEPT !.fd = NoFd]
           r == [t EXCEPT !.c.fd = NoFd, !.fdtab[f] = NoConn,
                          !.shut = @ \cup ({t.fdtab[f]} \ {NoConn})]
<1>1. Within(h, s, u) /\ u.c.closed = TRUE /\ u.c.fd = s.c.fd
  <2>1. /\ x \in Channel /\ x.conn = s.c.conn /\ x.fd = s.c.fd
        /\ x.marked = s.c.marked /\ x.closed = TRUE
    BY DEF Frame, Channel
  <2>2. u = [s EXCEPT !.c = x]
    BY DEF Frame
  <2> HIDE DEF x, u
  <2> QED
    BY <2>1, <2>2, ChannelWithin
<1>2. /\ Within(h, u, t) /\ Parked(t) /\ t.c.closed = TRUE
  BY <1>1, NotifyWithin DEF Within
<1>3. Within(h, s, t)
  BY <1>1, <1>2, WithinTrans
<1>4. Close(h, s) = IF f = NoFd THEN t ELSE r
  BY DEF Close
<1> HIDE DEF u, t
<1>5. CASE f = NoFd
  BY <1>2, <1>3, <1>4, <1>5
<1>6. CASE f # NoFd
  <2>1. t \in Frame /\ f \in Fd
    BY <1>3, <1>6 DEF Within, Frame, Channel
  <2>2. /\ [t.fdtab EXCEPT ![f] = NoConn] \in [Fd -> Conn \cup {NoConn}]
        /\ t.shut \cup ({t.fdtab[f]} \ {NoConn}) \in SUBSET Conn
    BY <2>1 DEF Frame
  <2>3. /\ z \in Channel /\ z.conn = t.c.conn /\ z.fd = NoFd /\ z.marked = t.c.marked
        /\ z.closed = t.c.closed /\ z.wr = t.c.wr /\ z.send = t.c.send
        /\ z.pending = t.c.pending
    BY <2>1 DEF Frame, Channel
  <2>4. r = [t EXCEPT !.c = z, !.fdtab = [t.fdtab EXCEPT ![f] = NoConn],
                      !.shut = t.shut \cup ({t.fdtab[f]} \ {NoConn})]
    BY <2>1 DEF Frame
  <2> DEFINE ft == [t.fdtab EXCEPT ![f] = NoConn]
             sh == t.shut \cup ({t.fdtab[f]} \ {NoConn})
  <2> HIDE DEF z, ft, sh, r
  <2>5. /\ r \in Frame /\ r.c = z /\ r.reads = t.reads /\ r.free = t.free
        /\ r.sq = t.sq
    BY <2>1, <2>2, <2>3, <2>4 DEF Frame, ft, sh
  <2>6. Within(h, t, r)
    <3>1. t.sq \in Seq(Sqe)
      BY <2>1 DEF Frame
    <3> QED
      BY <2>1, <2>3, <2>5, <3>1, ContinuesSelf DEF Within
  <2>7. Within(h, s, r) /\ Parked(r) /\ r.c.closed = TRUE /\ r.c.fd = NoFd
    BY <1>2, <1>3, <2>3, <2>5, <2>6, WithinTrans DEF Parked
  <2> QED
    BY <1>4, <1>6, <2>7
<1> QED
  BY <1>5, <1>6

-----------------------------------------------------------------------------
\* What follows in_flight_dec in a handler cannot release the channel again.
LEMMA HandlesThenWithin ==
  ASSUME NEW h, NEW s, NEW r, NEW t, Handles(h, s, r), Within(h, r, t)
  PROVE  Handles(h, s, t)
<1>1. s.sq \in Seq(Sqe) /\ r.sq \in Seq(Sqe) /\ t.sq \in Seq(Sqe)
  BY DEF Within, Handles, Frame
<1>2. Continues(h, s.c.conn, s.sq, t.sq)
  BY <1>1, ContinuesTrans DEF Within, Handles
<1> QED
  BY <1>2 DEF Within, Handles

\* A handler may do less than release its channel.
LEMMA WithinHandles ==
  ASSUME NEW h, NEW s, NEW r, Within(h, s, r)
  PROVE  Handles(h, s, r)
BY DEF Within, Handles

\* TcpChannel::in_flight_dec releases the channel at most once, and only when
\* closed_ is set, so without an fd.
LEMMA InFlightDecHandles ==
  ASSUME NEW h \in Chan, NEW s \in Frame, Shut(s)
  PROVE  /\ Handles(h, s, InFlightDec(h, s))
         /\ InFlightDec(h, s).c.marked = s.c.marked
         /\ InFlightDec(h, s).reads = s.reads
         /\ InFlightDec(h, s).c.closed = s.c.closed
         /\ InFlightDec(h, s).c.fd = s.c.fd
         /\ Parked(s) => Parked(InFlightDec(h, s))
<1> DEFINE n == s.c.in_flight - 1
           x == [s.c EXCEPT !.in_flight = n]
           t == [s EXCEPT !.c.in_flight = s.c.in_flight - 1]
           v == Notify(h, t)
           r == InFlightDec(h, s)
<1>1. n \in Int
  BY SMTT(30) DEF Frame, Channel
<1>2. t = [s EXCEPT !.c = x]
  BY DEF Frame
<1>3. r = IF t.c.in_flight = 0 /\ t.c.closed THEN Release(h, v) ELSE t
  BY DEF InFlightDec, OnDrained
<1> HIDE DEF n, t, r
<1>4. /\ x \in Channel /\ x.conn = s.c.conn /\ x.fd = s.c.fd
      /\ x.marked = s.c.marked /\ x.closed = s.c.closed
      /\ x.wr = s.c.wr /\ x.send = s.c.send /\ x.pending = s.c.pending
  BY <1>1 DEF Frame, Channel
<1> HIDE DEF x
<1>5. Within(h, s, t) /\ t.c = x
  BY <1>2, <1>4, ChannelWithin
<1>6. CASE t.c.in_flight = 0 /\ t.c.closed
  <2>1. /\ Within(h, t, v) /\ Parked(v) /\ v.c.closed = t.c.closed /\ v.c.fd = t.c.fd
    BY <1>5, NotifyWithin DEF Within
  <2>2. Within(h, s, v)
    BY <1>5, <2>1, WithinTrans
  <2>3. v.c.fd = NoFd
    BY <1>4, <1>5, <1>6, <2>1 DEF Shut
  <2>4. r = [v EXCEPT !.free = Append(v.free, h)]
    BY <1>3, <1>6 DEF Release
  <2> HIDE DEF v
  <2>5. v \in Frame /\ v.free = s.free /\ Append(v.free, h) \in Seq(Chan)
    BY <2>2, SMTT(30) DEF Within, Frame
  <2>6. /\ r \in Frame /\ r.c = v.c /\ r.free = Append(s.free, h)
        /\ r.reads = v.reads /\ r.sq = v.sq
    BY <2>4, <2>5 DEF Frame
  <2>7. Handles(h, s, r)
    BY <2>2, <2>3, <2>6 DEF Within, Handles
  <2>8. /\ r.c.marked = s.c.marked /\ r.reads = s.reads /\ r.c.closed = s.c.closed
        /\ r.c.fd = s.c.fd /\ Parked(r)
    BY <1>4, <1>5, <2>1, <2>2, <2>6 DEF Within, Parked
  <2> QED
    BY <2>7, <2>8 DEF r
<1>7. CASE ~(t.c.in_flight = 0 /\ t.c.closed)
  <2>1. r = t
    BY <1>3, <1>7
  <2>2. /\ Handles(h, s, r) /\ r.c.marked = s.c.marked /\ r.reads = s.reads
        /\ r.c.closed = s.c.closed /\ r.c.fd = s.c.fd /\ (Parked(s) => Parked(r))
    BY <1>4, <1>5, <2>1, WithinHandles DEF Within, Parked
  <2> QED
    BY <2>2 DEF r
<1> QED
  BY <1>6, <1>7

\* ReadBufStream::consume touches the read buffer and the buffer ring only.
LEMMA ConsumeAllWithin ==
  ASSUME NEW h \in Chan, NEW s \in Frame
  PROVE  /\ Within(h, s, ConsumeAll(s))
         /\ ConsumeAll(s).c.closed = s.c.closed
         /\ ConsumeAll(s).c.fd = s.c.fd
         /\ Parked(s) => Parked(ConsumeAll(s))
<1> DEFINE n == s.avail + Len(s.c.read_buf)
           x == [s.c EXCEPT !.read_buf = <<>>]
           r == [s EXCEPT !.avail = n, !.c = x]
<1>1. n \in Nat
  BY SMTT(30) DEF Frame, Channel
<1>2. ConsumeAll(s) = r
  BY DEF ConsumeAll, Frame
<1>3. /\ x \in Channel /\ x.conn = s.c.conn /\ x.fd = s.c.fd
      /\ x.marked = s.c.marked /\ x.closed = s.c.closed
      /\ x.wr = s.c.wr /\ x.send = s.c.send /\ x.pending = s.c.pending
  <2>1. <<>> \in Seq(Unit)
    BY SMTT(30)
  <2> QED
    BY <2>1 DEF Frame, Channel
<1> HIDE DEF n, x
<1>4. /\ r \in Frame /\ r.c = x /\ r.reads = s.reads /\ r.free = s.free
      /\ r.sq = s.sq /\ s.sq \in Seq(Sqe)
  BY <1>1, <1>3 DEF Frame
<1> HIDE DEF r
<1> QED
  BY <1>2, <1>3, <1>4, ContinuesSelf DEF Within, Parked

\* TcpThread::mark_pending_read enters the channel unless it is marked.
LEMMA MarkPendingReadHandles ==
  ASSUME NEW h \in Chan, NEW s, NEW r, Handles(h, s, r),
         r.c.marked = s.c.marked, r.reads = s.reads
  PROVE  /\ Handles(h, s, MarkPendingRead(h, r))
         /\ MarkPendingRead(h, r).c.closed = r.c.closed
         /\ MarkPendingRead(h, r).c.fd = r.c.fd
         /\ Parked(r) => Parked(MarkPendingRead(h, r))
<1>1. CASE r.c.marked
  BY <1>1 DEF MarkPendingRead
<1>2. CASE ~r.c.marked
  <2> DEFINE x == [r.c EXCEPT !.marked = TRUE]
             q == Append(r.reads, h)
             t == [r EXCEPT !.c = x, !.reads = q]
  <2>1. MarkPendingRead(h, r) = t
    BY <1>2 DEF MarkPendingRead, Handles, Frame
  <2>2. /\ x \in Channel /\ x.conn = r.c.conn /\ x.fd = r.c.fd
        /\ x.marked = TRUE /\ x.closed = r.c.closed
        /\ x.wr = r.c.wr /\ x.send = r.c.send /\ x.pending = r.c.pending
    BY DEF Handles, Frame, Channel
  <2>3. r \in Frame /\ q \in Seq(Chan)
    BY SMTT(30) DEF Handles, Frame
  <2> HIDE DEF x, q
  <2>4. /\ t \in Frame /\ t.c = x /\ t.reads = q /\ t.free = r.free /\ t.sq = r.sq
    BY <2>2, <2>3 DEF Frame
  <2> HIDE DEF t
  <2>5. Handles(h, s, t)
    BY <1>2, <2>2, <2>4 DEF Handles, q
  <2> QED
    BY <2>1, <2>2, <2>4, <2>5 DEF Parked
<1> QED
  BY <1>1, <1>2

-----------------------------------------------------------------------------
\* The close() of an application callback is TcpChannel::close.
LEMMA AppCloseWithin ==
  ASSUME NEW h \in Chan, NEW close \in BOOLEAN, NEW s \in Frame, Shut(s)
  PROVE  /\ Within(h, s, AppClose(h, close, s))
         /\ Shut(AppClose(h, close, s))
         /\ Parked(s) => Parked(AppClose(h, close, s))
<1>1. CASE close /\ ~s.c.closed
  BY <1>1, CloseWithin DEF AppClose, Shut
<1>2. CASE ~(close /\ ~s.c.closed)
  <2>1. AppClose(h, close, s) = s
    BY <1>2 DEF AppClose
  <2>2. Within(h, s, s)
    <3>1. s.sq \in Seq(Sqe)
      BY DEF Frame
    <3> QED
      BY <3>1, ContinuesSelf DEF Within
  <2> QED
    BY <2>1, <2>2
<1> QED
  BY <1>1, <1>2

\* What was appended before and what is appended now are units.
LEMMA AppendedType ==
  ASSUME NEW c \in Channel, NEW units \in Seq(Unit)
  PROVE  Appended(units, c) \in Seq(Unit)
<1> DEFINE all == c.draft \o units
<1>1. c.draft \in Seq(Unit)
  BY DEF Channel
<1>2. all \in Seq(Unit) /\ Len(all) \in Nat
  BY <1>1, SMTT(30)
<1> HIDE DEF all
<1>3. Len(all) > WriteCap => SubSeq(all, 1, WriteCap) \in Seq(Unit)
  BY <1>2, SizesAssumption, SMTT(30)
<1>4. Len(all) <= WriteCap \/ Len(all) > WriteCap
  BY <1>2, SizesAssumption, SMTT(30)
<1>5. Appended(units, c) = IF Len(all) <= WriteCap THEN all ELSE SubSeq(all, 1, WriteCap)
  BY DEF Appended, all
<1> QED
  BY <1>2, <1>3, <1>4, <1>5

\* TcpChannel::submit does not leave a parked writer with data.
LEMMA SubmitWithin ==
  ASSUME NEW h \in Chan, NEW units \in Seq(Unit), NEW s \in Frame, Parked(s)
  PROVE  /\ Within(h, s, Submit(h, units, s))
         /\ Parked(Submit(h, units, s))
         /\ Submit(h, units, s).c.closed = s.c.closed
         /\ Submit(h, units, s).c.fd = s.c.fd
<1> DEFINE d == Appended(units, s.c)
           q == s.c.send \o d
           n == <<>>
           fits == d # <<>> /\ Len(s.c.send) + Len(d) <= WriteCap
           x == IF fits THEN [s.c EXCEPT !.send = q, !.draft = n]
                ELSE [s.c EXCEPT !.draft = d]
           u == [s EXCEPT !.c = x]
           r == Submit(h, units, s)
<1>1. d \in Seq(Unit) /\ q \in Seq(Unit) /\ n \in Seq(Unit)
  <2>1. d \in Seq(Unit) /\ s.c.send \in Seq(Unit)
    BY AppendedType DEF Frame, Channel
  <2> HIDE DEF d
  <2> QED
    BY <2>1, SMTT(30)
<1> HIDE DEF d
<1>2. r = IF fits THEN Notify(h, u) ELSE u
  <2> DEFINE v == [s EXCEPT !.c.send = q, !.c.draft = n]
             w == [s EXCEPT !.c.draft = d]
  <2>1. r = IF fits THEN Notify(h, v) ELSE w
    BY DEF Submit, d
  <2> HIDE DEF fits, q, n, r
  <2>2. fits => u = v
    BY DEF Frame
  <2>3. ~fits => u = w
    BY DEF Frame
  <2> HIDE DEF u, v, w
  <2>4. CASE fits
    BY <2>1, <2>2, <2>4
  <2>5. CASE ~fits
    BY <2>1, <2>3, <2>5
  <2> QED
    BY <2>4, <2>5
<1> HIDE DEF q, n, fits
<1>3. /\ x \in Channel /\ x.conn = s.c.conn /\ x.fd = s.c.fd
      /\ x.marked = s.c.marked /\ x.closed = s.c.closed
      /\ ~fits => x.send = s.c.send /\ x.wr = s.c.wr /\ x.pending = s.c.pending
  <2>1. CASE fits
    BY <1>1, <2>1 DEF Frame, Channel
  <2>2. CASE ~fits
    BY <1>1, <2>2 DEF Frame, Channel
  <2> QED
    BY <2>1, <2>2
<1> HIDE DEF x
<1>4. Within(h, s, u) /\ u.c = x /\ u \in Frame
  BY <1>3, ChannelWithin DEF Within
<1> HIDE DEF u
<1>5. /\ Within(h, u, Notify(h, u)) /\ Parked(Notify(h, u))
      /\ Notify(h, u).c.closed = u.c.closed /\ Notify(h, u).c.fd = u.c.fd
  BY <1>4, NotifyWithin
<1>6. CASE fits
  <2>1. r = Notify(h, u)
    BY <1>2, <1>6
  <2> HIDE DEF r
  <2>2. Within(h, s, r) /\ Parked(r) /\ r.c.closed = s.c.closed /\ r.c.fd = s.c.fd
    BY <1>3, <1>4, <1>5, <2>1, WithinTrans
  <2> QED
    BY <2>2 DEF r
<1>7. CASE ~fits
  <2>1. r = u
    BY <1>2, <1>7
  <2> HIDE DEF r
  <2>2. Within(h, s, r) /\ Parked(r) /\ r.c.closed = s.c.closed /\ r.c.fd = s.c.fd
    BY <1>3, <1>4, <1>7, <2>1 DEF Parked
  <2> QED
    BY <2>2 DEF r
<1> QED
  BY <1>6, <1>7

\* tcp_read_loop from its completion to its next suspension.
LEMMA ReadResumeHandles ==
  ASSUME NEW h \in Chan, NEW e \in Cqe, NEW s \in Frame, Shut(s), Parked(s)
  PROVE  /\ Handles(h, s, ReadResume(h, e, s))
         /\ Shut(ReadResume(h, e, s))
         /\ Parked(ReadResume(h, e, s))
<1> DEFINE s1 == InFlightDec(h, s)
           r == ReadResume(h, e, s)
<1>1. /\ Handles(h, s, s1) /\ s1 \in Frame /\ Shut(s1) /\ Parked(s1)
      /\ s1.c.marked = s.c.marked /\ s1.reads = s.reads
  BY InFlightDecHandles DEF Handles, Shut
<1>2. CASE e.res <= 0
  <2> DEFINE s2 == IF s1.c.closed THEN s1 ELSE Close(h, s1)
             x == [s2.c EXCEPT !.rd = "done"]
             t == [s2 EXCEPT !.c = x]
  <2>1. Handles(h, s, s2) /\ s2 \in Frame /\ Shut(s2) /\ Parked(s2)
    <3>1. CASE s1.c.closed
      BY <1>1, <3>1
    <3>2. CASE ~s1.c.closed
      BY <1>1, <3>2, CloseWithin, HandlesThenWithin DEF Within, Shut
    <3> QED
      BY <3>1, <3>2
  <2>2. r = ConsumeAll([s2 EXCEPT !.c.rd = "done"])
    BY <1>2 DEF ReadResume
  <2> HIDE DEF s1, s2, r
  <2>3. [s2 EXCEPT !.c.rd = "done"] = t
    BY <2>1 DEF Frame
  <2>4. /\ x \in Channel /\ x.conn = s2.c.conn /\ x.fd = s2.c.fd
        /\ x.marked = s2.c.marked /\ x.closed = s2.c.closed
        /\ x.wr = s2.c.wr /\ x.send = s2.c.send /\ x.pending = s2.c.pending
    BY <2>1 DEF Frame, Channel, ReadState
  <2> HIDE DEF x
  <2>5. Within(h, s2, t) /\ t.c = x /\ t \in Frame
    BY <2>1, <2>4, ChannelWithin DEF Within
  <2> HIDE DEF t
  <2>6. Shut(t) /\ Parked(t)
    BY <2>1, <2>4, <2>5 DEF Shut, Parked
  <2>7. Within(h, t, r) /\ Shut(r) /\ Parked(r)
    BY <2>2, <2>3, <2>5, <2>6, ConsumeAllWithin DEF Shut
  <2>8. Handles(h, s, r)
    BY <2>1, <2>5, <2>7, HandlesThenWithin
  <2> QED
    BY <2>7, <2>8 DEF r
<1>3. CASE ~(e.res <= 0)
  <2> DEFINE s2 == IF e.more THEN s1 ELSE ArmRecv(h, s1)
             q == s2.c.read_buf \o e.data
             x == [s2.c EXCEPT !.read_buf = q]
             t == [s2 EXCEPT !.c = x]
  <2>1. /\ Handles(h, s, s2) /\ s2 \in Frame /\ Shut(s2) /\ Parked(s2)
        /\ s2.c.marked = s.c.marked /\ s2.reads = s.reads
    <3>1. CASE e.more
      BY <1>1, <3>1
    <3>2. CASE ~e.more
      BY <1>1, <3>2, ArmRecvWithin, HandlesThenWithin DEF Within, Shut
    <3> QED
      BY <3>1, <3>2
  <2>2. r = IF s2.c.rd = "done" THEN s2
            ELSE MarkPendingRead(h, [s2 EXCEPT !.c.read_buf = s2.c.read_buf \o e.data])
    BY <1>3 DEF ReadResume
  <2> HIDE DEF s1, s2, r
  <2>3. [s2 EXCEPT !.c.read_buf = s2.c.read_buf \o e.data] = t
    BY <2>1 DEF Frame
  <2>4. q \in Seq(Unit)
    BY <2>1, SMTT(30) DEF Frame, Channel, Cqe
  <2> HIDE DEF q
  <2>5. /\ x \in Channel /\ x.conn = s2.c.conn /\ x.fd = s2.c.fd
        /\ x.marked = s2.c.marked /\ x.closed = s2.c.closed
        /\ x.wr = s2.c.wr /\ x.send = s2.c.send /\ x.pending = s2.c.pending
    BY <2>1, <2>4 DEF Frame, Channel
  <2> HIDE DEF x
  <2>6. Within(h, s2, t) /\ t.c = x /\ t \in Frame
    BY <2>1, <2>5, ChannelWithin DEF Within
  <2> HIDE DEF t
  <2>7. /\ Handles(h, s, t) /\ Shut(t) /\ Parked(t)
        /\ t.c.marked = s.c.marked /\ t.reads = s.reads
    BY <2>1, <2>5, <2>6, HandlesThenWithin DEF Within, Shut, Parked
  <2>8. CASE s2.c.rd = "done"
    BY <2>1, <2>2, <2>8 DEF r
  <2>9. CASE s2.c.rd # "done"
    <3>1. r = MarkPendingRead(h, t)
      BY <2>2, <2>3, <2>9
    <3>2. Handles(h, s, r) /\ Shut(r) /\ Parked(r)
      BY <2>7, <3>1, MarkPendingReadHandles, SMTT(30) DEF Shut
    <3> QED
      BY <3>2 DEF r
  <2> QED
    BY <2>8, <2>9
<1> QED
  BY <1>2, <1>3

\* WriteBufStream::consume_written touches the send queue only.
LEMMA ConsumeWrittenWithin ==
  ASSUME NEW h \in Chan, NEW n \in Nat, NEW s \in Frame
  PROVE  /\ Within(h, s, ConsumeWritten(n, s))
         /\ ConsumeWritten(n, s).c.closed = s.c.closed
         /\ ConsumeWritten(n, s).c.fd = s.c.fd
<1>1. CASE n > Len(s.c.send)
  <2> DEFINE r == [s EXCEPT !.undefined = TRUE]
  <2>1. /\ r \in Frame /\ r.c = s.c /\ r.reads = s.reads /\ r.free = s.free
        /\ r.sq = s.sq /\ s.sq \in Seq(Sqe)
    BY DEF Frame
  <2> HIDE DEF r
  <2>2. Within(h, s, r)
    BY <2>1, ContinuesSelf DEF Within
  <2> QED
    BY <1>1, <2>1, <2>2 DEF ConsumeWritten, r
<1>2. CASE ~(n > Len(s.c.send))
  <2> DEFINE q == SubSeq(s.c.send, n + 1, Len(s.c.send))
             x == [s.c EXCEPT !.send = q]
  <2>1. q \in Seq(Unit)
    <3>1. s.c.send \in Seq(Unit)
      BY DEF Frame, Channel
    <3> QED
      BY <1>2, <3>1, SMTT(30)
  <2>2. ConsumeWritten(n, s) = [s EXCEPT !.c = x]
    BY <1>2 DEF ConsumeWritten, Frame
  <2> HIDE DEF q
  <2>3. /\ x \in Channel /\ x.conn = s.c.conn /\ x.fd = s.c.fd
        /\ x.marked = s.c.marked /\ x.closed = s.c.closed
    BY <2>1 DEF Frame, Channel
  <2> HIDE DEF x
  <2> QED
    BY <2>2, <2>3, ChannelWithin, SMTT(30)
<1> QED
  BY <1>1, <1>2

\* tcp_write_loop from its completion to its next suspension.
LEMMA WriteResumeHandles ==
  ASSUME NEW h \in Chan, NEW e \in Cqe, NEW close \in BOOLEAN, NEW s \in Frame, Shut(s)
  PROVE  /\ Handles(h, s, WriteResume(h, e, close, s))
         /\ Shut(WriteResume(h, e, close, s))
         /\ Parked(WriteResume(h, e, close, s))
<1> DEFINE x == [s.c EXCEPT !.wr = "run"]
           s0 == [s EXCEPT !.c = x]
           s1 == InFlightDec(h, s0)
           r == WriteResume(h, e, close, s)
<1>1. [s EXCEPT !.c.wr = "run"] = s0
  BY DEF Frame
<1>2. /\ x \in Channel /\ x.conn = s.c.conn /\ x.fd = s.c.fd
      /\ x.marked = s.c.marked /\ x.closed = s.c.closed /\ x.wr = "run"
  BY DEF Frame, Channel, WriteState
<1>3. /\ Within(h, s, s0) /\ s0 \in Frame /\ Shut(s0)
  <2> HIDE DEF x
  <2>1. Within(h, s, s0) /\ s0.c = x
    BY <1>2, ChannelWithin
  <2> QED
    BY <1>2, <2>1 DEF Within, Shut
<1> HIDE DEF s0
<1>4. /\ Handles(h, s0, s1) /\ s1 \in Frame /\ Shut(s1)
  BY <1>3, InFlightDecHandles DEF Handles, Shut
<1>5. Handles(h, s, s1)
  <2>1. s.sq \in Seq(Sqe) /\ s0.sq \in Seq(Sqe) /\ s1.sq \in Seq(Sqe)
    BY <1>3, <1>4 DEF Within, Handles, Frame
  <2>2. Continues(h, s.c.conn, s.sq, s1.sq)
    BY <1>3, <1>4, <2>1, ContinuesTrans DEF Within, Handles
  <2> QED
    BY <1>3, <1>4, <2>2 DEF Within, Handles
<1>6. CASE e.res <= 0
  <2> DEFINE s2 == IF s1.c.closed THEN s1 ELSE Close(h, s1)
             y == [s2.c EXCEPT !.wr = "done", !.send = <<>>, !.draft = <<>>]
  <2>1. Handles(h, s, s2) /\ s2 \in Frame /\ Shut(s2)
    <3>1. CASE s1.c.closed
      BY <1>4, <1>5, <3>1
    <3>2. CASE ~s1.c.closed
      BY <1>4, <1>5, <3>2, CloseWithin, HandlesThenWithin DEF Within, Shut
    <3> QED
      BY <3>1, <3>2
  <2>2. r = [s2 EXCEPT !.c.wr = "done", !.c.send = <<>>, !.c.draft = <<>>]
    BY <1>1, <1>6 DEF WriteResume
  <2> HIDE DEF s1, s2, r
  <2>3. r = [s2 EXCEPT !.c = y]
    BY <2>1, <2>2 DEF Frame
  <2>4. /\ y \in Channel /\ y.conn = s2.c.conn /\ y.fd = s2.c.fd
        /\ y.marked = s2.c.marked /\ y.closed = s2.c.closed /\ y.wr = "done"
    <3>1. <<>> \in Seq(Unit)
      BY SMTT(30)
    <3> QED
      BY <2>1, <3>1 DEF Frame, Channel, WriteState
  <2> HIDE DEF y
  <2>5. Within(h, s2, r) /\ r.c = y
    BY <2>1, <2>3, <2>4, ChannelWithin
  <2>6. Handles(h, s, r) /\ Shut(r) /\ Parked(r)
    BY <2>1, <2>4, <2>5, HandlesThenWithin DEF Shut, Parked
  <2> QED
    BY <2>6 DEF r
<1>7. CASE ~(e.res <= 0)
  <2> DEFINE t == ConsumeWritten(e.res, s1)
             s3 == AppClose(h, close, t)
  <2>1. r = WriterRun(h, FALSE, s3)
    BY <1>1, <1>7 DEF WriteResume
  <2>2. e.res \in Nat
    BY <1>7, SMTT(30) DEF Cqe
  <2>3. Within(h, s1, t) /\ t \in Frame /\ Shut(t)
    BY <1>4, <2>2, ConsumeWrittenWithin, SMTT(30) DEF Within, Shut
  <2>4. Within(h, t, s3) /\ s3 \in Frame /\ Shut(s3)
    BY <2>3, AppCloseWithin DEF Within
  <2> HIDE DEF s1, t, s3, r
  <2>5. Within(h, s3, r) /\ Shut(r) /\ Parked(r)
    BY <2>1, <2>4, WriterRunWithin DEF Shut
  <2>6. Handles(h, s, r)
    BY <1>5, <2>3, <2>4, <2>5, HandlesThenWithin
  <2> QED
    BY <2>5, <2>6 DEF r
<1> QED
  BY <1>6, <1>7

\* Token::complete, whichever coroutine it resumes.
LEMMA CompleteHandles ==
  ASSUME NEW h \in Chan, NEW e \in Cqe, NEW close \in BOOLEAN, NEW s \in Frame,
         Shut(s), Parked(s)
  PROVE  /\ Handles(h, s, Complete(h, e, close, s))
         /\ Shut(Complete(h, e, close, s))
         /\ Parked(Complete(h, e, close, s))
<1>1. CASE e.op = "recv" /\ s.c.rd = "await"
  <2>1. Complete(h, e, close, s) = ReadResume(h, e, s)
    BY <1>1 DEF Complete
  <2> QED
    BY <2>1, ReadResumeHandles
<1>2. CASE e.op = "write" /\ s.c.wr = "await"
  <2>1. Complete(h, e, close, s) = WriteResume(h, e, close, s)
    BY <1>2 DEF Complete
  <2> QED
    BY <2>1, WriteResumeHandles
<1>3. CASE ~(e.op = "recv" /\ s.c.rd = "await") /\ ~(e.op = "write" /\ s.c.wr = "await")
  <2>1. Complete(h, e, close, s) = s
    BY <1>3 DEF Complete
  <2>2. s.sq \in Seq(Sqe)
    BY DEF Frame
  <2> QED
    BY <2>1, <2>2, ContinuesSelf DEF Handles
<1> QED
  BY <1>1, <1>2, <1>3

\* The on_read callback: an echo, a close(), both or neither.
LEMMA OnReadWithin ==
  ASSUME NEW h \in Chan, NEW echo \in BOOLEAN, NEW close \in BOOLEAN, NEW s \in Frame,
         Shut(s), Parked(s)
  PROVE  /\ Within(h, s, OnRead(h, echo, close, s))
         /\ Shut(OnRead(h, echo, close, s))
         /\ Parked(OnRead(h, echo, close, s))
<1> DEFINE units == s.c.read_buf
           answers == echo /\ units # <<>> /\ Answers(s.c)
           t == IF answers THEN Submit(h, units, ConsumeAll(s)) ELSE s
<1>1. OnRead(h, echo, close, s) = AppClose(h, close, t)
  BY DEF OnRead
<1>2. units \in Seq(Unit)
  BY DEF Frame, Channel
<1>3. /\ Within(h, s, ConsumeAll(s)) /\ ConsumeAll(s) \in Frame
      /\ Shut(ConsumeAll(s)) /\ Parked(ConsumeAll(s))
  BY ConsumeAllWithin DEF Within, Shut, Parked
<1> HIDE DEF units, answers
<1>4. Within(h, s, t) /\ t \in Frame /\ Shut(t) /\ Parked(t)
  <2>1. CASE answers
    <3>1. t = Submit(h, units, ConsumeAll(s))
      BY <2>1
    <3> HIDE DEF t
    <3>2. Within(h, ConsumeAll(s), t) /\ Shut(t) /\ Parked(t)
      BY <1>2, <1>3, <3>1, SubmitWithin, SMTT(30) DEF Shut
    <3> QED
      BY <1>3, <3>2, WithinTrans DEF Within
  <2>2. CASE ~answers
    <3>1. t = s
      BY <2>2
    <3>2. s.sq \in Seq(Sqe)
      BY DEF Frame
    <3> HIDE DEF t
    <3> QED
      BY <1>3, <3>1, <3>2, ContinuesSelf DEF Within
  <2> QED
    BY <2>1, <2>2
<1> HIDE DEF t
<1> QED
  BY <1>1, <1>4, AppCloseWithin, WithinTrans

\* A channel taken from the pool starts the connection it is assigned.
LEMMA AssignStarts ==
  ASSUME NEW h \in Chan, NEW fd \in Fd, NEW conn \in Conn, NEW close \in BOOLEAN,
         NEW s \in Frame
  PROVE  /\ Assign(h, fd, conn, close, s) \in Frame
         /\ Assign(h, fd, conn, close, s).c.conn = conn
         /\ Assign(h, fd, conn, close, s).c.marked = s.c.marked
         /\ Assign(h, fd, conn, close, s).reads = s.reads
         /\ Assign(h, fd, conn, close, s).free = s.free
         /\ Continues(h, conn, s.sq, Assign(h, fd, conn, close, s).sq)
         /\ Shut(Assign(h, fd, conn, close, s))
         /\ Parked(Assign(h, fd, conn, close, s))
<1> DEFINE x == [s.c EXCEPT !.fd = fd, !.conn = conn, !.pending = FALSE,
                            !.closed = FALSE, !.wr = "run"]
           s1 == [s EXCEPT !.c = x]
           s2 == ArmRecv(h, s1)
           s3 == WriterRun(h, FALSE, s2)
           s4 == IF Greets THEN Submit(h, <<<<s3.c.conn, 1>>>>, s3) ELSE s3
           r == Assign(h, fd, conn, close, s)
<1>1. [s EXCEPT !.c.fd = fd, !.c.conn = conn, !.c.pending = FALSE,
                !.c.closed = FALSE, !.c.wr = "run"] = s1
  BY DEF Frame
<1>2. r = AppClose(h, close, s4)
  <2> DEFINE u == [s EXCEPT !.c.fd = fd, !.c.conn = conn, !.c.pending = FALSE,
                            !.c.closed = FALSE, !.c.wr = "run"]
  <2>1. r = OnAccept(h, close, WriterRun(h, FALSE, ArmRecv(h, u)))
    BY DEF Assign
  <2> HIDE DEF u, s1, r
  <2>2. u = s1
    BY <1>1 DEF u
  <2>3. r = OnAccept(h, close, s3)
    BY <2>1, <2>2
  <2> HIDE DEF s3
  <2> QED
    BY <2>3 DEF OnAccept
<1>3. /\ x \in Channel /\ x.conn = conn /\ x.closed = FALSE /\ x.marked = s.c.marked
  BY DEF Frame, Channel, WriteState
<1> HIDE DEF x
<1>4. /\ s1 \in Frame /\ s1.c = x /\ s1.reads = s.reads /\ s1.free = s.free
      /\ s1.sq = s.sq
  BY <1>3 DEF Frame
<1> HIDE DEF s1
<1>5. Within(h, s1, s2) /\ s2 \in Frame /\ s2.c.closed = FALSE
  BY <1>3, <1>4, ArmRecvWithin DEF Within
<1> HIDE DEF s2
<1>6. Within(h, s2, s3) /\ s3 \in Frame /\ s3.c.closed = FALSE /\ Parked(s3)
  BY <1>5, WriterRunWithin DEF Within
<1>7. s3.c.conn = conn
  BY <1>3, <1>4, <1>5, <1>6 DEF Within
<1> HIDE DEF s3
<1>8. Within(h, s3, s4) /\ s4 \in Frame /\ Shut(s4) /\ Parked(s4)
  <2>1. CASE Greets
    <3>1. <<<<s3.c.conn, 1>>>> \in Seq(Unit)
      BY <1>7, SizesAssumption, SMTT(30) DEF Unit
    <3>2. s4 = Submit(h, <<<<s3.c.conn, 1>>>>, s3)
      BY <2>1
    <3> HIDE DEF s4
    <3> QED
      BY <1>6, <3>1, <3>2, SubmitWithin DEF Within, Shut
  <2>2. CASE ~Greets
    <3>1. s4 = s3 /\ s3.sq \in Seq(Sqe)
      BY <1>6, <2>2 DEF Frame
    <3> QED
      BY <1>6, <3>1, ContinuesSelf DEF Within, Shut
  <2> QED
    BY <2>1, <2>2
<1> HIDE DEF s4, r
<1>9. Within(h, s4, r) /\ Shut(r) /\ Parked(r)
  BY <1>2, <1>8, AppCloseWithin
<1>10. Within(h, s1, r)
  BY <1>5, <1>6, <1>8, <1>9, WithinTrans
<1>11. /\ r \in Frame /\ r.c.conn = conn /\ r.c.marked = s.c.marked /\ r.reads = s.reads
       /\ r.free = s.free /\ Continues(h, conn, s.sq, r.sq)
  BY <1>3, <1>4, <1>10 DEF Within
<1> QED
  BY <1>9, <1>11 DEF r

\* What a handler adds to the submission queue is of its channel and its
\* connection.
LEMMA ContinuesSet ==
  ASSUME NEW h, NEW c, NEW q \in Seq(Sqe), NEW r \in Seq(Sqe), Continues(h, c, q, r),
         NEW x \in Range(r)
  PROVE  x \in Range(q) \/ (x.ch = h /\ x.conn = c /\ x.op \notin Control)
<1>1. PICK i \in 1..Len(r) : x = r[i]
  BY SMTT(30) DEF Range
<1>2. CASE i > Len(q)
  BY <1>1, <1>2 DEF Continues
<1>3. CASE ~(i > Len(q))
  <2>1. i \in 1..Len(q) /\ x = q[i] /\ DOMAIN q = 1..Len(q)
    BY <1>1, <1>3, SMTT(30) DEF Continues
  <2> QED
    BY <2>1 DEF Range
<1> QED
  BY <1>2, <1>3

-----------------------------------------------------------------------------
(***************************************************************************)
(* The inductive invariant.                                                *)
(***************************************************************************)
\* The accept and the wake-up have no channel, a receive or a write has one.
Formed(x) == (x.op \in Control) <=> (x.ch = NoChan)

\* A successful accept carries an fd number and the connection behind it.
Accepted(e) == e.op = "accept" /\ e.res >= 0 => e.res \in Fd /\ e.conn \in Conn

\* What the ring holds of a channel belongs to the channel's connection
\* (Token::complete only has the address of a token that assign() reuses).
OwnCompletions ==
  ~reused => \A x \in Ring : x.ch # NoChan => x.conn = chan[x.ch].conn

ClosedHasNoFd == \A h \in Chan : chan[h].closed => chan[h].fd = NoFd

Inv ==
  /\ TypeOK
  /\ flushed <= Len(sq)
  /\ \A x \in Ring : Formed(x)
  /\ \A e \in Range(cq) : Accepted(e)
  /\ NameReuse => reused
  /\ ClosedHasNoFd
  /\ NoLostWakeup
  /\ PendingReadsExact
  /\ OwnCompletions
  /\ PoolSound

\* Everything in the ring afterwards stems from something in it before.
Derived ==
  \A x \in Ring' : \E y \in Ring :
    x.op = y.op /\ x.ch = y.ch /\ (x.conn = y.conn \/ x.op = "accept")

\* A step that leaves the channels, the pool and the pending reads alone and
\* only moves operations through the ring keeps the invariant.
LEMMA RingStep ==
  ASSUME Inv, UNCHANGED <<chan, free_queue, pending_reads>>, KeepReuse, Derived,
         TypeOK', flushed' <= Len(sq'), \A e \in Range(cq') : Accepted(e)
  PROVE  Inv'
<1>1. ASSUME NEW x \in Ring' PROVE Formed(x)
  <2>1. PICK y \in Ring : x.op = y.op /\ x.ch = y.ch
    BY <1>1 DEF Derived
  <2>2. Formed(y)
    BY <2>1 DEF Inv
  <2> QED
    BY <2>1, <2>2 DEF Formed
<1>2. (NameReuse => reused)'
  BY DEF KeepReuse
<1>3. ClosedHasNoFd' /\ NoLostWakeup' /\ PendingReadsExact'
  BY DEF Inv, ClosedHasNoFd, NoLostWakeup, PendingReadsExact
<1>4. ~reused' => ~reused
  BY DEF KeepReuse
<1>5. OwnCompletions'
  <2>1. SUFFICES ASSUME ~reused', NEW x \in Ring', x.ch # NoChan
                 PROVE  x.conn = chan'[x.ch].conn
    BY DEF OwnCompletions
  <2>2. PICK y \in Ring : x.op = y.op /\ x.ch = y.ch /\ (x.conn = y.conn \/ x.op = "accept")
    BY DEF Derived
  <2>3. x.conn = y.conn
    BY <1>1, <2>1, <2>2 DEF Formed, Control
  <2>4. y.conn = chan[y.ch].conn
    BY <1>4, <2>1, <2>2 DEF Inv, OwnCompletions
  <2> QED
    BY <2>2, <2>3, <2>4
<1>6. PoolSound'
  BY <1>4 DEF Inv, PoolSound
<1> QED
  BY <1>1, <1>2, <1>3, <1>5, <1>6 DEF Inv

\* The accept, or any other completion e, leaves the queue; what is left is
\* what the ring held before.
LEMMA CqeTaken ==
  ASSUME Inv, cq # <<>>, NEW e, NextCqe(e)
  PROVE  /\ e \in Cqe /\ e \in Range(cq) /\ Formed(e) /\ Accepted(e)
         /\ cq' \in Seq(Cqe) /\ Range(cq') \subseteq Range(cq)
         /\ left' \in Nat
         /\ flushed' = flushed /\ UNCHANGED kernel
<1>1. cq \in Seq(Cqe) /\ e = Head(cq) /\ cq' = Tail(cq) /\ left' = left - 1
      /\ left \in Nat /\ left > 0 /\ flushed' = flushed /\ UNCHANGED kernel
  BY DEF Inv, TypeOK, NextCqe
<1>2. /\ e \in Cqe /\ cq' \in Seq(Cqe) /\ Range(cq) = {e} \cup Range(cq')
  BY <1>1, TailSet
<1>3. Formed(e) /\ Accepted(e)
  BY <1>2 DEF Inv, Ring
<1> QED
  BY <1>1, <1>2, <1>3, SMTT(30)

\* Steps of the loop between the handlers: submitting, peeking, the end of a
\* batch and of the pending reads.
LEMMA LoopKeeps ==
  ASSUME Inv, RingSubmit \/ PeekBatch \/ BatchDone \/ ReadsDone
  PROVE  Inv'
<1>1. /\ UNCHANGED <<chan, free_queue, pending_reads, sq, cq, ops>> /\ KeepReuse
  BY DEF RingSubmit, PeekBatch, BatchDone, ReadsDone, kernel
<1>2. Ring' = Ring
  BY <1>1 DEF Ring
<1>3. Derived
  BY <1>2 DEF Derived
<1>4. flushed' \in Nat /\ flushed' <= Len(sq')
  BY SMTT(30) DEF Inv, TypeOK, RingSubmit, PeekBatch, BatchDone, ReadsDone
<1>5. left' \in Nat
  BY SizesAssumption, SMTT(30) DEF Inv, TypeOK, RingSubmit, PeekBatch, BatchDone, ReadsDone
<1>6. reused' \in BOOLEAN
  BY <1>1 DEF KeepReuse, NameReuse, Inv, TypeOK
<1>7. TypeOK'
  BY <1>1, <1>4, <1>5, <1>6
  DEF Inv, TypeOK, RingSubmit, PeekBatch, BatchDone, ReadsDone, kernel
<1>8. \A e \in Range(cq') : Accepted(e)
  BY <1>1 DEF Inv
<1> QED
  BY <1>1, <1>3, <1>4, <1>7, <1>8, RingStep

\* accept_loop ends with an error, or terminates the process on a full queue.
LEMMA AcceptFailedKeeps ==
  ASSUME Inv, AcceptFailed \/ AcceptTerminates
  PROVE  Inv'
<1>1. PICK e : cq # <<>> /\ NextCqe(e)
  BY DEF AcceptFailed, AcceptTerminates
<1>2. /\ UNCHANGED <<chan, free_queue, pending_reads, sq, avail, fdtab, shut>>
      /\ acceptor' \in {acceptor, "done"} /\ phase' \in {phase, "terminated"} /\ KeepReuse
  BY DEF AcceptFailed, AcceptTerminates
<1>3. /\ cq' \in Seq(Cqe) /\ Range(cq') \subseteq Range(cq) /\ left' \in Nat
      /\ flushed' = flushed /\ UNCHANGED kernel
  BY <1>1, CqeTaken
<1>4. Ring' \subseteq Ring
  BY <1>2, <1>3 DEF Ring, kernel
<1>5. Derived
  BY <1>4 DEF Derived
<1>6. reused' \in BOOLEAN
  BY <1>2 DEF KeepReuse, NameReuse, Inv, TypeOK
<1>7. TypeOK' /\ flushed' <= Len(sq')
  BY <1>2, <1>3, <1>6 DEF Inv, TypeOK, kernel
<1>8. \A x \in Range(cq') : Accepted(x)
  BY <1>3 DEF Inv
<1> QED
  BY <1>2, <1>5, <1>7, <1>8, RingStep

\* The submission queue after accept_loop has looked at a result.
LEMMA AcceptSqSet ==
  ASSUME Inv, NEW e
  PROVE  /\ AcceptSq(e) \in Seq(Sqe) /\ Len(sq) <= Len(AcceptSq(e))
         /\ Range(AcceptSq(e)) \subseteq Range(sq) \cup {AcceptSqe}
<1>1. sq \in Seq(Sqe) /\ AcceptSqe \in Sqe
  <2>1. <<>> \in Seq(Unit)
    BY SMTT(30)
  <2> QED
    BY <2>1 DEF Inv, TypeOK, Sqe, AcceptSqe
<1>2. Range(Append(sq, AcceptSqe)) = Range(sq) \cup {AcceptSqe}
  BY <1>1, AppendSet, SMTT(30)
<1> QED
  BY <1>1, <1>2, SMTT(30) DEF AcceptSq

\* accept_loop with an exhausted pool closes the new connection.
LEMMA AcceptDropKeeps ==
  ASSUME Inv, AcceptDrop
  PROVE  Inv'
<1> DEFINE e == Head(cq)
<1>1. /\ cq # <<>> /\ NextCqe(e) /\ e.op = "accept" /\ e.res >= 0
      /\ sq' = AcceptSq(e) /\ fdtab' = [fdtab EXCEPT ![e.res] = NoConn]
      /\ shut' = shut \cup {e.conn} /\ KeepReuse
      /\ UNCHANGED <<chan, free_queue, pending_reads, acceptor, phase, avail>>
  BY DEF AcceptDrop
<1> HIDE DEF e
<1>2. /\ cq' \in Seq(Cqe) /\ Range(cq') \subseteq Range(cq) /\ left' \in Nat
      /\ flushed' = flushed /\ UNCHANGED kernel /\ e \in Range(cq)
      /\ e.ch = NoChan /\ e.res \in Fd /\ e.conn \in Conn
  BY <1>1, CqeTaken DEF Formed, Accepted, Control
<1>3. /\ sq' \in Seq(Sqe) /\ Len(sq) <= Len(sq')
      /\ Range(sq') \subseteq Range(sq) \cup {AcceptSqe}
  BY <1>1, AcceptSqSet
<1>4. Derived
  <2>1. Ring' \subseteq Ring \cup {AcceptSqe}
    BY <1>2, <1>3 DEF Ring, kernel
  <2>2. e \in Ring /\ AcceptSqe.op = e.op /\ AcceptSqe.ch = e.ch
    BY <1>1, <1>2 DEF Ring, AcceptSqe
  <2> QED
    BY <1>1, <2>1, <2>2 DEF Derived, AcceptSqe
<1>5. reused' \in BOOLEAN
  BY <1>1 DEF KeepReuse, NameReuse, Inv, TypeOK
<1>6. TypeOK'
  <2>1. fdtab' \in [Fd -> Conn \cup {NoConn}]
    BY <1>1, <1>2 DEF Inv, TypeOK
  <2> QED
    BY <1>1, <1>2, <1>3, <1>5, <2>1 DEF Inv, TypeOK, kernel
<1>7. flushed' <= Len(sq')
  BY <1>2, <1>3, SMTT(30) DEF Inv, TypeOK
<1>8. \A x \in Range(cq') : Accepted(x)
  BY <1>2 DEF Inv
<1> QED
  BY <1>1, <1>4, <1>6, <1>7, <1>8, RingStep

\* The types after a frame of channel h is committed.
LEMMA CommitTypes ==
  ASSUME Inv, NEW h \in Chan, NEW s \in Frame, Commit(h, s), KeepReuse,
         cq' \in Seq(Cqe), left' \in Nat, flushed' = flushed,
         UNCHANGED <<acceptor, kernel>>, phase' \in {phase, "undefined"}
  PROVE  TypeOK' /\ chan'[h] = s.c /\ \A g \in Chan : g # h => chan'[g] = chan[g]
<1>1. /\ s.c \in Channel /\ s.sq \in Seq(Sqe) /\ s.free \in Seq(Chan)
      /\ s.reads \in Seq(Chan) /\ s.avail \in Nat
      /\ s.fdtab \in [Fd -> Conn \cup {NoConn}] /\ s.shut \in SUBSET Conn
  BY DEF Frame
<1>2. chan \in [Chan -> Channel] /\ chan' = [chan EXCEPT ![h] = s.c]
  BY DEF Inv, TypeOK, Commit
<1>3. /\ chan' \in [Chan -> Channel]
      /\ chan'[h] = s.c /\ \A g \in Chan : g # h => chan'[g] = chan[g]
  BY <1>1, <1>2
<1>4. reused' \in BOOLEAN
  BY DEF KeepReuse, NameReuse, Inv, TypeOK
<1> QED
  BY <1>1, <1>3, <1>4 DEF Inv, TypeOK, Commit, kernel

\* A handler of channel h that keeps the channel's connection keeps the
\* invariant, if it gives the channel back only while the ring held it.
LEMMA HandlerStep ==
  ASSUME Inv, NEW h \in Chan, NEW s0 \in Frame, NEW s \in Frame,
         s0.c.conn = chan[h].conn, s0.c.fd = chan[h].fd,
         s0.sq = sq, s0.free = free_queue,
         Handles(h, s0, s), Shut(s), Parked(s), s.free = s0.free \/ Busy(h),
         Commit(h, s), KeepReuse,
         cq' \in Seq(Cqe), Range(cq') \subseteq Range(cq), left' \in Nat,
         flushed' = flushed, UNCHANGED <<acceptor, kernel>>,
         phase' \in {phase, "undefined"}, PendingReadsExact'
  PROVE  Inv'
<1>1. TypeOK' /\ chan'[h] = s.c /\ \A g \in Chan : g # h => chan'[g] = chan[g]
  BY CommitTypes
<1>2. /\ sq \in Seq(Sqe) /\ sq' \in Seq(Sqe) /\ sq' = s.sq
      /\ Continues(h, chan[h].conn, sq, sq')
  BY DEF Inv, TypeOK, Commit, Handles, Frame
<1>3. flushed' <= Len(sq')
  BY <1>2, SMTT(30) DEF Inv, TypeOK, Continues
<1>4. ASSUME NEW x \in Ring'
      PROVE  x \in Ring \/ (x.ch = h /\ x.conn = chan[h].conn /\ x.op \notin Control)
  <2>1. x \in Range(sq') \/ x \in Range(ops) \/ x \in Range(cq)
    BY <1>4 DEF Ring, kernel
  <2>2. CASE x \in Range(sq')
    BY <1>2, <2>2, ContinuesSet, SMTT(30) DEF Ring
  <2> QED
    BY <2>1, <2>2 DEF Ring
<1>5. \A x \in Ring' : Formed(x)
  <2>1. h # NoChan
    BY SizesAssumption, SMTT(30) DEF Chan, NoChan
  <2> QED
    BY <1>4, <2>1 DEF Inv, Formed
<1>6. \A e \in Range(cq') : Accepted(e)
  BY DEF Inv
<1>7. (NameReuse => reused)' /\ (~reused' => ~reused)
  BY DEF KeepReuse
<1>8. ClosedHasNoFd' /\ NoLostWakeup'
  BY <1>1 DEF Inv, ClosedHasNoFd, NoLostWakeup, Shut, Parked
<1>9. OwnCompletions'
  <2>1. SUFFICES ASSUME ~reused', NEW x \in Ring', x.ch # NoChan
                 PROVE  x.conn = chan'[x.ch].conn
    BY DEF OwnCompletions
  <2>2. chan'[h].conn = chan[h].conn
    BY <1>1 DEF Handles
  <2>3. CASE x \in Ring
    <3>1. x.conn = chan[x.ch].conn
      BY <1>7, <2>1, <2>3 DEF Inv, OwnCompletions
    <3>2. x.ch \in Chan
      <4>1. x \in Range(sq) \/ x \in Range(ops) \/ x \in Range(cq)
        BY <2>3 DEF Ring
      <4>2. x \in Sqe \/ x \in Op \/ x \in Cqe
        BY <4>1, SMTT(30) DEF Inv, TypeOK, Range
      <4>3. x.ch \in Chan \cup {NoChan}
        BY <4>2 DEF Sqe, Op, Cqe
      <4> QED
        BY <2>1, <4>3
    <3> QED
      BY <1>1, <2>2, <3>1, <3>2
  <2>4. CASE x \notin Ring
    BY <1>4, <2>1, <2>2, <2>4
  <2> QED
    BY <2>3, <2>4
<1>10. PoolSound'
  <2>1. SUFFICES ASSUME ~reused'
                 PROVE  /\ IsInjective(free_queue')
                        /\ \A g \in Range(free_queue') : chan'[g].fd = NoFd
    BY DEF PoolSound
  <2>2. /\ IsInjective(free_queue) /\ free_queue \in Seq(Chan)
        /\ \A g \in Range(free_queue) : g \in Chan /\ chan[g].fd = NoFd
    BY <1>7, <2>1, SMTT(30) DEF Inv, PoolSound, TypeOK, Range
  <2>3. \A g \in Range(free_queue) : chan'[g].fd = NoFd
    BY <1>1, <2>2 DEF Handles
  <2>4. CASE s.free = s0.free
    BY <2>2, <2>3, <2>4 DEF Commit
  <2>5. CASE s.free # s0.free
    <3>1. free_queue' = Append(free_queue, h) /\ chan'[h].fd = NoFd /\ Busy(h)
      BY <1>1, <2>5 DEF Handles, Commit
    <3>2. h \notin Range(free_queue)
      BY <1>7, <2>1, <3>1 DEF Inv, NameReuse, InPool
    <3> QED
      BY <2>2, <2>3, <3>1, <3>2, AppendSet, SMTT(30)
  <2> QED
    BY <2>4, <2>5
<1> QED
  BY <1>1, <1>3, <1>5, <1>6, <1>7, <1>8, <1>9, <1>10 DEF Inv

\* The frame a handler of channel h starts with.
LEMMA FrameOfType ==
  ASSUME Inv, NEW h \in Chan
  PROVE  /\ FrameOf(h) \in Frame /\ FrameOf(h).c = chan[h] /\ FrameOf(h).sq = sq
         /\ FrameOf(h).free = free_queue /\ FrameOf(h).reads = pending_reads
         /\ Shut(FrameOf(h)) /\ Parked(FrameOf(h))
<1>1. /\ FrameOf(h) \in Frame /\ FrameOf(h).c = chan[h] /\ FrameOf(h).sq = sq
      /\ FrameOf(h).free = free_queue /\ FrameOf(h).reads = pending_reads
  BY DEF Inv, TypeOK, FrameOf, Frame
<1> QED
  BY <1>1 DEF Inv, ClosedHasNoFd, NoLostWakeup, Shut, Parked

\* The completion of a receive or a write (run_loop's token->complete()).  The
\* channel is released only here, while the ring still held its completion.
LEMMA CompleteChannelKeeps ==
  ASSUME Inv, CompleteChannel
  PROVE  Inv'
<1> DEFINE e == Head(cq)
           h == e.ch
<1>1. /\ cq # <<>> /\ NextCqe(e) /\ e.op # "accept" /\ UNCHANGED acceptor /\ KeepReuse
  BY DEF CompleteChannel
<1>2. PICK close \in {FALSE, Closes} :
        /\ Commit(h, Complete(h, e, close, FrameOf(h)))
        /\ phase' = IF Complete(h, e, close, FrameOf(h)).undefined
                    THEN "undefined" ELSE phase
  BY DEF CompleteChannel
<1> HIDE DEF e
<1>3. /\ e \in Cqe /\ e \in Range(cq) /\ Formed(e)
      /\ cq' \in Seq(Cqe) /\ Range(cq') \subseteq Range(cq) /\ left' \in Nat
      /\ flushed' = flushed /\ UNCHANGED kernel
  BY <1>1, CqeTaken
<1>4. h \in Chan
  BY <1>1, <1>3 DEF Formed, Cqe, Control
<1>5. close \in BOOLEAN
  BY ModesAssumption
<1> DEFINE s0 == FrameOf(h)
           s == Complete(h, e, close, s0)
<1>6. /\ s0 \in Frame /\ s0.c = chan[h] /\ s0.sq = sq /\ s0.free = free_queue
      /\ s0.reads = pending_reads /\ Shut(s0) /\ Parked(s0)
  BY <1>4, FrameOfType
<1>7. Commit(h, s) /\ phase' \in {phase, "undefined"}
  BY <1>2
<1>8. Busy(h)
  BY <1>3 DEF Busy, Ring
<1> HIDE DEF h, s0
<1>9. Handles(h, s0, s) /\ Shut(s) /\ Parked(s) /\ s \in Frame
  <2>1. e \in Cqe /\ s0 \in Frame /\ Shut(s0) /\ Parked(s0)
    BY <1>3, <1>6
  <2>2. Handles(h, s0, s) /\ Shut(s) /\ Parked(s)
    BY <1>4, <1>5, <2>1, CompleteHandles
  <2> HIDE DEF s
  <2> QED
    BY <2>2 DEF Handles
<1> HIDE DEF s
<1>10. PendingReadsExact'
  <2>1. chan' = [chan EXCEPT ![h] = s.c] /\ pending_reads' = s.reads
    BY <1>7 DEF Commit
  <2>2. /\ chan \in [Chan -> Channel] /\ pending_reads \in Seq(Chan)
        /\ IsInjective(pending_reads)
        /\ Range(pending_reads) = {g \in Chan : chan[g].marked}
    BY DEF Inv, TypeOK, PendingReadsExact
  <2>3. chan'[h] = s.c /\ \A g \in Chan : g # h => chan'[g] = chan[g]
    BY <1>4, <2>1, <2>2
  <2>4. CASE s.c.marked = s0.c.marked /\ s.reads = s0.reads
    <3>1. \A g \in Chan : chan'[g].marked = chan[g].marked
      BY <1>6, <2>3, <2>4
    <3> QED
      BY <1>6, <2>1, <2>2, <2>4, <3>1 DEF PendingReadsExact
  <2>5. CASE ~s0.c.marked /\ s.c.marked /\ s.reads = Append(s0.reads, h)
    <3>1. h \notin Range(pending_reads)
      BY <1>6, <2>2, <2>5
    <3>2. /\ IsInjective(pending_reads')
          /\ Range(pending_reads') = Range(pending_reads) \cup {h}
      BY <1>4, <1>6, <2>1, <2>2, <2>5, <3>1, AppendSet, SMTT(30)
    <3>3. {g \in Chan : chan'[g].marked} = {g \in Chan : chan[g].marked} \cup {h}
      BY <1>4, <2>3, <2>5
    <3> QED
      BY <2>2, <3>2, <3>3 DEF PendingReadsExact
  <2> QED
    BY <1>9, <2>4, <2>5 DEF Handles
<1> QED
  BY <1>1, <1>3, <1>4, <1>6, <1>7, <1>8, <1>9, <1>10, HandlerStep

\* One iteration of TcpThread::on_batch_done.
LEMMA BatchReadKeeps ==
  ASSUME Inv, BatchRead
  PROVE  Inv'
<1> DEFINE h == Head(pending_reads)
           s1 == [FrameOf(h) EXCEPT !.c.marked = FALSE, !.reads = Tail(@)]
<1>1. /\ pending_reads # <<>> /\ KeepReuse
      /\ UNCHANGED <<acceptor, phase, left, flushed, cq, kernel>>
  BY DEF BatchRead
<1>2. PICK echo \in BOOLEAN, close \in {FALSE, Closes} :
        Commit(h, OnRead(h, echo, close, s1))
  BY DEF BatchRead
<1>3. close \in BOOLEAN
  BY ModesAssumption
<1>4. /\ pending_reads \in Seq(Chan) /\ IsInjective(pending_reads)
      /\ Range(pending_reads) = {g \in Chan : chan[g].marked}
  BY DEF Inv, TypeOK, PendingReadsExact
<1>5. /\ h \in Chan /\ Tail(pending_reads) \in Seq(Chan)
      /\ Range(pending_reads) = {h} \cup Range(Tail(pending_reads))
      /\ IsInjective(Tail(pending_reads)) /\ h \notin Range(Tail(pending_reads))
  BY <1>1, <1>4, TailSet
<1> HIDE DEF h
<1>6. /\ FrameOf(h) \in Frame /\ FrameOf(h).c = chan[h] /\ FrameOf(h).sq = sq
      /\ FrameOf(h).free = free_queue /\ FrameOf(h).reads = pending_reads
      /\ Shut(FrameOf(h)) /\ Parked(FrameOf(h))
  BY <1>5, FrameOfType
<1>7. /\ s1 \in Frame /\ s1.sq = sq /\ s1.free = free_queue
      /\ s1.reads = Tail(pending_reads) /\ s1.c.marked = FALSE
      /\ s1.c.conn = chan[h].conn /\ s1.c.fd = chan[h].fd
      /\ Shut(s1) /\ Parked(s1)
  <2> DEFINE x == [chan[h] EXCEPT !.marked = FALSE]
             t == Tail(pending_reads)
             s0 == FrameOf(h)
  <2>1. /\ x \in Channel /\ x.conn = chan[h].conn /\ x.fd = chan[h].fd
        /\ x.marked = FALSE /\ x.closed = chan[h].closed /\ x.wr = chan[h].wr
        /\ x.send = chan[h].send /\ x.pending = chan[h].pending
    BY <1>5 DEF Inv, TypeOK, Channel
  <2>2. s1 = [s0 EXCEPT !.c = x, !.reads = t]
    BY <1>6 DEF Frame
  <2>3. s0 \in Frame /\ t \in Seq(Chan)
    BY <1>5, <1>6
  <2> HIDE DEF x, t, s0, s1
  <2>4. /\ s1 \in Frame /\ s1.sq = s0.sq /\ s1.free = s0.free /\ s1.reads = t /\ s1.c = x
    BY <2>1, <2>2, <2>3 DEF Frame
  <2> QED
    BY <1>6, <2>1, <2>4 DEF Shut, Parked, t, s0
<1> DEFINE s == OnRead(h, echo, close, s1)
<1>8. Commit(h, s)
  BY <1>2
<1> HIDE DEF s1
<1>9. Within(h, s1, s) /\ Shut(s) /\ Parked(s) /\ s \in Frame
  BY <1>3, <1>5, <1>7, OnReadWithin, SMTT(30) DEF Within
<1> HIDE DEF s
<1>10. Handles(h, s1, s) /\ s.free = s1.free
  BY <1>9, WithinHandles DEF Within
<1>11. PendingReadsExact'
  <2>1. chan' = [chan EXCEPT ![h] = s.c] /\ pending_reads' = Tail(pending_reads)
    BY <1>7, <1>8, <1>9 DEF Commit, Within
  <2>2. chan \in [Chan -> Channel]
    BY DEF Inv, TypeOK
  <2>3. ~chan'[h].marked /\ \A g \in Chan : g # h => chan'[g] = chan[g]
    BY <1>5, <1>7, <1>9, <2>1, <2>2 DEF Within
  <2>4. {g \in Chan : chan'[g].marked} = {g \in Chan : chan[g].marked} \ {h}
    BY <1>5, <2>3
  <2> QED
    BY <1>4, <1>5, <2>1, <2>4 DEF PendingReadsExact
<1>12. left' \in Nat /\ cq' \in Seq(Cqe)
  BY <1>1 DEF Inv, TypeOK
<1> QED
  BY <1>1, <1>5, <1>7, <1>8, <1>9, <1>10, <1>11, <1>12, HandlerStep

\* accept_loop takes a channel from the pool: the ring holds nothing of it, so
\* every completion of the channel belongs to the new connection.
LEMMA AcceptAssignKeeps ==
  ASSUME Inv, AcceptAssign
  PROVE  Inv'
<1> DEFINE e == Head(cq)
           h == Head(free_queue)
           s0 == [FrameOf(h) EXCEPT !.free = Tail(@), !.sq = AcceptSq(e)]
<1>1. /\ cq # <<>> /\ free_queue # <<>> /\ NextCqe(e) /\ e.op = "accept" /\ e.res >= 0
      /\ UNCHANGED <<acceptor, phase>> /\ KeepReuse
  BY DEF AcceptAssign
<1>2. PICK close \in {FALSE, Closes} : Commit(h, Assign(h, e.res, e.conn, close, s0))
  BY DEF AcceptAssign
<1>3. close \in BOOLEAN
  BY ModesAssumption
<1> HIDE DEF e
<1>4. /\ e \in Cqe /\ e \in Range(cq) /\ e.ch = NoChan /\ e.res \in Fd /\ e.conn \in Conn
      /\ cq' \in Seq(Cqe) /\ Range(cq') \subseteq Range(cq) /\ left' \in Nat
      /\ flushed' = flushed /\ UNCHANGED kernel
  BY <1>1, CqeTaken DEF Formed, Accepted, Control
<1>5. free_queue \in Seq(Chan)
  BY DEF Inv, TypeOK
<1>6. /\ h \in Chan /\ Tail(free_queue) \in Seq(Chan)
      /\ Range(free_queue) = {h} \cup Range(Tail(free_queue))
      /\ IsInjective(free_queue) =>
           IsInjective(Tail(free_queue)) /\ h \notin Range(Tail(free_queue))
  BY <1>1, <1>5, TailSet
<1>7. /\ AcceptSq(e) \in Seq(Sqe) /\ Len(sq) <= Len(AcceptSq(e))
      /\ Range(AcceptSq(e)) \subseteq Range(sq) \cup {AcceptSqe}
  BY AcceptSqSet
<1> HIDE DEF h
<1>8. /\ s0 \in Frame /\ s0.c = chan[h] /\ s0.reads = pending_reads
      /\ s0.free = Tail(free_queue) /\ s0.sq = AcceptSq(e)
  BY <1>6, <1>7, FrameOfType DEF Frame
<1> DEFINE s == Assign(h, e.res, e.conn, close, s0)
<1>9. Commit(h, s)
  BY <1>2
<1> HIDE DEF s0
<1>10. /\ s \in Frame /\ s.c.conn = e.conn /\ s.c.marked = s0.c.marked
       /\ s.reads = s0.reads /\ s.free = s0.free
       /\ Continues(h, e.conn, s0.sq, s.sq) /\ Shut(s) /\ Parked(s)
  BY <1>3, <1>4, <1>6, <1>8, AssignStarts, SMTT(30)
<1> HIDE DEF s
<1>11. TypeOK' /\ chan'[h] = s.c /\ \A g \in Chan : g # h => chan'[g] = chan[g]
  BY <1>1, <1>4, <1>6, <1>9, <1>10, CommitTypes
<1>12. /\ sq' \in Seq(Sqe) /\ Continues(h, e.conn, AcceptSq(e), sq')
       /\ free_queue' = Tail(free_queue) /\ pending_reads' = pending_reads
  BY <1>8, <1>9, <1>10 DEF Commit, Frame
<1>13. flushed' <= Len(sq')
  <2>1. flushed' \in Nat /\ flushed' <= Len(sq) /\ sq \in Seq(Sqe)
    BY <1>4 DEF Inv, TypeOK
  <2>2. Len(AcceptSq(e)) <= Len(sq')
    BY <1>12 DEF Continues
  <2>3. Len(sq) \in Nat /\ Len(AcceptSq(e)) \in Nat /\ Len(sq') \in Nat
    BY <1>7, <1>12, <2>1, SMTT(30)
  <2> QED
    BY <1>7, <2>1, <2>2, <2>3, SMTT(30)
<1>14. ASSUME NEW x \in Ring'
       PROVE  \/ x \in Ring \/ x = AcceptSqe
              \/ x.ch = h /\ x.conn = e.conn /\ x.op \notin Control
  <2>1. x \in Range(sq') \/ x \in Range(ops) \/ x \in Range(cq)
    BY <1>4, <1>14 DEF Ring, kernel
  <2>2. CASE x \in Range(sq')
    BY <1>7, <1>12, <2>2, ContinuesSet, SMTT(30) DEF Ring
  <2> QED
    BY <2>1, <2>2 DEF Ring
<1>15. \A x \in Ring' : Formed(x)
  <2>1. h # NoChan
    BY <1>6, SizesAssumption, SMTT(30) DEF Chan, NoChan
  <2>2. Formed(AcceptSqe)
    BY DEF Formed, AcceptSqe, Control
  <2> QED
    BY <1>14, <2>1, <2>2 DEF Inv, Formed
<1>16. \A x \in Range(cq') : Accepted(x)
  BY <1>4 DEF Inv
<1>17. (NameReuse => reused)' /\ (~reused' => ~reused)
  BY <1>1 DEF KeepReuse
<1>18. ClosedHasNoFd' /\ NoLostWakeup'
  BY <1>10, <1>11 DEF Inv, ClosedHasNoFd, NoLostWakeup, Shut, Parked
<1>19. PendingReadsExact'
  <2>1. \A g \in Chan : chan'[g].marked = chan[g].marked
    BY <1>8, <1>10, <1>11
  <2> QED
    BY <1>12, <2>1 DEF Inv, PendingReadsExact
<1>20. OwnCompletions'
  <2>1. SUFFICES ASSUME ~reused', NEW x \in Ring', x.ch # NoChan
                 PROVE  x.conn = chan'[x.ch].conn
    BY DEF OwnCompletions
  <2>2. ~Busy(h)
    BY <1>6, <1>17, <2>1 DEF Inv, NameReuse, InPool
  <2>3. CASE x \in Ring
    <3>1. x.conn = chan[x.ch].conn /\ x.ch # h
      BY <1>17, <2>1, <2>2, <2>3 DEF Inv, OwnCompletions, Busy
    <3>2. x.ch \in Chan
      <4>1. x \in Range(sq) \/ x \in Range(ops) \/ x \in Range(cq)
        BY <2>3 DEF Ring
      <4>2. x \in Sqe \/ x \in Op \/ x \in Cqe
        BY <4>1, SMTT(30) DEF Inv, TypeOK, Range
      <4>3. x.ch \in Chan \cup {NoChan}
        BY <4>2 DEF Sqe, Op, Cqe
      <4> QED
        BY <2>1, <4>3
    <3> QED
      BY <1>11, <3>1, <3>2
  <2>4. CASE x.ch = h /\ x.conn = e.conn
    BY <1>10, <1>11, <2>4
  <2>5. x # AcceptSqe
    BY <2>1, SMTT(30) DEF AcceptSqe
  <2> QED
    BY <1>14, <2>3, <2>4, <2>5
<1>21. PoolSound'
  <2>1. SUFFICES ASSUME ~reused'
                 PROVE  /\ IsInjective(free_queue')
                        /\ \A g \in Range(free_queue') : chan'[g].fd = NoFd
    BY DEF PoolSound
  <2>2. IsInjective(free_queue) /\ \A g \in Range(free_queue) : chan[g].fd = NoFd
    BY <1>17, <2>1 DEF Inv, PoolSound
  <2>3. \A g \in Range(Tail(free_queue)) : g \in Chan /\ g # h /\ chan[g].fd = NoFd
    BY <1>6, <2>2, SMTT(30) DEF Range
  <2> QED
    BY <1>6, <1>11, <1>12, <2>2, <2>3
<1> QED
  BY <1>11, <1>13, <1>15, <1>16, <1>17, <1>18, <1>19, <1>20, <1>21 DEF Inv

\* What is left of the kernel's batch, and what it took of it, is counted.
LEMMA BatchTypes ==
  ASSUME Inv, KernelTake
  PROVE  kbatch' \in [left: Nat, taken: Nat]
<1> DEFINE k == kbatch.left
           m == kbatch.taken
           n == IF k = 0 THEN flushed ELSE k
<1>1. k \in Nat /\ m \in Nat /\ flushed \in Nat /\ flushed > 0
  BY DEF Inv, TypeOK, KernelTake
<1>2. kbatch' = IF n = 1 THEN [left |-> 0, taken |-> 0]
                ELSE [left |-> n - 1, taken |-> m + 1]
  BY DEF KernelTake
<1> HIDE DEF k, m
<1>3. n - 1 \in Nat /\ m + 1 \in Nat /\ 0 \in Nat
  BY <1>1, SMTT(30)
<1> HIDE DEF n
<1> QED
  BY <1>2, <1>3

\* The kernel takes an SQE: the operation or its failure names the same token.
LEMMA KernelTakeKeeps ==
  ASSUME Inv, KernelTake
  PROVE  Inv'
<1> DEFINE e == Head(sq)
           file == IF e.fd = NoFd THEN NoConn ELSE fdtab[e.fd]
           o == [op |-> e.op, ch |-> e.ch, conn |-> e.conn, file |-> file, data |-> e.data]
           d == CqeOf(e, -1, FALSE, <<>>)
<1>1. /\ flushed > 0 /\ sq' = Tail(sq) /\ flushed' = flushed - 1 /\ KeepReuse
      /\ UNCHANGED <<user, avail, fdtab, shut, nconn, recvd, eof, wire>>
      /\ \/ e.ch # NoChan /\ cq' = Append(cq, d) /\ ops' = ops
         \/ ops' = Append(ops, o) /\ cq' = cq
  BY DEF KernelTake
<1>2. /\ sq \in Seq(Sqe) /\ ops \in Seq(Op) /\ cq \in Seq(Cqe) /\ sq # <<>>
      /\ flushed \in Nat /\ flushed <= Len(sq)
  BY <1>1, SMTT(30) DEF Inv, TypeOK
<1>3. /\ e \in Sqe /\ sq' \in Seq(Sqe) /\ Range(sq) = {e} \cup Range(sq')
  BY <1>1, <1>2, TailSet
<1>4. flushed' \in Nat /\ flushed' <= Len(sq')
  BY <1>1, <1>2, SMTT(30)
<1> HIDE DEF e
<1>5. file \in Conn \cup {NoConn}
  BY <1>3 DEF Inv, TypeOK, Sqe
<1> HIDE DEF file
<1>6. o \in Op /\ o.op = e.op /\ o.ch = e.ch /\ o.conn = e.conn
  BY <1>3, <1>5 DEF Sqe, Op
<1>7. /\ e.ch # NoChan => d \in Cqe /\ e.op # "accept"
      /\ d.op = e.op /\ d.ch = e.ch /\ d.conn = e.conn
  <2>1. <<>> \in Seq(Unit) /\ -1 \in Int
    BY SMTT(30)
  <2>2. e.ch # NoChan => e.op \notin Control
    BY <1>3 DEF Inv, Ring, Formed
  <2> QED
    BY <1>3, <2>1, <2>2 DEF Sqe, Cqe, CqeOf, Control
<1> HIDE DEF o, d
<1>8. /\ cq' \in Seq(Cqe) /\ ops' \in Seq(Op)
      /\ Range(ops') \subseteq Range(ops) \cup {o}
      /\ Range(cq') \subseteq Range(cq) \cup {d}
      /\ e.op = "accept" => cq' = cq
  <2>1. CASE e.ch # NoChan /\ cq' = Append(cq, d) /\ ops' = ops
    BY <1>2, <1>7, <2>1, AppendSet, SMTT(30)
  <2>2. CASE ops' = Append(ops, o) /\ cq' = cq
    BY <1>2, <1>6, <2>2, AppendSet, SMTT(30)
  <2> QED
    BY <1>1, <2>1, <2>2
<1>9. Derived
  <2>1. Ring' \subseteq Ring \cup {o, d} /\ e \in Ring
    BY <1>3, <1>8 DEF Ring
  <2> QED
    BY <1>6, <1>7, <2>1 DEF Derived
<1>10. \A x \in Range(cq') : Accepted(x)
  BY <1>7, <1>8 DEF Inv, Accepted
<1>11. reused' \in BOOLEAN
  BY <1>1 DEF KeepReuse, NameReuse, Inv, TypeOK
<1>12. kbatch' \in [left: Nat, taken: Nat]
  BY <1>1, <1>2, BatchTypes
<1>13. TypeOK'
  BY <1>1, <1>3, <1>4, <1>8, <1>11, <1>12 DEF Inv, TypeOK, user
<1> QED
  BY <1>1, <1>4, <1>9, <1>10, <1>13, RingStep DEF user

\* A kernel step that posts a completion of operation i.
LEMMA PostStep ==
  ASSUME Inv, NEW i \in DOMAIN ops, NEW e \in Cqe, Post(i, e),
         e.op = ops[i].op, e.ch = ops[i].ch, e.conn = ops[i].conn \/ e.op = "accept",
         Accepted(e), UNCHANGED <<user, sq, flushed, kbatch, shut>>, KeepReuse,
         avail' \in Nat, fdtab' \in [Fd -> Conn \cup {NoConn}], nconn' \in 0..MaxConn,
         recvd' \in [Conn -> 0..MaxData], eof' \in SUBSET Conn, wire' \in [Conn -> Nat]
  PROVE  Inv'
<1>1. cq \in Seq(Cqe) /\ ops \in Seq(Op)
  BY DEF Inv, TypeOK
<1>2. cq' \in Seq(Cqe) /\ Range(cq') = Range(cq) \cup {e}
  BY <1>1, AppendSet, SMTT(30) DEF Post
<1>3. ops' \in Seq(Op) /\ Range(ops') \subseteq Range(ops)
  BY <1>1, CutSet DEF Post
<1>4. ops[i] \in Ring
  BY DEF Ring, Range
<1>5. Derived
  BY <1>2, <1>3, <1>4 DEF Derived, Ring
<1>6. \A x \in Range(cq') : Accepted(x)
  BY <1>2 DEF Inv
<1>7. reused' \in BOOLEAN
  BY DEF KeepReuse, NameReuse, Inv, TypeOK
<1>8. TypeOK' /\ flushed' <= Len(sq')
  BY <1>2, <1>3, <1>7 DEF Inv, TypeOK, user
<1> QED
  BY <1>5, <1>6, <1>8, RingStep DEF user

\* The completion of operation o with result n.
LEMMA CqeOfType ==
  ASSUME NEW o \in Op, o.op # "wakeup", NEW n \in Int, NEW more \in BOOLEAN,
         NEW data \in Seq(Unit)
  PROVE  /\ CqeOf(o, n, more, data) \in Cqe
         /\ CqeOf(o, n, more, data).op = o.op /\ CqeOf(o, n, more, data).ch = o.ch
         /\ CqeOf(o, n, more, data).conn = o.conn
         /\ CqeOf(o, n, more, data).res = n
BY DEF Op, Cqe, CqeOf

\* IORING_CQE_F_MORE is set or not.
LEMMA MoreFlagsType == MoreFlags \subseteq BOOLEAN
BY ModesAssumption DEF MoreFlags

\* A connection arrives.
LEMMA KernelAcceptKeeps ==
  ASSUME Inv, NEW f \in Fd, NEW more \in MoreFlags, KernelAccept(f, more)
  PROVE  Inv'
<1>1. PICK i \in DOMAIN ops :
        /\ ops[i].op = "accept"
        /\ Post(i, [CqeOf(ops[i], f, more, <<>>) EXCEPT !.conn = nconn + 1])
  BY DEF KernelAccept
<1> DEFINE c == nconn + 1
           d == CqeOf(ops[i], f, more, <<>>)
           e == [d EXCEPT !.conn = c]
<1>2. ops[i] \in Op /\ <<>> \in Seq(Unit) /\ f \in Int
  BY SMTT(30) DEF Inv, TypeOK, Fd
<1>3. c \in Conn /\ nconn' = c /\ c \in 0..MaxConn
  BY SizesAssumption, SMTT(30) DEF Inv, TypeOK, KernelAccept, Conn
<1>4. fdtab' \in [Fd -> Conn \cup {NoConn}]
  BY <1>3 DEF Inv, TypeOK, KernelAccept
<1>5. Post(i, e)
  BY <1>1
<1>6. d \in Cqe /\ d.op = ops[i].op /\ d.ch = ops[i].ch /\ d.res = f
  <2>1. more \in BOOLEAN
    BY MoreFlagsType
  <2> QED
    BY <1>1, <1>2, <2>1 DEF Op, Cqe, CqeOf
<1> HIDE DEF c, d
<1>7. /\ e \in Cqe /\ e.op = ops[i].op /\ e.ch = ops[i].ch /\ e.op = "accept"
      /\ e.res = f /\ e.conn = c
  BY <1>1, <1>3, <1>6 DEF Cqe
<1> HIDE DEF e
<1>8. Accepted(e)
  BY <1>3, <1>7 DEF Accepted
<1>9. /\ UNCHANGED <<user, sq, flushed, kbatch, avail, shut, recvd, eof, wire>> /\ KeepReuse
  BY DEF KernelAccept
<1> QED
  BY <1>3, <1>4, <1>5, <1>7, <1>8, <1>9, PostStep DEF Inv, TypeOK

\* The completions that carry an error or the end of the stream.
LEMMA KernelFailureKeeps ==
  ASSUME Inv, NEW c \in Conn,
         \/ KernelAcceptError \/ KernelRecvEnd(c) \/ KernelRecvNoBufs(c)
         \/ KernelWriteFail(c)
  PROVE  Inv'
<1>1. PICK i \in DOMAIN ops, n \in {-1, 0} :
        /\ Post(i, CqeOf(ops[i], n, FALSE, <<>>))
        /\ ops[i].op = "accept" => n = -1
        /\ ops[i].op # "wakeup"
  BY DEF KernelAcceptError, KernelRecvEnd, KernelRecvNoBufs, KernelWriteFail
<1> DEFINE e == CqeOf(ops[i], n, FALSE, <<>>)
<1>2. ops[i] \in Op /\ n \in Int /\ <<>> \in Seq(Unit) /\ FALSE \in BOOLEAN
  BY SMTT(30) DEF Inv, TypeOK
<1>3. /\ e \in Cqe /\ e.op = ops[i].op /\ e.ch = ops[i].ch /\ e.conn = ops[i].conn
      /\ e.res = n
  BY <1>1, <1>2, CqeOfType
<1>4. Post(i, e)
  BY <1>1
<1> HIDE DEF e
<1>5. Accepted(e)
  BY <1>1, <1>3, SMTT(30) DEF Accepted
<1>6. /\ UNCHANGED <<user, sq, flushed, kbatch, avail, fdtab, shut, nconn, recvd, wire>>
      /\ eof' \in {eof, eof \cup {c}} /\ KeepReuse
  BY DEF KernelAcceptError, KernelRecvEnd, KernelRecvNoBufs, KernelWriteFail
<1>7. eof' \in SUBSET Conn
  BY <1>6 DEF Inv, TypeOK
<1> QED
  BY <1>3, <1>4, <1>5, <1>6, <1>7, PostStep DEF Inv, TypeOK

\* Data arrives.
LEMMA KernelRecvKeeps ==
  ASSUME Inv, NEW c \in Conn, NEW more \in MoreFlags, KernelRecv(c, more)
  PROVE  Inv'
<1>1. PICK i \in DOMAIN ops :
        /\ ops[i].op = "recv"
        /\ Post(i, CqeOf(ops[i], 1, more, <<UnitOf(c, recvd[c] + 1)>>))
  BY DEF KernelRecv
<1> DEFINE n == recvd[c] + 1
           data == <<UnitOf(c, n)>>
           e == CqeOf(ops[i], 1, more, data)
<1>2. n \in 1..MaxData
  <2>1. recvd \in [Conn -> 0..MaxData]
    BY DEF Inv, TypeOK
  <2>2. recvd[c] < MaxData
    BY DEF KernelRecv
  <2> QED
    BY <2>1, <2>2, SizesAssumption, SMTT(30)
<1>3. recvd' \in [Conn -> 0..MaxData] /\ avail' \in Nat
  <2>1. recvd' = [recvd EXCEPT ![c] = n] /\ recvd \in [Conn -> 0..MaxData]
    BY DEF Inv, TypeOK, KernelRecv
  <2>2. n \in 0..MaxData
    BY <1>2, SMTT(30)
  <2> HIDE DEF n
  <2> QED
    BY <2>1, <2>2, SMTT(30) DEF Inv, TypeOK, KernelRecv
<1>4. Post(i, e)
  BY <1>1
<1> HIDE DEF n
<1>5. UnitOf(c, n) \in Unit
  BY <1>2, SizesAssumption, SMTT(30) DEF UnitOf, Unit
<1>6. ops[i] \in Op /\ data \in Seq(Unit) /\ 1 \in Int
  BY <1>5, SMTT(30) DEF Inv, TypeOK
<1> HIDE DEF data
<1>7. /\ e \in Cqe /\ e.op = ops[i].op /\ e.ch = ops[i].ch /\ e.conn = ops[i].conn
  <2>1. more \in BOOLEAN
    BY MoreFlagsType
  <2> QED
    BY <1>1, <1>6, <2>1 DEF Op, Cqe, CqeOf
<1> HIDE DEF e
<1>8. Accepted(e)
  BY <1>1, <1>7 DEF Accepted
<1>9. UNCHANGED <<user, sq, flushed, kbatch, fdtab, shut, nconn, eof, wire>> /\ KeepReuse
  BY DEF KernelRecv
<1> QED
  BY <1>3, <1>4, <1>7, <1>8, <1>9, PostStep DEF Inv, TypeOK

\* A write completes, wholly or in part.
LEMMA KernelWriteKeeps ==
  ASSUME Inv, NEW c \in Conn, NEW n \in 1..WriteCap, KernelWrite(c, n)
  PROVE  Inv'
<1>1. PICK i \in DOMAIN ops :
        /\ ops[i].op = "write"
        /\ Post(i, CqeOf(ops[i], n, FALSE, <<>>))
  BY DEF KernelWrite
<1> DEFINE e == CqeOf(ops[i], n, FALSE, <<>>)
           m == wire[c] + n
<1>2. ops[i] \in Op /\ n \in Nat /\ n \in Int /\ <<>> \in Seq(Unit)
  BY SizesAssumption, SMTT(30) DEF Inv, TypeOK
<1>3. /\ e \in Cqe /\ e.op = ops[i].op /\ e.ch = ops[i].ch /\ e.conn = ops[i].conn
  BY <1>1, <1>2, CqeOfType
<1>4. Post(i, e)
  BY <1>1
<1> HIDE DEF e
<1>5. Accepted(e)
  BY <1>1, <1>3 DEF Accepted
<1>6. wire' \in [Conn -> Nat]
  <2>1. wire \in [Conn -> Nat] /\ wire' = [wire EXCEPT ![c] = m]
    BY DEF Inv, TypeOK, KernelWrite
  <2>2. m \in Nat
    BY <1>2, <2>1, SMTT(30)
  <2> HIDE DEF m
  <2> QED
    BY <2>1, <2>2
<1>7. UNCHANGED <<user, sq, flushed, kbatch, avail, fdtab, shut, nconn, recvd, eof>> /\ KeepReuse
  BY DEF KernelWrite
<1> QED
  BY <1>3, <1>4, <1>5, <1>6, <1>7, PostStep DEF Inv, TypeOK
-----------------------------------------------------------------------------
\* The worker starts with every channel in the pool, and with the accept and
\* the wake-up prepared.
LEMMA InitInv == Init => Inv
<1> SUFFICES ASSUME Init PROVE Inv
  OBVIOUS
<1>1. <<>> \in Seq(Unit)
  BY SMTT(30)
<1>2. NewChannel \in Channel
  BY <1>1, SMTT(30) DEF NewChannel, Channel, ReadState, WriteState
<1>3. AcceptSqe \in Sqe /\ WakeupSqe \in Sqe
  BY <1>1 DEF AcceptSqe, WakeupSqe, Sqe
<1>4. /\ sq \in Seq(Sqe) /\ Len(sq) = 2 /\ Range(sq) = {AcceptSqe, WakeupSqe}
      /\ Range(ops) = {} /\ Range(cq) = {} /\ Range(pending_reads) = {}
  BY <1>3, SMTT(30) DEF Init, Range
<1>5. free_queue \in Seq(Chan) /\ IsInjective(free_queue) /\ Range(free_queue) = Chan
  <2>1. free_queue = [i \in 1..PoolSize |-> i] /\ PoolSize \in Nat
    BY SizesAssumption DEF Init
  <2> QED
    BY <2>1, SMTT(30) DEF Range, IsInjective, Chan
<1>6. TypeOK
  <2>1. chan \in [Chan -> Channel]
    BY <1>2 DEF Init
  <2>2. /\ pending_reads \in Seq(Chan) /\ ops \in Seq(Op) /\ cq \in Seq(Cqe)
        /\ avail \in Nat /\ flushed \in Nat /\ left \in Nat /\ nconn \in 0..MaxConn
    BY SizesAssumption, SMTT(30) DEF Init
  <2>3. /\ recvd \in [Conn -> 0..MaxData] /\ wire \in [Conn -> Nat]
        /\ fdtab \in [Fd -> Conn \cup {NoConn}]
    BY SizesAssumption, SMTT(30) DEF Init
  <2>4. kbatch \in [left: Nat, taken: Nat]
    BY SMTT(30) DEF Init
  <2> QED
    BY <1>4, <1>5, <2>1, <2>2, <2>3, <2>4 DEF Init, TypeOK
<1>7. Ring = {AcceptSqe, WakeupSqe}
  BY <1>4 DEF Ring
<1>8. ~NameReuse
  <2>1. \A h \in Chan : ~Busy(h)
    BY <1>7, SizesAssumption, SMTT(30) DEF Busy, AcceptSqe, WakeupSqe, Chan, NoChan
  <2> QED
    BY <1>4, <2>1, SMTT(30) DEF NameReuse, AcceptSqe, WakeupSqe
<1>9. \A h \in Chan : chan[h] = NewChannel
  BY DEF Init
<1>10. ClosedHasNoFd /\ NoLostWakeup
  BY <1>9, SMTT(30) DEF ClosedHasNoFd, NoLostWakeup, NewChannel
<1>11. PendingReadsExact
  <2>1. IsInjective(pending_reads)
    BY SMTT(30) DEF Init, IsInjective
  <2> QED
    BY <1>4, <1>9, <2>1, SMTT(30) DEF PendingReadsExact, NewChannel
<1>12. OwnCompletions /\ \A x \in Ring : Formed(x)
  BY <1>7, SMTT(30) DEF OwnCompletions, AcceptSqe, WakeupSqe, Formed, Control
<1>13. PoolSound
  BY <1>5, <1>9, SMTT(30) DEF PoolSound, NewChannel
<1>14. flushed <= Len(sq) /\ \A e \in Range(cq) : Accepted(e)
  BY <1>4, SMTT(30) DEF Init
<1> QED
  BY <1>6, <1>8, <1>10, <1>11, <1>12, <1>13, <1>14 DEF Inv

\* No step of the worker or the kernel breaks the invariant.
LEMMA NextInv == Inv /\ [Next]_vars => Inv'
<1> SUFFICES ASSUME Inv, [Next]_vars PROVE Inv'
  OBVIOUS
<1>1. CASE RingSubmit \/ PeekBatch \/ BatchDone \/ ReadsDone
  BY <1>1, LoopKeeps
<1>2. CASE AcceptFailed \/ AcceptTerminates
  BY <1>2, AcceptFailedKeeps
<1>3. CASE AcceptDrop
  BY <1>3, AcceptDropKeeps
<1>4. CASE AcceptAssign
  BY <1>4, AcceptAssignKeeps
<1>5. CASE CompleteChannel
  BY <1>5, CompleteChannelKeeps
<1>6. CASE BatchRead
  BY <1>6, BatchReadKeeps
<1>7. CASE Kernel
  <2>1. CASE KernelTake
    BY <2>1, KernelTakeKeeps
  <2>2. ASSUME NEW f \in Fd, NEW more \in MoreFlags, KernelAccept(f, more)
        PROVE  Inv'
    BY <2>2, KernelAcceptKeeps
  <2>3. CASE KernelAcceptError
    <3>1. 1 \in Conn
      BY <2>3, SizesAssumption, SMTT(30) DEF KernelAcceptError, Inv, TypeOK, Conn
    <3> QED
      BY <2>3, <3>1, KernelFailureKeeps
  <2>4. ASSUME NEW c \in Conn,
               KernelRecvEnd(c) \/ KernelRecvNoBufs(c) \/ KernelWriteFail(c)
        PROVE  Inv'
    BY <2>4, KernelFailureKeeps
  <2>5. ASSUME NEW c \in Conn, NEW more \in MoreFlags, KernelRecv(c, more)
        PROVE  Inv'
    BY <2>5, KernelRecvKeeps
  <2>6. ASSUME NEW c \in Conn, NEW n \in 1..WriteCap, KernelWrite(c, n)
        PROVE  Inv'
    BY <2>6, KernelWriteKeeps
  <2> QED
    BY <1>7, <2>1, <2>2, <2>3, <2>4, <2>5, <2>6 DEF Kernel
<1>8. CASE UNCHANGED vars
  <2>1. /\ UNCHANGED <<chan, free_queue, pending_reads, acceptor, phase, left, sq, flushed>>
        /\ UNCHANGED <<kbatch, ops, cq, avail, fdtab, nconn, recvd, eof, shut, wire, reused>>
    BY <1>8 DEF vars, user, kernel
  <2>2. TypeOK' /\ flushed' <= Len(sq') /\ \A e \in Range(cq') : Accepted(e)
    BY <2>1 DEF Inv, TypeOK
  <2>3. Ring' = Ring /\ NameReuse' = NameReuse
    BY <2>1 DEF Ring, NameReuse, InPool, Busy
  <2>4. Derived /\ KeepReuse
    BY <2>1, <2>3 DEF Derived, KeepReuse, Inv, TypeOK
  <2> QED
    BY <2>1, <2>2, <2>4, RingStep
<1> QED
  BY <1>1, <1>2, <1>3, <1>4, <1>5, <1>6, <1>7, <1>8 DEF Next, Worker

\* Every variable keeps its type: in particular no handler of the run loop
\* (src/src/core/io_thread.cpp) takes a CQE that is not there.
THEOREM TypeCorrect == Spec => []TypeOK
<1>1. Inv => TypeOK
  BY DEF Inv
<1> QED
  BY <1>1, InitInv, NextInv, PTL DEF Spec

\* TcpChannelPool's free queue names no channel twice and no channel that has
\* a socket, as long as no name the ring holds became available to a second
\* connection (TcpChannelPool::acquire and release, TcpChannel::on_drained).
THEOREM PoolIsSound == Spec => []PoolSound
<1>1. Inv => PoolSound
  BY DEF Inv
<1> QED
  BY <1>1, InitInv, NextInv, PTL DEF Spec

\* A writer parked on its NotifyToken has neither data to send nor an unseen
\* notification, unconditionally (NotifyToken::notify, tcp_write_loop).
THEOREM WakeupsAreNotLost == Spec => []NoLostWakeup
<1>1. Inv => NoLostWakeup
  BY DEF Inv
<1> QED
  BY <1>1, InitInv, NextInv, PTL DEF Spec

\* pending_reads_ names exactly the channels marked for it, once each
\* (TcpThread::mark_pending_read, on_batch_done).
THEOREM PendingReadsAreExact == Spec => []PendingReadsExact
<1>1. Inv => PendingReadsExact
  BY DEF Inv
<1> QED
  BY <1>1, InitInv, NextInv, PTL DEF Spec
=============================================================================
