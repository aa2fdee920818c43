--------------------------- MODULE MpscQueueProofs ---------------------------
(***************************************************************************)
(* MPSCQueue for every set of producers and every capacity: no data race,  *)
(* and it implements ClaimQueue.                                           *)
(***************************************************************************)
EXTENDS MpscQueue, SequenceTheorems, TLAPS

\* Positions that are Capacity apart share a slot, positions of one lap do not.
LEMMA SlotFacts ==
  /\ \A a \in Nat : SlotOf(a) \in Slot /\ SlotOf(a + Capacity) = SlotOf(a)
  /\ \A h, a, b \in Nat :
       h <= a /\ h <= b /\ a < h + Capacity /\ b < h + Capacity /\ SlotOf(a) = SlotOf(b)
         => a = b
<1>1. Capacity \in Nat /\ Capacity > 1
  BY QueueAssumption
<1>2. ASSUME NEW a \in Nat
      PROVE  /\ a \div Capacity \in Nat /\ a % Capacity \in 0..(Capacity - 1)
             /\ a = Capacity * (a \div Capacity) + (a % Capacity)
  BY <1>1
<1>3. ASSUME NEW a \in Nat, NEW q \in Nat, NEW r \in 0..(Capacity - 1), a = Capacity * q + r
      PROVE  a % Capacity = r
  BY <1>1, <1>3
<1>4. ASSUME NEW a \in Nat
      PROVE  SlotOf(a) \in Slot /\ SlotOf(a + Capacity) = SlotOf(a)
  <2>1. a + Capacity = Capacity * ((a \div Capacity) + 1) + (a % Capacity)
    BY <1>1, <1>2
  <2>2. (a \div Capacity) + 1 \in Nat /\ a % Capacity \in 0..(Capacity - 1) /\ a + Capacity \in Nat
    BY <1>1, <1>2
  <2>3. (a + Capacity) % Capacity = a % Capacity
    BY <1>3, <2>1, <2>2
  <2> QED
    BY <2>2, <2>3 DEF SlotOf, Slot
<1>5. ASSUME NEW h \in Nat, NEW a \in Nat, NEW b \in Nat,
             h <= a, h <= b, a < h + Capacity, b < h + Capacity, SlotOf(a) = SlotOf(b)
      PROVE  a = b
  <2> DEFINE p == a \div Capacity
             q == b \div Capacity
  <2>1. p \in Nat /\ q \in Nat /\ a - b = Capacity * (p - q)
    BY <1>1, <1>2, <1>5 DEF SlotOf
  <2> HIDE DEF p, q
  <2>2. a - b < Capacity /\ b - a < Capacity
    BY <1>1, <1>5
  <2>3. ~(p - q >= 1)
    BY <1>1, <2>1, <2>2
  <2>4. ~(q - p >= 1)
    BY <1>1, <2>1, <2>2
  <2> QED
    BY <1>1, <2>1, <2>3, <2>4
<1> QED
  BY <1>4, <1>5


\* Every slot has a position in every lap.
LEMMA LapCovers ==
  ASSUME NEW h \in Nat, NEW b \in Nat
  PROVE  \E a \in Nat : h <= a /\ a < h + Capacity /\ SlotOf(a) = SlotOf(b)
<1>1. Capacity \in Nat /\ Capacity > 1
  BY QueueAssumption
<1> DEFINE r == b % Capacity
           s == h % Capacity
           q == h \div Capacity
           a == IF r >= s THEN Capacity * q + r ELSE Capacity * (q + 1) + r
<1>2. r \in 0..(Capacity - 1) /\ s \in 0..(Capacity - 1) /\ q \in Nat /\ h = Capacity * q + s
  BY <1>1
<1> HIDE DEF r, s, q
<1>3. a \in Nat /\ h <= a /\ a < h + Capacity
  BY <1>1, <1>2
<1>4. \E n \in Nat : a = Capacity * n + r
  BY <1>2
<1> HIDE DEF a
<1>5. a % Capacity = r
  BY <1>1, <1>2, <1>3, <1>4
<1> QED
  BY <1>3, <1>5 DEF SlotOf, r
-----------------------------------------------------------------------------
Claims(p, pos) == prod[p].pc \in {"write", "publish"} /\ prod[p].pos = pos

Window(pos) == head <= pos /\ pos < head + Capacity

\* A position of the current lap is free, claimed or holds its item, and the
\* number of its slot tells which; a claimed one and a free one look the same.
Position(pos) ==
  \/ tail <= pos /\ seq[SlotOf(pos)] = pos
  \/ pos < tail /\ seq[SlotOf(pos)] = pos /\ \E p \in Producer : Claims(p, pos)
  \/ pos < tail /\ seq[SlotOf(pos)] = pos + 1 /\ data[SlotOf(pos)] \in Item

\* A producer that has claimed owns its position; one about to claim the next
\* position has seen that its slot is free, and it stays free.
Owner(p) ==
  LET r == prod[p] IN
  /\ r.pc \in {"write", "publish"} =>
       head <= r.pos /\ r.pos < tail /\ seq[SlotOf(r.pos)] = r.pos
  /\ r.pc = "publish" => data[SlotOf(r.pos)] = ItemOf(p)
  /\ r.pc \in {"check", "claim"} => r.pos <= tail
  /\ r.pc = "claim" /\ r.pos = tail => tail < head + Capacity
  /\ r.pc # "idle" => r.calls >= 1

Consumer ==
  /\ cons # "idle" => head < tail /\ seq[SlotOf(head)] = head + 1
  /\ cons = "free" => item = data[SlotOf(head)]

IInv ==
  /\ TypeOK
  /\ head <= tail /\ tail <= head + Capacity
  /\ \A pos \in Nat : Window(pos) => Position(pos)
  /\ \A p \in Producer : Owner(p)
  /\ \A p, r \in Producer : \A pos \in Nat : Claims(p, pos) /\ Claims(r, pos) => p = r
  /\ Consumer

\* The ring is not full when the slot of tail_ is free.
LEMMA FreeIsNotFull ==
  ASSUME IInv, seq[SlotOf(tail)] = tail
  PROVE  tail < head + Capacity
<1>1. SUFFICES ASSUME tail = head + Capacity PROVE FALSE
  BY QueueAssumption DEF IInv, TypeOK
<1>2. head \in Nat /\ SlotOf(tail) = SlotOf(head)
  BY <1>1, SlotFacts DEF IInv, TypeOK
<1>3. Position(head)
  BY <1>2, QueueAssumption DEF IInv, Window
<1> QED
  BY <1>1, <1>2, <1>3, QueueAssumption DEF Position

\* A slot seen to be occupied by an older position is the one of tail_, and the
\* ring is full.
LEMMA OccupiedIsFull ==
  ASSUME IInv, NEW pos \in Nat, pos <= tail, seq[SlotOf(pos)] - pos < 0
  PROVE  tail - head = Capacity
<1>1. /\ head \in Nat /\ tail \in Nat /\ Capacity \in Nat \ {0, 1} /\ tail <= head + Capacity
      /\ SlotOf(pos) \in Slot /\ seq[SlotOf(pos)] \in Nat
  BY QueueAssumption, SlotFacts DEF IInv, TypeOK
<1>2. pos >= head
  <2> SUFFICES ASSUME pos < head PROVE FALSE
    BY <1>1
  <2>1. PICK a \in Nat : Window(a) /\ SlotOf(a) = SlotOf(pos)
    BY <1>1, LapCovers, ZenonT(30) DEF Window
  <2>2. Position(a)
    BY <2>1 DEF IInv
  <2> QED
    BY <1>1, <2>1, <2>2 DEF Position, Window
<1>3. ~Window(pos)
  <2> SUFFICES ASSUME Window(pos) PROVE FALSE
    OBVIOUS
  <2>1. Position(pos)
    BY DEF IInv
  <2> QED
    BY <1>1, <2>1 DEF Position
<1> QED
  BY <1>1, <1>2, <1>3 DEF Window

\* A step of one producer in enqueue that touches neither the slots nor tail_.
LEMMA MovesKept ==
  ASSUME NEW p \in Producer, IInv, Enqueue(p) \/ LoadTail(p) \/ LoadSequence(p)
  PROVE  IInv'
<1>1. /\ UNCHANGED <<tail, head, seq, data, cons, item, got>>
      /\ prod \in [Producer -> [pc: {"idle", "load", "check", "claim", "write", "publish"},
                                pos: Nat, calls: 0..MaxItems]]
      /\ prod[p].pc \in {"idle", "load", "check"}
  BY DEF IInv, TypeOK, Enqueue, LoadTail, LoadSequence
<1>2. /\ \A r \in Producer : r # p => prod'[r] = prod[r]
      /\ prod'[p].pc \in {"idle", "load", "check", "claim"}
      /\ prod' \in [Producer -> [pc: {"idle", "load", "check", "claim", "write", "publish"},
                                pos: Nat, calls: 0..MaxItems]]
      /\ prod'[p].pc # "idle" => prod'[p].calls >= 1
  <2>1. CASE Enqueue(p)
    BY <1>1, <2>1, QueueAssumption DEF Enqueue
  <2>2. CASE LoadTail(p)
    BY <1>1, <2>2, ZenonT(30) DEF LoadTail, IInv, TypeOK, Owner
  <2>3. CASE LoadSequence(p)
    BY <1>1, <2>3 DEF LoadSequence, Goto, IInv, TypeOK, Owner
  <2> QED
    BY <2>1, <2>2, <2>3
<1>3. TypeOK'
  BY <1>1, <1>2 DEF IInv, TypeOK
<1>4. \A r \in Producer : \A pos \in Nat : Claims(r, pos)' <=> Claims(r, pos)
  BY <1>1, <1>2 DEF Claims
<1>5. \A pos \in Nat : Window(pos)' => Position(pos)'
  BY <1>1, <1>4 DEF IInv, Window, Position
<1>6. Owner(p)'
  <2>1. CASE Enqueue(p)
    BY <1>1, <1>2, <2>1 DEF Enqueue, Owner
  <2>2. CASE LoadTail(p)
    BY <1>1, <1>2, <2>2 DEF LoadTail, Owner, IInv, TypeOK
  <2>3. CASE LoadSequence(p)
    <3>1. prod'[p].pos = prod[p].pos /\ prod[p].pos <= tail
          /\ (prod'[p].pc = "claim" => seq[SlotOf(prod[p].pos)] = prod[p].pos)
      <4>1. prod[p].pos \in Nat /\ SlotOf(prod[p].pos) \in Slot /\ seq \in [Slot -> Nat]
        BY <1>1, SlotFacts DEF IInv, TypeOK
      <4>2. prod'[p].pos = prod[p].pos
            /\ (prod'[p].pc = "claim" => seq[SlotOf(prod[p].pos)] - prod[p].pos = 0)
        BY <1>1, <2>3 DEF LoadSequence, Goto
      <4>3. prod[p].pos <= tail
        BY <2>3 DEF LoadSequence, IInv, Owner
      <4>4. seq[SlotOf(prod[p].pos)] \in Nat
        BY <4>1
      <4> QED
        BY <4>1, <4>2, <4>3, <4>4
    <3>2. seq[SlotOf(tail)] = tail => tail < head + Capacity
      BY FreeIsNotFull
    <3> QED
      BY <1>1, <1>2, <3>1, <3>2 DEF Owner
  <2> QED
    BY <2>1, <2>2, <2>3
<1>7. \A r \in Producer : Owner(r)'
  BY <1>1, <1>2, <1>6, ZenonT(30) DEF IInv, Owner, ItemOf
<1>8. Consumer'
  BY <1>1 DEF IInv, Consumer
<1> QED
  BY <1>1, <1>3, <1>4, <1>5, <1>7, <1>8 DEF IInv

\* A successful compare-and-exchange makes the producer the owner of tail_;
\* whoever holds the old value of tail_ will fail.
LEMMA ClaimKept ==
  ASSUME NEW p \in Producer, IInv, Claim(p)
  PROVE  IInv'
<1>1. /\ UNCHANGED <<head, seq, data, cons, item, got>>
      /\ \A r \in Producer : r # p => prod'[r] = prod[r]
      /\ prod'[p].pos = prod[p].pos /\ prod'[p].calls = prod[p].calls
      /\ prod[p].pc = "claim" /\ prod[p].pos \in Nat
      /\ \/ tail' = tail /\ prod'[p].pc = "load"
         \/ tail' = tail + 1 /\ prod'[p].pc = "write" /\ prod[p].pos = tail
      /\ TypeOK'
  <2>1. CASE Goto(p, "load") /\ UNCHANGED tail
    BY <2>1, QueueAssumption DEF IInv, TypeOK, Claim, Goto
  <2>2. CASE tail = prod[p].pos /\ tail' = tail + 1 /\ Goto(p, "write")
    BY <2>2, QueueAssumption DEF IInv, TypeOK, Claim, Goto
  <2> QED
    BY <2>1, <2>2 DEF Claim
<1>2. head \in Nat /\ tail \in Nat /\ Capacity \in Nat
  BY QueueAssumption DEF IInv, TypeOK
<1>3. head' <= tail' /\ tail' <= head' + Capacity
  BY <1>1, <1>2 DEF IInv, Owner
<1>4. tail' # tail => seq[SlotOf(tail)] = tail /\ Window(tail)
  BY <1>1, <1>2 DEF IInv, Owner, Window, Position
<1>5. \A r \in Producer : \A pos \in Nat :
        Claims(r, pos)' <=> Claims(r, pos) \/ (r = p /\ pos = tail /\ tail' # tail)
  BY <1>1, <1>2 DEF Claims
<1>6. ASSUME NEW pos \in Nat, Window(pos)' PROVE Position(pos)'
  <2>1. Window(pos) /\ Position(pos)
    BY <1>1, <1>6 DEF IInv, Window
  <2> QED
    BY <1>1, <1>2, <1>5, <2>1 DEF Position
<1>7. ASSUME NEW r \in Producer PROVE Owner(r)'
  <2>1. Owner(r) /\ prod[r].pos \in Nat
    BY DEF IInv, TypeOK
  <2>2. CASE r = p
    BY <1>1, <1>2, <1>4, <2>1, <2>2 DEF Owner, Window
  <2>3. CASE r # p
    BY <1>1, <1>2, <2>1, <2>3 DEF Owner, ItemOf
  <2> QED
    BY <2>2, <2>3
<1>8. \A r, q \in Producer : \A pos \in Nat : Claims(r, pos)' /\ Claims(q, pos)' => r = q
  <2>1. \A r \in Producer : ~Claims(r, tail)
    BY <1>2 DEF IInv, Claims, Owner
  <2> QED
    BY <1>5, <2>1 DEF IInv
<1>9. Consumer'
  BY <1>1, <1>2 DEF IInv, Consumer
<1> QED
  BY <1>1, <1>3, <1>6, <1>7, <1>8, <1>9 DEF IInv

\* The owner of a position writes to its slot, which is nobody else's.
LEMMA WriteKept ==
  ASSUME NEW p \in Producer, IInv, WriteData(p)
  PROVE  IInv'
<1>1. /\ UNCHANGED <<tail, head, seq, cons, item, got>>
      /\ \A r \in Producer : r # p => prod'[r] = prod[r]
      /\ prod'[p].pos = prod[p].pos /\ prod'[p].calls = prod[p].calls
      /\ prod[p].pc = "write" /\ prod'[p].pc = "publish"
      /\ prod[p].pos \in Nat /\ Claims(p, prod[p].pos)
      /\ prod' \in [Producer -> [pc: {"idle", "load", "check", "claim", "write", "publish"},
                                pos: Nat, calls: 0..MaxItems]]
  BY DEF IInv, TypeOK, WriteData, Goto, Claims
<1>2. /\ head \in Nat /\ tail \in Nat /\ Capacity \in Nat
      /\ SlotOf(prod[p].pos) \in Slot
      /\ head <= prod[p].pos /\ prod[p].pos < tail
      /\ seq[SlotOf(prod[p].pos)] = prod[p].pos
      /\ prod[p].calls \in 1..MaxItems
  BY <1>1, QueueAssumption, SlotFacts DEF IInv, TypeOK, Owner
<1>3. ItemOf(p) \in Item /\ ItemOf(p)' = ItemOf(p)
  BY <1>1, <1>2 DEF ItemOf, Item
<1>4. /\ data' \in [Slot -> Item \cup {Nothing}]
      /\ data'[SlotOf(prod[p].pos)] = ItemOf(p)
      /\ \A s \in Slot : s # SlotOf(prod[p].pos) => data'[s] = data[s]
  BY <1>2, <1>3 DEF IInv, TypeOK, WriteData
<1>5. \A r \in Producer : \A pos \in Nat : Claims(r, pos)' <=> Claims(r, pos)
  BY <1>1 DEF Claims
<1>6. ASSUME NEW pos \in Nat, Window(pos)' PROVE Position(pos)'
  <2>1. Window(pos) /\ Position(pos) /\ SlotOf(pos) \in Slot
    BY <1>1, <1>6, SlotFacts DEF IInv, Window
  <2> QED
    BY <1>1, <1>3, <1>4, <1>5, <2>1 DEF Position
<1>7. ASSUME NEW r \in Producer PROVE Owner(r)'
  <2>1. Owner(r) /\ prod[r].pos \in Nat
    BY DEF IInv, TypeOK
  <2>2. CASE r = p
    BY <1>1, <1>2, <1>3, <1>4, <2>1, <2>2 DEF Owner
  <2>3. CASE r # p /\ prod[r].pc # "publish"
    BY <1>1, <1>2, <2>1, <2>3 DEF Owner
  <2>4. CASE r # p /\ prod[r].pc = "publish"
    <3>1. Claims(r, prod[r].pos) /\ head <= prod[r].pos /\ prod[r].pos < tail
      BY <2>1, <2>4 DEF Claims, Owner
    <3>2. prod[r].pos # prod[p].pos
      BY <1>1, <2>1, <2>4, <3>1 DEF IInv
    <3>3. SlotOf(prod[r].pos) # SlotOf(prod[p].pos) /\ SlotOf(prod[r].pos) \in Slot
      <4>1. prod[r].pos < head + Capacity /\ prod[p].pos < head + Capacity
        BY <1>2, <2>1, <3>1, <1>1 DEF IInv
      <4> QED
        BY <1>1, <1>2, <2>1, <3>1, <3>2, <4>1, SlotFacts
    <3> QED
      BY <1>1, <1>4, <2>1, <2>4, <3>3 DEF Owner, ItemOf
  <2> QED
    BY <2>2, <2>3, <2>4
<1>8. Consumer'
  <2>1. cons # "idle" => SlotOf(head) # SlotOf(prod[p].pos) /\ SlotOf(head) \in Slot
    BY <1>2, SlotFacts DEF IInv, Consumer
  <2> QED
    BY <1>1, <1>4, <2>1 DEF IInv, Consumer
<1>9. TypeOK'
  BY <1>1, <1>4 DEF IInv, TypeOK
<1> QED
  BY <1>1, <1>5, <1>6, <1>7, <1>8, <1>9 DEF IInv

\* Two positions of the current lap have different slots.
LEMMA Apart ==
  ASSUME IInv, NEW a \in Nat, NEW b \in Nat, Window(a), Window(b), a # b
  PROVE  SlotOf(a) # SlotOf(b) /\ SlotOf(a) \in Slot /\ SlotOf(b) \in Slot
<1>1. head \in Nat /\ Capacity \in Nat
  BY QueueAssumption DEF IInv, TypeOK
<1> QED
  BY <1>1, SlotFacts DEF Window

\* The owner hands its position over to the consumer.
LEMMA PublishKept ==
  ASSUME NEW p \in Producer, IInv, Publish(p)
  PROVE  IInv'
<1> DEFINE mine == prod[p].pos
<1>1. /\ UNCHANGED <<tail, head, data, cons, item, got>>
      /\ \A r \in Producer : r # p => prod'[r] = prod[r]
      /\ prod'[p].pos = mine /\ prod'[p].calls = prod[p].calls
      /\ prod[p].pc = "publish" /\ prod'[p].pc = "idle"
      /\ mine \in Nat /\ Claims(p, mine)
      /\ prod' \in [Producer -> [pc: {"idle", "load", "check", "claim", "write", "publish"},
                                pos: Nat, calls: 0..MaxItems]]
  BY DEF IInv, TypeOK, Publish, Goto, Claims
<1>2. /\ head \in Nat /\ tail \in Nat /\ Capacity \in Nat
      /\ SlotOf(mine) \in Slot /\ seq \in [Slot -> Nat]
      /\ head <= mine /\ mine < tail /\ Window(mine)
      /\ seq[SlotOf(mine)] = mine /\ data[SlotOf(mine)] = ItemOf(p)
      /\ prod[p].calls \in 1..MaxItems
  BY <1>1, QueueAssumption, SlotFacts DEF IInv, TypeOK, Owner, Window
<1>3. ItemOf(p) \in Item
  BY <1>2 DEF ItemOf, Item
<1>4. /\ seq' \in [Slot -> Nat] /\ seq'[SlotOf(mine)] = mine + 1
      /\ \A s \in Slot : s # SlotOf(mine) => seq'[s] = seq[s]
  BY <1>1, <1>2 DEF Publish
<1>5. \A r \in Producer : \A pos \in Nat : Claims(r, pos)' <=> Claims(r, pos) /\ r # p
  BY <1>1 DEF Claims
<1> HIDE DEF mine
<1>6. ASSUME NEW pos \in Nat, Window(pos)' PROVE Position(pos)'
  <2>1. Window(pos) /\ Position(pos)
    BY <1>1, <1>6 DEF IInv, Window
  <2>2. CASE pos = mine
    BY <1>1, <1>2, <1>3, <1>4, <2>2 DEF Position
  <2>3. CASE pos # mine
    <3>1. seq'[SlotOf(pos)] = seq[SlotOf(pos)]
      BY <1>1, <1>2, <1>4, <2>1, <2>3, Apart
    <3>2. ~Claims(p, pos)
      BY <1>1, <2>3 DEF Claims, mine
    <3> QED
      BY <1>1, <1>5, <2>1, <3>1, <3>2 DEF Position
  <2> QED
    BY <2>2, <2>3
<1>7. ASSUME NEW r \in Producer PROVE Owner(r)'
  <2>1. Owner(r) /\ prod[r].pos \in Nat
    BY DEF IInv, TypeOK
  <2>2. CASE r = p
    BY <1>1, <2>2 DEF Owner
  <2>3. CASE r # p /\ prod[r].pc \notin {"write", "publish"}
    BY <1>1, <1>2, <2>1, <2>3 DEF Owner
  <2>4. CASE r # p /\ prod[r].pc \in {"write", "publish"}
    <3>1. Claims(r, prod[r].pos) /\ Window(prod[r].pos)
      BY <1>2, <2>1, <2>4 DEF Claims, Owner, Window, IInv
    <3>2. prod[r].pos # mine
      BY <1>1, <2>1, <2>4, <3>1 DEF IInv
    <3>3. seq'[SlotOf(prod[r].pos)] = seq[SlotOf(prod[r].pos)]
      BY <1>1, <1>2, <1>4, <2>1, <3>1, <3>2, Apart
    <3> QED
      BY <1>1, <2>1, <2>4, <3>3 DEF Owner, ItemOf
  <2> QED
    BY <2>2, <2>3, <2>4
<1>8. Consumer'
  <2>1. ASSUME cons # "idle" PROVE seq'[SlotOf(head)] = seq[SlotOf(head)]
    <3>1. head # mine /\ Window(head) /\ mine \in Nat
      BY <1>1, <1>2, <2>1, QueueAssumption DEF IInv, Consumer, Window
    <3> QED
      BY <1>2, <1>4, <3>1, Apart
  <2> QED
    BY <1>1, <2>1 DEF IInv, Consumer
<1>9. TypeOK'
  BY <1>1, <1>4 DEF IInv, TypeOK
<1> QED
  BY <1>1, <1>5, <1>6, <1>7, <1>8, <1>9 DEF IInv

\* dequeue looks at the oldest position, then copies its item.
LEMMA LookKept ==
  ASSUME IInv, LoadHead \/ CopyData
  PROVE  IInv'
<1>1. UNCHANGED <<tail, head, seq, data, prod>>
  BY DEF LoadHead, CopyData
<1>2. head \in Nat /\ tail \in Nat /\ Capacity \in Nat \ {0, 1} /\ SlotOf(head) \in Slot
  BY QueueAssumption, SlotFacts DEF IInv, TypeOK
<1>3. Position(head)
  BY <1>2 DEF IInv, Window
<1>4. TypeOK'
  BY <1>1, <1>2 DEF IInv, TypeOK, LoadHead, CopyData
<1>5. Consumer'
  <2>1. CASE LoadHead
    BY <1>1, <1>2, <1>3, <2>1 DEF LoadHead, Consumer, Position
  <2>2. CASE CopyData
    BY <1>1, <2>2 DEF CopyData, Consumer, IInv
  <2> QED
    BY <2>1, <2>2
<1>6. \A pos \in Nat : Window(pos)' => Position(pos)'
  BY <1>1 DEF IInv, Window, Position, Claims
<1>7. \A r \in Producer : Owner(r)'
  BY <1>1 DEF IInv, Owner, ItemOf
<1> QED
  BY <1>1, <1>4, <1>5, <1>6, <1>7 DEF IInv, Claims

\* The freed slot is the one of the position that enters the lap.
LEMMA FreeKept ==
  ASSUME IInv, FreeSlot
  PROVE  IInv'
<1>1. /\ UNCHANGED <<tail, data, prod, item>>
      /\ head' = head + 1 /\ cons' = "idle" /\ got' = item
      /\ head \in Nat /\ tail \in Nat /\ Capacity \in Nat \ {0, 1}
      /\ head < tail /\ tail <= head + Capacity
      /\ SlotOf(head) \in Slot /\ Window(head) /\ seq[SlotOf(head)] = head + 1
      /\ SlotOf(head + Capacity) = SlotOf(head)
  BY QueueAssumption, SlotFacts DEF FreeSlot, IInv, TypeOK, Consumer, Window
<1>2. /\ seq' \in [Slot -> Nat] /\ seq'[SlotOf(head)] = head + Capacity
      /\ \A s \in Slot : s # SlotOf(head) => seq'[s] = seq[s]
  BY <1>1 DEF FreeSlot, IInv, TypeOK
<1>3. \A r \in Producer : \A pos \in Nat : Claims(r, pos)' <=> Claims(r, pos)
  BY <1>1 DEF Claims
<1>4. ASSUME NEW pos \in Nat, Window(pos), pos # head
      PROVE  seq'[SlotOf(pos)] = seq[SlotOf(pos)]
  BY <1>1, <1>2, <1>4, Apart
<1>5. ASSUME NEW pos \in Nat, Window(pos)' PROVE Position(pos)'
  <2>1. CASE pos = head + Capacity
    BY <1>1, <1>2, <2>1 DEF Position
  <2>2. CASE pos # head + Capacity
    <3>1. Window(pos) /\ pos # head
      BY <1>1, <1>5, <2>2 DEF Window
    <3>2. Position(pos)
      BY <3>1 DEF IInv
    <3> QED
      BY <1>1, <1>3, <1>4, <3>1, <3>2 DEF Position
  <2> QED
    BY <2>1, <2>2
<1>6. ASSUME NEW r \in Producer PROVE Owner(r)'
  <2>1. Owner(r) /\ prod[r].pos \in Nat
    BY DEF IInv, TypeOK
  <2>2. CASE prod[r].pc \notin {"write", "publish"}
    BY <1>1, <2>1, <2>2 DEF Owner
  <2>3. CASE prod[r].pc \in {"write", "publish"}
    <3>1. Window(prod[r].pos) /\ prod[r].pos # head
      BY <1>1, <2>1, <2>3 DEF Owner, Window
    <3> QED
      BY <1>1, <1>4, <2>1, <2>3, <3>1 DEF Owner, ItemOf
  <2> QED
    BY <2>2, <2>3
<1>7. TypeOK'
  BY <1>1, <1>2 DEF IInv, TypeOK
<1> QED
  BY <1>1, <1>3, <1>5, <1>6, <1>7 DEF IInv, Consumer
-----------------------------------------------------------------------------
\* The numbers of the slots tell free, claimed and published positions apart,
\* and every claimed position has one owner.
THEOREM Inductive == Spec => []IInv
<1>1. Init => IInv
  <2> SUFFICES ASSUME Init PROVE IInv
    OBVIOUS
  <2>1. TypeOK
    BY QueueAssumption DEF Init, TypeOK, Slot
  <2>2. ASSUME NEW pos \in Nat, Window(pos) PROVE Position(pos)
    <3>1. SlotOf(pos) = pos /\ pos \in Slot
      BY <2>2, QueueAssumption DEF Window, Init, SlotOf, Slot
    <3> QED
      BY <3>1 DEF Init, Position
  <2> QED
    BY <2>1, <2>2, QueueAssumption DEF Init, IInv, Owner, Claims, Consumer
<1>2. IInv /\ [Next]_vars => IInv'
  <2> SUFFICES ASSUME IInv, [Next]_vars PROVE IInv'
    OBVIOUS
  <2>1. CASE Consume
    BY <2>1, LookKept, FreeKept DEF Consume
  <2>2. ASSUME NEW p \in Producer, Enqueue(p) \/ Produce(p) PROVE IInv'
    BY <2>2, MovesKept, ClaimKept, WriteKept, PublishKept DEF Produce
  <2>3. CASE UNCHANGED vars
    BY <2>3, ZenonT(30) DEF vars, IInv, TypeOK, Window, Position, Owner, Claims, Consumer, ItemOf
  <2> QED
    BY <2>1, <2>2, <2>3 DEF Next
<1> QED
  BY <1>1, <1>2, PTL DEF Spec

\* The data of a slot is never accessed by two threads at a time, whatever the
\* number of threads and slots (enqueue line 60, dequeue line 73).
THEOREM NoRace == Spec => []NoDataRace
<1>1. IInv => NoDataRace
  <2> SUFFICES ASSUME IInv, NEW p \in Producer, prod[p].pc = "write"
               PROVE  /\ cons = "copy" => SlotOf(prod[p].pos) # SlotOf(head)
                      /\ \A r \in Producer \ {p} :
                           prod[r].pc = "write" => SlotOf(prod[r].pos) # SlotOf(prod[p].pos)
    BY DEF NoDataRace
  <2>1. \A r \in Producer : prod[r].pc = "write" =>
          /\ prod[r].pos \in Nat /\ Window(prod[r].pos) /\ Claims(r, prod[r].pos)
          /\ seq[SlotOf(prod[r].pos)] = prod[r].pos
    BY QueueAssumption DEF IInv, TypeOK, Owner, Window, Claims
  <2>2. head \in Nat /\ Window(head)
    BY QueueAssumption DEF IInv, TypeOK, Window
  <2>3. cons = "copy" => seq[SlotOf(head)] = head + 1
    BY DEF IInv, Consumer
  <2>4. ASSUME cons = "copy" PROVE SlotOf(prod[p].pos) # SlotOf(head)
    BY <2>1, <2>2, <2>3, <2>4, Apart
  <2>5. ASSUME NEW r \in Producer \ {p}, prod[r].pc = "write"
        PROVE  SlotOf(prod[r].pos) # SlotOf(prod[p].pos)
    BY <2>1, <2>5, Apart DEF IInv
  <2> QED
    BY <2>4, <2>5
<1> QED
  BY <1>1, Inductive, PTL
-----------------------------------------------------------------------------
\* A sequence of one more element is the shorter one with it appended.
LEMMA AppendIs ==
  ASSUME NEW S, NEW s \in Seq(S), NEW x, NEW t, NEW n \in Nat, Len(s) = n,
         t = [k \in 1..(n + 1) |-> t[k]], \A k \in 1..n : t[k] = s[k], t[n + 1] = x
  PROVE  t = Append(s, x)
<1> DEFINE T == S \cup {x}
<1>1. s \in Seq(T)
  <2>1. \A k \in 1..n : s[k] \in T
    OBVIOUS
  <2>2. s = [k \in 1..n |-> s[k]]
    OBVIOUS
  <2> HIDE DEF T
  <2> QED
    BY <2>1, <2>2
<1>2. \A k \in 1..(n + 1) : t[k] \in T
  <2> SUFFICES ASSUME NEW k \in 1..(n + 1) PROVE t[k] \in T
    OBVIOUS
  <2>1. CASE k = n + 1
    BY <2>1
  <2>2. CASE k \in 1..n
    <3>1. t[k] = s[k] /\ s[k] \in S
      BY <2>2
    <3> QED
      BY <3>1
  <2> QED
    BY <2>1, <2>2
<1>3. x \in T
  OBVIOUS
<1> HIDE DEF T
<1>4. t \in Seq(T) /\ Len(t) = n + 1
  BY <1>2
<1>5. /\ Append(s, x) \in Seq(T) /\ Len(Append(s, x)) = n + 1
      /\ \A k \in 1..n : Append(s, x)[k] = s[k]
      /\ Append(s, x)[n + 1] = x
  BY <1>1, <1>3, AppendProperties
<1>6. ASSUME NEW k \in 1..(n + 1) PROVE t[k] = Append(s, x)[k]
  <2>1. CASE k = n + 1
    BY <1>5, <2>1
  <2>2. CASE k \in 1..n
    BY <1>5, <2>2
  <2> QED
    BY <2>1, <2>2
<1> QED
  BY <1>4, <1>5, <1>6, SeqEqual, ZenonT(30)

\* A sequence shifted by one is the tail of the longer one.
LEMMA TailIs ==
  ASSUME NEW S, NEW s \in Seq(S), NEW t, NEW n \in Nat, Len(s) = n + 1,
         t = [k \in 1..n |-> t[k]], \A k \in 1..n : t[k] = s[k + 1]
  PROVE  s # <<>> /\ Head(s) = s[1] /\ t = Tail(s)
<1>1. s # <<>> /\ Head(s) = s[1]
  OBVIOUS
<1>2. Tail(s) \in Seq(S) /\ Len(Tail(s)) = n /\ \A k \in 1..n : Tail(s)[k] = s[k + 1]
  BY <1>1, HeadTailProperties
<1>3. \A k \in 1..n : t[k] \in S
  BY <1>2
<1>4. t \in Seq(S) /\ Len(t) = n
  BY <1>3
<1> QED
  BY <1>1, <1>2, <1>4, SeqEqual, ZenonT(30)
-----------------------------------------------------------------------------
Claimed(p) == [by |-> p, item |-> ItemOf(p), ready |-> FALSE]

Published(pos) ==
  LET i == data[SlotOf(pos)] IN [by |-> i[1], item |-> i, ready |-> TRUE]

Shown(pos) ==
  /\ \A p \in Producer : Claims(p, pos) => PlaceAt(pos) = Claimed(p)
  /\ (\A p \in Producer : ~Claims(p, pos)) => PlaceAt(pos) = Published(pos)

\* A claimed position shows its one owner, another one what is in its slot.
LEMMA PlaceFacts == IInv => \A pos \in Nat : Shown(pos)
<1> SUFFICES ASSUME IInv, NEW pos \in Nat PROVE Shown(pos)
  OBVIOUS
<1>1. ASSUME NEW p \in Producer, Claims(p, pos) PROVE PlaceAt(pos) = Claimed(p)
  <2>1. Claimers(pos) = {p}
    BY <1>1 DEF IInv, Claims, Claimers
  <2>2. (CHOOSE r \in {p} : TRUE) = p
    OBVIOUS
  <2> QED
    BY <2>1, <2>2, ZenonT(30) DEF PlaceAt, Claimed
<1>2. ASSUME \A p \in Producer : ~Claims(p, pos) PROVE PlaceAt(pos) = Published(pos)
  <2>1. Claimers(pos) = {}
    BY <1>2 DEF Claims, Claimers
  <2> QED
    BY <2>1 DEF PlaceAt, Published
<1> QED
  BY <1>1, <1>2 DEF Shown

\* The same of the next state.
LEMMA PlaceFactsNext == IInv' => (\A pos \in Nat : Shown(pos))'
<1>1. IInv => \A pos \in Nat : Shown(pos)
  BY PlaceFacts
<1> QED
  BY <1>1, PTL

\* A position whose owner and item stay shows the same place.
LEMMA SamePlace ==
  ASSUME IInv, IInv', NEW pos \in Nat,
         \A r \in Producer : Claims(r, pos)' <=> Claims(r, pos),
         \A r \in Producer : Claims(r, pos) => prod'[r].calls = prod[r].calls,
         (\A r \in Producer : ~Claims(r, pos)) => data'[SlotOf(pos)] = data[SlotOf(pos)]
  PROVE  PlaceAt(pos)' = PlaceAt(pos)
<1>1. Shown(pos) /\ Shown(pos)'
  BY PlaceFacts, PlaceFactsNext
<1>2. CASE \E r \in Producer : Claims(r, pos)
  BY <1>1, <1>2, ZenonT(30) DEF Shown, Claimed, ItemOf
<1>3. CASE \A r \in Producer : ~Claims(r, pos)
  BY <1>1, <1>3, ZenonT(30) DEF Shown, Published
<1> QED
  BY <1>2, <1>3

\* The places form a sequence.
LEMMA PlacesSeq ==
  IInv => /\ tail - head \in 0..Capacity
          /\ Places \in Seq({PlaceAt(pos) : pos \in Nat}) /\ Len(Places) = tail - head
          /\ DOMAIN Places = 1..(tail - head)
          /\ \A k \in 1..(tail - head) : Places[k] = PlaceAt(head + k - 1)
<1> SUFFICES ASSUME IInv
             PROVE  /\ tail - head \in 0..Capacity
                    /\ Places \in Seq({PlaceAt(pos) : pos \in Nat}) /\ Len(Places) = tail - head
                    /\ DOMAIN Places = 1..(tail - head)
                    /\ \A k \in 1..(tail - head) : Places[k] = PlaceAt(head + k - 1)
  OBVIOUS
<1>1. head \in Nat /\ tail \in Nat /\ tail - head \in 0..Capacity
  BY QueueAssumption DEF IInv, TypeOK
<1>2. Places \in [1..(tail - head) -> {PlaceAt(pos) : pos \in Nat}]
  BY <1>1 DEF Places
<1> QED
  BY <1>1, <1>2 DEF Places

Calls == [p \in Producer |-> CallOf(p)]

\* Only the call of the producer that steps changes.
LEMMA CallMoves ==
  ASSUME IInv, IInv', NEW p \in Producer,
         \A r \in Producer : r # p => prod'[r] = prod[r]
  PROVE  Calls' = [Calls EXCEPT ![p] = CallOf(p)']
<1>1. \A r \in Producer : r # p => CallOf(r)' = CallOf(r)
  BY ZenonT(30) DEF CallOf
<1> QED
  BY <1>1, ZenonT(30) DEF Calls

\* If neither end moves and every position shows what it showed, the abstract
\* queue is unchanged.
LEMMA PlacesStay ==
  ASSUME IInv, IInv', UNCHANGED <<head, tail>>,
         \A pos \in Nat : head <= pos /\ pos < tail => PlaceAt(pos)' = PlaceAt(pos)
  PROVE  Places' = Places
<1>1. head \in Nat /\ tail \in Nat
  BY DEF IInv, TypeOK
<1>2. \A k \in 1..(tail - head) :
        head + k - 1 \in Nat /\ head <= head + k - 1 /\ head + k - 1 < tail
  BY <1>1
<1> QED
  BY <1>1, <1>2 DEF Places

\* The steps of enqueue up to the claim: a call begins, fails or goes on.
LEMMA MovesMap ==
  ASSUME NEW p \in Producer, IInv, IInv', Enqueue(p) \/ LoadTail(p) \/ LoadSequence(p)
  PROVE  Fifo!Begin(p) \/ Fifo!Fail(p) \/ UNCHANGED <<Places, Calls, got>>
<1>1. /\ UNCHANGED <<tail, head, seq, data, got>>
      /\ prod[p].pc \in {"idle", "load", "check"}
      /\ prod'[p].pc \in {"idle", "load", "check", "claim"}
      /\ \A r \in Producer : r # p => prod'[r] = prod[r]
  <2>1. CASE Enqueue(p)
    BY <2>1 DEF Enqueue, IInv, TypeOK
  <2>2. CASE LoadTail(p)
    BY <2>2 DEF LoadTail, IInv, TypeOK
  <2>3. CASE LoadSequence(p)
    BY <2>3 DEF LoadSequence, Goto, IInv, TypeOK
  <2> QED
    BY <2>1, <2>2, <2>3
<1>2. Places' = Places
  <2>1. ASSUME NEW pos \in Nat PROVE PlaceAt(pos)' = PlaceAt(pos)
    <3>1. \A r \in Producer : Claims(r, pos)' <=> Claims(r, pos)
      BY <1>1 DEF Claims
    <3>2. \A r \in Producer : Claims(r, pos) => prod'[r].calls = prod[r].calls
      BY <1>1 DEF Claims
    <3> QED
      BY <1>1, <3>1, <3>2, SamePlace
  <2> QED
    BY <1>1, <2>1, PlacesStay
<1>3. Calls' = [Calls EXCEPT ![p] = CallOf(p)']
  BY <1>1, CallMoves
<1>4. Calls[p] = CallOf(p)
  BY DEF Calls
<1>5. CASE Enqueue(p)
  <2>1. CallOf(p) = "idle" /\ CallOf(p)' = "trying"
    BY <1>5 DEF Enqueue, CallOf, IInv, TypeOK
  <2> QED
    BY <1>1, <1>2, <1>3, <1>4, <2>1 DEF Fifo!Begin, Calls
<1>6. CASE CallOf(p)' = CallOf(p)
  BY <1>1, <1>2, <1>3, <1>4, <1>6, ZenonT(30) DEF Calls
<1>7. CASE LoadSequence(p) /\ prod'[p].pc = "idle"
  <2>1. /\ prod[p].pc = "check" /\ prod[p].pos \in Nat /\ prod[p].pos <= tail
        /\ seq[SlotOf(prod[p].pos)] - prod[p].pos < 0
    BY <1>7 DEF LoadSequence, Goto, IInv, TypeOK, Owner
  <2>2. tail - head = Capacity
    BY <2>1, OccupiedIsFull
  <2>3. CallOf(p) = "trying" /\ CallOf(p)' = "idle"
    BY <1>7, <2>1 DEF CallOf
  <2> QED
    BY <1>1, <1>2, <1>3, <1>4, <2>2, <2>3, PlacesSeq DEF Fifo!Fail, Calls
<1> QED
  <2>1. CASE LoadTail(p)
    BY <1>6, <2>1 DEF LoadTail, CallOf, IInv, TypeOK
  <2>2. CASE LoadSequence(p) /\ prod'[p].pc # "idle"
    BY <1>6, <2>2 DEF LoadSequence, Goto, CallOf, IInv, TypeOK
  <2> QED
    BY <1>5, <1>7, <2>1, <2>2

\* A successful compare-and-exchange appends a place; a failed one is no step.
LEMMA ClaimMap ==
  ASSUME NEW p \in Producer, IInv, IInv', Claim(p)
  PROVE  Fifo!Claim(p) \/ UNCHANGED <<Places, Calls, got>>
<1>1. /\ UNCHANGED <<head, data, got>>
      /\ \A r \in Producer : r # p => prod'[r] = prod[r]
      /\ prod'[p].pos = prod[p].pos /\ prod'[p].calls = prod[p].calls
      /\ prod[p].pc = "claim"
      /\ \/ tail' = tail /\ prod'[p].pc = "load"
         \/ tail' = tail + 1 /\ prod'[p].pc = "write" /\ prod[p].pos = tail
  <2>1. CASE Goto(p, "load") /\ UNCHANGED tail
    BY <2>1 DEF IInv, TypeOK, Claim, Goto
  <2>2. CASE tail = prod[p].pos /\ tail' = tail + 1 /\ Goto(p, "write")
    BY <2>2 DEF IInv, TypeOK, Claim, Goto
  <2> QED
    BY <2>1, <2>2 DEF Claim
<1>2. head \in Nat /\ tail \in Nat /\ head <= tail /\ tail <= head + Capacity /\ Capacity \in Nat
  BY QueueAssumption DEF IInv, TypeOK
<1>3. ASSUME NEW pos \in Nat, head <= pos, pos < tail PROVE PlaceAt(pos)' = PlaceAt(pos)
  <2>1. \A r \in Producer : Claims(r, pos)' <=> Claims(r, pos)
    BY <1>1, <1>2, <1>3 DEF Claims
  <2> QED
    BY <1>1, <2>1, SamePlace
<1>4. Calls' = [Calls EXCEPT ![p] = CallOf(p)'] /\ Calls[p] = CallOf(p) /\ CallOf(p) = "trying"
  BY <1>1, CallMoves, ZenonT(30) DEF Calls, CallOf
<1>5. CASE tail' = tail
  <2>1. Places' = Places
    BY <1>1, <1>3, <1>5, PlacesStay
  <2>2. CallOf(p)' = "trying"
    BY <1>1, <1>2, <1>5 DEF CallOf
  <2> QED
    BY <1>1, <1>4, <2>1, <2>2, ZenonT(30) DEF Calls
<1>6. CASE tail' = tail + 1
  <2> PICK t \in Nat : t = tail
    BY <1>2
  <2>1. CallOf(p)' = "claimed" /\ Claims(p, t)' /\ prod[p].pos = t /\ prod'[p].pc = "write"
    BY <1>1, <1>2, <1>6 DEF CallOf, Claims
  <2>2. tail < head + Capacity
    BY <1>1, <2>1 DEF IInv, Owner
  <2>3. ItemOf(p) \in Item /\ ItemOf(p)' = ItemOf(p)
    <3>1. prod[p].calls \in 1..MaxItems
      BY <1>1 DEF IInv, TypeOK, Owner
    <3> QED
      BY <1>1, <3>1 DEF ItemOf, Item
  <2>4. PlaceAt(t)' = Claimed(p)
    BY <2>1, <2>3, PlaceFactsNext DEF Shown, Claimed
  <2>5. Places' = Append(Places, Claimed(p))
    <3> PICK n \in Nat : n = tail - head
      BY <1>2
    <3>1. Places' = [k \in 1..(n + 1) |-> PlaceAt(head + k - 1)']
      <4>1. tail' - head' = n + 1
        BY <1>1, <1>2, <1>6
      <4> QED
        BY <1>1, <4>1 DEF Places
    <3>2. \A k \in 1..n : Places'[k] = Places[k]
      <4> SUFFICES ASSUME NEW k \in 1..n PROVE Places'[k] = Places[k]
        OBVIOUS
      <4>1. PICK pos \in Nat : pos = head + k - 1 /\ head <= pos /\ pos < tail
        BY <1>2
      <4>2. Places[k] = PlaceAt(pos)
        BY <4>1, PlacesSeq
      <4>3. k \in 1..(n + 1) /\ head' + k - 1 = pos
        BY <1>1, <4>1
      <4>4. Places'[k] = PlaceAt(pos)'
        BY <3>1, <4>3
      <4> QED
        BY <1>3, <4>1, <4>2, <4>4
    <3>3. Places'[n + 1] = Claimed(p)
      <4>1. t = head + (n + 1) - 1 /\ n + 1 \in 1..(n + 1)
        BY <1>2
      <4> QED
        BY <1>1, <2>4, <3>1, <4>1
    <3>4. Places' = [k \in 1..(n + 1) |-> Places'[k]]
      BY <3>1
    <3>5. Places \in Seq({PlaceAt(pos) : pos \in Nat}) /\ Len(Places) = n
      BY PlacesSeq
    <3> QED
      BY <3>2, <3>3, <3>4, <3>5, AppendIs
  <2>6. Len(Places) < Capacity
    BY <1>2, <2>2, PlacesSeq
  <2>7. Fifo!Claim(p)
    BY <1>1, <1>4, <2>1, <2>3, <2>5, <2>6, ZenonT(30) DEF Fifo!Claim, Calls, Claimed
  <2> QED
    BY <2>7
<1> QED
  BY <1>1, <1>5, <1>6

\* Writing the item is no step; publishing it makes the place ready.
LEMMA PublishMap ==
  ASSUME NEW p \in Producer, IInv, IInv', WriteData(p) \/ Publish(p)
  PROVE  Fifo!Ready(p) \/ UNCHANGED <<Places, Calls, got>>
<1> PICK mine \in Nat : mine = prod[p].pos
  BY DEF IInv, TypeOK
<1>1. /\ UNCHANGED <<head, tail, got>>
      /\ \A r \in Producer : r # p => prod'[r] = prod[r]
      /\ prod'[p].pos = mine /\ prod'[p].calls = prod[p].calls
      /\ mine \in Nat /\ head <= mine /\ mine < tail /\ Claims(p, mine)
  <2>1. CASE WriteData(p)
    BY <2>1 DEF WriteData, Goto, IInv, TypeOK, Claims, Owner
  <2>2. CASE Publish(p)
    BY <2>2 DEF Publish, Goto, IInv, TypeOK, Claims, Owner
  <2> QED
    BY <2>1, <2>2
<1>2. head \in Nat /\ tail \in Nat /\ tail <= head + Capacity /\ Capacity \in Nat
  BY QueueAssumption DEF IInv, TypeOK
<1>3. Window(mine) /\ SlotOf(mine) \in Slot
  BY <1>1, <1>2, SlotFacts DEF Window
<1>4. ASSUME NEW pos \in Nat, head <= pos, pos < tail, pos # mine
      PROVE  PlaceAt(pos)' = PlaceAt(pos)
  <2>1. \A r \in Producer : Claims(r, pos)' <=> Claims(r, pos)
    BY <1>1, <1>4 DEF Claims
  <2>2. SlotOf(pos) # SlotOf(mine) /\ SlotOf(pos) \in Slot
    BY <1>1, <1>2, <1>3, <1>4, Apart DEF Window
  <2>3. data'[SlotOf(pos)] = data[SlotOf(pos)]
    BY <1>3, <2>2 DEF WriteData, Publish, IInv, TypeOK
  <2> QED
    BY <1>1, <2>1, <2>3, SamePlace
<1>5. Calls' = [Calls EXCEPT ![p] = CallOf(p)'] /\ Calls[p] = CallOf(p) /\ CallOf(p) = "claimed"
  BY <1>1, CallMoves, ZenonT(30) DEF Calls, CallOf, Claims
<1>6. CASE WriteData(p)
  <2>1. prod[p].pc = "write" /\ prod'[p].pc = "publish"
    BY <1>6 DEF WriteData, Goto, IInv, TypeOK
  <2>2. PlaceAt(mine)' = PlaceAt(mine)
    <3>1. \A r \in Producer : Claims(r, mine)' <=> Claims(r, mine)
      BY <1>1, <2>1 DEF Claims
    <3> QED
      BY <1>1, <3>1, SamePlace
  <2>3. Places' = Places
    BY <1>1, <1>4, <2>2, PlacesStay
  <2>4. CallOf(p)' = "claimed"
    BY <2>1 DEF CallOf
  <2> QED
    BY <1>1, <1>5, <2>3, <2>4, ZenonT(30) DEF Calls
<1>7. CASE Publish(p)
  <2> PICK k \in Int : k = mine - head + 1
    BY <1>2
  <2>1. prod[p].pc = "publish" /\ prod'[p].pc = "idle" /\ data' = data
    BY <1>7 DEF Publish, Goto, IInv, TypeOK
  <2>2. CallOf(p)' = "idle"
    BY <2>1 DEF CallOf
  <2>3. PlaceAt(mine) = Claimed(p)
    BY <1>1, PlaceFacts DEF Shown
  <2>4. PlaceAt(mine)' = [by |-> p, item |-> ItemOf(p), ready |-> TRUE]
    <3>1. \A r \in Producer : ~Claims(r, mine)'
      BY <1>1, <2>1 DEF Claims, IInv
    <3>2. data'[SlotOf(mine)] = ItemOf(p) /\ ItemOf(p)[1] = p
      BY <1>1, <2>1 DEF IInv, Owner, ItemOf
    <3> QED
      BY <1>1, <3>1, <3>2, PlaceFactsNext, ZenonT(30) DEF Shown, Published
  <2>5. k \in 1..(tail - head) /\ head + k - 1 = mine
    BY <1>1, <1>2
  <2>6. \A j \in 1..(tail - head) : j # k => head + j - 1 \in Nat /\ head + j - 1 # mine
                                    /\ head <= head + j - 1 /\ head + j - 1 < tail
    BY <1>1, <1>2
  <2>7. Places' = [j \in 1..(tail - head) |-> PlaceAt(head + j - 1)']
    BY <1>1 DEF Places
  <2>8. Places[k] = Claimed(p)
    BY <2>3, <2>5, PlacesSeq
  <2>9. Places' = [Places EXCEPT ![k] = [by |-> p, item |-> @.item, ready |-> TRUE]]
    <3> DEFINE new == [by |-> p, item |-> ItemOf(p), ready |-> TRUE]
    <3>1. [by |-> p, item |-> Places[k].item, ready |-> TRUE] = new
      BY <2>8 DEF Claimed
    <3>2. [Places EXCEPT ![k] = [by |-> p, item |-> @.item, ready |-> TRUE]] = [Places EXCEPT ![k] = new]
      BY <3>1, ZenonT(30)
    <3> HIDE DEF new
    <3>3. \A j \in 1..(tail - head) : Places'[j] = IF j = k THEN new ELSE Places[j]
      <4> SUFFICES ASSUME NEW j \in 1..(tail - head)
                   PROVE  Places'[j] = IF j = k THEN new ELSE Places[j]
        OBVIOUS
      <4>1. CASE j = k
        BY <1>1, <2>4, <2>5, <2>7, <4>1 DEF new
      <4>2. CASE j # k
        <5>1. PICK pos \in Nat : pos = head + j - 1 /\ pos # mine /\ head <= pos /\ pos < tail
          BY <2>6, <4>2
        <5>2. Places'[j] = PlaceAt(pos)' /\ Places[j] = PlaceAt(pos)
          BY <1>1, <2>7, <5>1 DEF Places
        <5> QED
          BY <1>4, <4>2, <5>1, <5>2
      <4> QED
        BY <4>1, <4>2
    <3> QED
      BY <2>5, <2>7, <3>2, <3>3, ZenonT(30) DEF Places
  <2>10. k \in DOMAIN Places /\ Places[k].by = p /\ ~Places[k].ready
    BY <2>5, <2>8, PlacesSeq DEF Claimed
  <2>11. Fifo!Ready(p)
    BY <1>1, <1>5, <2>2, <2>9, <2>10, ZenonT(30) DEF Fifo!Ready, Calls
  <2> QED
    BY <2>11
<1> QED
  BY <1>6, <1>7

\* dequeue returns false only when the oldest place is missing or not ready.
LEMMA LookMap ==
  ASSUME IInv, IInv', LoadHead \/ CopyData
  PROVE  Fifo!Miss \/ UNCHANGED <<Places, Calls, got>>
<1>1. UNCHANGED <<tail, head, data, prod>>
  BY DEF LoadHead, CopyData
<1>2. Places' = Places
  <2>1. \A pos \in Nat : PlaceAt(pos)' = PlaceAt(pos)
    BY <1>1, SamePlace DEF Claims
  <2> QED
    BY <1>1, <2>1, PlacesStay
<1>3. Calls' = Calls
  BY <1>1 DEF Calls, CallOf
<1>4. ASSUME LoadHead, seq[SlotOf(head)] # head + 1 PROVE Fifo!Miss
  <2>1. head \in Nat /\ tail \in Nat /\ Capacity \in Nat \ {0, 1}
    BY QueueAssumption DEF IInv, TypeOK
  <2>2. Position(head)
    BY <2>1 DEF IInv, Window
  <2>3. CASE tail <= head
    <3>1. Places = <<>>
      BY <2>1, <2>3, PlacesSeq DEF IInv
    <3> QED
      BY <1>2, <1>3, <1>4, <3>1 DEF Fifo!Miss, LoadHead, Calls
  <2>4. CASE head < tail
    <3>1. PICK p \in Producer : Claims(p, head)
      BY <1>4, <2>1, <2>2, <2>4 DEF Position
    <3>2. PlaceAt(head) = Claimed(p)
      BY <2>1, <3>1, PlaceFacts DEF Shown
    <3>3. Places[1] = Claimed(p) /\ Head(Places) = Places[1]
      BY <2>1, <2>4, <3>2, PlacesSeq
    <3> QED
      BY <1>2, <1>3, <1>4, <3>3 DEF Fifo!Miss, LoadHead, Calls, Claimed
  <2> QED
    BY <2>1, <2>3, <2>4
<1> QED
  BY <1>2, <1>3, <1>4 DEF LoadHead, CopyData

\* Freeing the slot takes the oldest place, with the item its owner gave it.
LEMMA FreeMap ==
  ASSUME IInv, IInv', FreeSlot
  PROVE  Fifo!Take
<1> PICK h \in Nat : h = head
  BY DEF IInv, TypeOK
<1>1. /\ UNCHANGED <<tail, data, prod>> /\ head' = h + 1 /\ got' = data[SlotOf(h)]
      /\ tail \in Nat /\ h < tail /\ seq[SlotOf(h)] = h + 1
  BY DEF FreeSlot, IInv, TypeOK, Consumer
<1>2. \A r \in Producer : ~Claims(r, h)
  BY <1>1 DEF IInv, Claims, Owner
<1>3. PlaceAt(h) = Published(h)
  BY <1>2, PlaceFacts DEF Shown
<1>4. \A pos \in Nat : PlaceAt(pos)' = PlaceAt(pos)
  BY <1>1, SamePlace DEF Claims
<1> PICK n \in Nat : n = tail - (h + 1)
  BY <1>1
<1>5. Places \in Seq({PlaceAt(pos) : pos \in Nat}) /\ Len(Places) = n + 1
  BY <1>1, PlacesSeq
<1>6. Places[1] = PlaceAt(h)
  BY <1>1, PlacesSeq
<1>7. Places' = [k \in 1..n |-> PlaceAt(head + k - 1)']
  BY <1>1 DEF Places
<1>8. ASSUME NEW k \in 1..n PROVE Places'[k] = Places[k + 1]
  <2>1. PICK pos \in Nat : pos = h + k
    OBVIOUS
  <2>2. head' + k - 1 = pos /\ head + (k + 1) - 1 = pos /\ k + 1 \in 1..(tail - head)
    BY <1>1, <2>1
  <2>3. Places'[k] = PlaceAt(pos)'
    BY <1>7, <2>2
  <2>4. Places[k + 1] = PlaceAt(pos)
    BY <2>2, PlacesSeq, ZenonT(30)
  <2> QED
    BY <1>4, <2>3, <2>4
<1>9. Places # <<>> /\ Head(Places) = Places[1] /\ Places' = Tail(Places)
  <2>1. Places' = [k \in 1..n |-> Places'[k]]
    BY <1>7
  <2> QED
    BY <1>5, <1>8, <2>1, TailIs
<1>10. Calls' = Calls
  BY <1>1 DEF Calls, CallOf
<1> QED
  BY <1>1, <1>3, <1>6, <1>9, <1>10 DEF Fifo!Take, Calls, Published

\* For every set of producers and every capacity the ring implements the queue
\* of claims: items leave in the order of their claims, each once and unchanged,
\* enqueue fails only on a full ring and dequeue only on an oldest item that is
\* not ready (enqueue and dequeue of mpsc_queue.hpp).
THEOREM ImplementsClaimQueue == Spec => IsClaimQueue
<1>1. Init => Fifo!Init
  <2> SUFFICES ASSUME Init PROVE Fifo!Init
    OBVIOUS
  <2>1. Places = <<>>
    BY DEF Init, Places
  <2>2. [p \in Producer |-> CallOf(p)] = [p \in Producer |-> "idle"]
    BY DEF Init, CallOf
  <2> QED
    BY <2>1, <2>2 DEF Init, Fifo!Init
<1>2. IInv /\ IInv' /\ [Next]_vars => [Fifo!Next]_(Fifo!vars)
  <2> SUFFICES ASSUME IInv, IInv', [Next]_vars
               PROVE  Fifo!Next \/ UNCHANGED <<Places, Calls, got>>
    BY DEF Fifo!vars, Calls
  <2>1. CASE Consume
    BY <2>1, LookMap, FreeMap DEF Consume, Fifo!Next
  <2>2. ASSUME NEW p \in Producer, Enqueue(p) \/ Produce(p)
        PROVE  Fifo!Next \/ UNCHANGED <<Places, Calls, got>>
    BY <2>2, MovesMap, ClaimMap, PublishMap DEF Produce, Fifo!Next
  <2>3. CASE UNCHANGED vars
    BY <2>3 DEF vars, Places, Calls, CallOf, PlaceAt, Claimers, ItemOf
  <2> QED
    BY <2>1, <2>2, <2>3 DEF Next
<1> QED
  BY <1>1, <1>2, Inductive, PTL DEF Spec, IsClaimQueue, Fifo!Spec
=============================================================================
