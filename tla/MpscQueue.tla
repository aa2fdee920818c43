----------------------------- MODULE MpscQueue -----------------------------
(***************************************************************************)
(* MPSCQueue: a ring of slots, each with a sequence number that says whose *)
(* turn it is.  Slot i is free for position pos (pos % Capacity = i) when  *)
(* its number is pos, and holds that position's item when it is pos + 1.   *)
(*                                                                         *)
(* A step is one access to shared memory.  Atomics are sequentially        *)
(* consistent here; the data of a slot is ordered by the release stores    *)
(* and acquire loads of its number.  Positions are unbounded (size_t).     *)
(***************************************************************************)
EXTENDS Integers, Sequences

CONSTANTS
  Producer,   \* the threads that log
  Capacity,   \* slots
  MaxItems    \* bound: calls of enqueue by one producer

\* With one slot, "holds item 0" and "free for position 1" are the same number.
ASSUME QueueAssumption ==
  Capacity \in Nat \ {0, 1} /\ MaxItems \in Nat

VARIABLES
  tail,    \* tail_
  head,    \* head_, of the consumer alone
  seq,     \* sequence of every slot
  data,    \* data of every slot
  prod,    \* each producer: where it is in enqueue, pos and item
  cons,    \* where the consumer is in dequeue
  item,    \* what dequeue has copied
  got      \* what the last call of dequeue returned

vars == <<tail, head, seq, data, prod, cons, item, got>>

Slot == 0..(Capacity - 1)
SlotOf(pos) == pos % Capacity
Nothing == <<>>
Item == Producer \X (1..MaxItems)

TypeOK ==
  /\ tail \in Nat /\ head \in Nat
  /\ seq \in [Slot -> Nat]
  /\ data \in [Slot -> Item \cup {Nothing}]
  /\ prod \in [Producer ->
       [pc: {"idle", "load", "check", "claim", "write", "publish"},
        pos: Nat, calls: 0..MaxItems]]
  /\ cons \in {"idle", "copy", "free"}
  /\ item \in Item \cup {Nothing} /\ got \in Item \cup {Nothing}

Init ==
  /\ tail = 0 /\ head = 0
  /\ seq = [i \in Slot |-> i]
  /\ data = [i \in Slot |-> Nothing]
  /\ prod = [p \in Producer |-> [pc |-> "idle", pos |-> 0, calls |-> 0]]
  /\ cons = "idle"
  /\ item = Nothing /\ got = Nothing
-----------------------------------------------------------------------------
(***************************************************************************)
(* enqueue                                                                 *)
(***************************************************************************)
ItemOf(p) == <<p, prod[p].calls>>

Goto(p, pc) == prod' = [prod EXCEPT ![p].pc = pc]

Enqueue(p) ==
  /\ prod[p].pc = "idle" /\ prod[p].calls < MaxItems
  /\ prod' = [prod EXCEPT ![p].pc = "load", ![p].calls = @ + 1]
  /\ UNCHANGED <<tail, head, seq, data, cons, item, got>>

LoadTail(p) ==
  /\ prod[p].pc = "load"
  /\ prod' = [prod EXCEPT ![p].pc = "check", ![p].pos = tail]
  /\ UNCHANGED <<tail, head, seq, data, cons, item, got>>

\* The slot is free for pos, still occupied (enqueue fails), or taken since.
LoadSequence(p) ==
  LET diff == seq[SlotOf(prod[p].pos)] - prod[p].pos
  IN  /\ prod[p].pc = "check"
      /\ \/ diff = 0 /\ Goto(p, "claim")
         \/ diff < 0 /\ Goto(p, "idle")
         \/ diff > 0 /\ Goto(p, "load")
      /\ UNCHANGED <<tail, head, seq, data, cons, item, got>>

\* Defect: a plain store in place of the compare-and-exchange.
ClaimByStore(p) ==
  /\ prod[p].pc = "claim"
  /\ tail' = prod[p].pos + 1
  /\ Goto(p, "write")
  /\ UNCHANGED <<head, seq, data, cons, item, got>>

\* compare_exchange_weak: it may also fail on the expected value.
Claim(p) ==
  /\ prod[p].pc = "claim"
  /\ \/ /\ tail = prod[p].pos
        /\ tail' = tail + 1
        /\ Goto(p, "write")
     \/ Goto(p, "load") /\ UNCHANGED tail
  /\ UNCHANGED <<head, seq, data, cons, item, got>>

WriteData(p) ==
  /\ prod[p].pc = "write"
  /\ data' = [data EXCEPT ![SlotOf(prod[p].pos)] = ItemOf(p)]
  /\ Goto(p, "publish")
  /\ UNCHANGED <<tail, head, seq, cons, item, got>>

\* Defect: the slot's number stays pos.
PublishSame(p) ==
  /\ prod[p].pc = "publish"
  /\ Goto(p, "idle")
  /\ UNCHANGED <<tail, head, seq, data, cons, item, got>>

Publish(p) ==
  /\ prod[p].pc = "publish"
  /\ seq' = [seq EXCEPT ![SlotOf(prod[p].pos)] = prod[p].pos + 1]
  /\ Goto(p, "idle")
  /\ UNCHANGED <<tail, head, data, cons, item, got>>
-----------------------------------------------------------------------------
(***************************************************************************)
(* dequeue                                                                 *)
(***************************************************************************)
\* Defect: a slot that was claimed is taken for one that holds its item.
LoadHeadClaimed ==
  /\ cons = "idle"
  /\ IF head < tail THEN cons' = "copy" /\ UNCHANGED got
                    ELSE got' = Nothing /\ UNCHANGED cons
  /\ UNCHANGED <<tail, head, seq, data, prod, item>>

LoadHead ==
  /\ cons = "idle"
  /\ IF seq[SlotOf(head)] = head + 1
     THEN cons' = "copy" /\ UNCHANGED got
     ELSE got' = Nothing /\ UNCHANGED cons
  /\ UNCHANGED <<tail, head, seq, data, prod, item>>

CopyData ==
  /\ cons = "copy"
  /\ cons' = "free"
  /\ item' = data[SlotOf(head)]
  /\ UNCHANGED <<tail, head, seq, data, prod, got>>

\* The slot is for the position one lap ahead; head_ is the consumer's own.
FreeSlot ==
  /\ cons = "free"
  /\ cons' = "idle"
  /\ seq' = [seq EXCEPT ![SlotOf(head)] = head + Capacity]
  /\ head' = head + 1
  /\ got' = item
  /\ UNCHANGED <<tail, data, prod, item>>
-----------------------------------------------------------------------------
Produce(p) ==
  \/ LoadTail(p) \/ LoadSequence(p) \/ Claim(p) \/ WriteData(p) \/ Publish(p)

Consume == LoadHead \/ CopyData \/ FreeSlot

Next == Consume \/ \E p \in Producer : Enqueue(p) \/ Produce(p)

Spec == Init /\ [][Next]_vars

\* Threads run on, and the consumer polls.
Fairness == WF_vars(Consume) /\ \A p \in Producer : WF_vars(Produce(p))

FairSpec == Spec /\ Fairness
-----------------------------------------------------------------------------
(***************************************************************************)
(* Properties.                                                             *)
(***************************************************************************)
\* The producer that has claimed position pos and not yet published it.
Claimers(pos) ==
  {p \in Producer : prod[p].pc \in {"write", "publish"} /\ prod[p].pos = pos}

\* The data of a slot is never accessed by two threads at a time: neither two
\* writers, nor a writer and the consumer (enqueue line 60, dequeue line 73).
NoDataRace ==
  \A p \in Producer : prod[p].pc = "write" =>
    /\ cons = "copy" => SlotOf(prod[p].pos) # SlotOf(head)
    /\ \A r \in Producer \ {p} :
         prod[r].pc = "write" => SlotOf(prod[r].pos) # SlotOf(prod[p].pos)

\* Owner and item of position pos, claimed or published.
PlaceAt(pos) ==
  IF Claimers(pos) # {}
  THEN LET p == CHOOSE p \in Claimers(pos) : TRUE
       IN  [by |-> p, item |-> ItemOf(p), ready |-> FALSE]
  ELSE LET i == data[SlotOf(pos)]
       IN  [by |-> i[1], item |-> i, ready |-> TRUE]

\* The positions of the ring as places of the abstract queue, oldest first.
Places == [k \in 1..(tail - head) |-> PlaceAt(head + k - 1)]

CallOf(p) ==
  CASE prod[p].pc = "idle" -> "idle"
    [] prod[p].pc \in {"load", "check", "claim"} -> "trying"
    [] prod[p].pc \in {"write", "publish"} -> "claimed"

Fifo == INSTANCE ClaimQueue WITH
  queue <- Places, call <- [p \in Producer |-> CallOf(p)], taken <- got

\* enqueue and dequeue implement the queue of claims: items leave in the order
\* of their claims, each once and unchanged; enqueue fails only when the ring is
\* full at that moment, dequeue only when the oldest item is not ready.
IsClaimQueue == Fifo!Spec

\* A call of enqueue that claimed a slot gets its item out, past other
\* producers that are slower (backend_loop polls dequeue).
Delivered ==
  \A i \in Item :
    prod[i[1]].pc = "write" /\ ItemOf(i[1]) = i ~> got = i
=============================================================================
