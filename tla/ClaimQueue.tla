----------------------------- MODULE ClaimQueue -----------------------------
(***************************************************************************)
(* What MPSCQueue promises: a bounded FIFO in which a producer claims its  *)
(* place first and makes its item ready later.  The consumer takes items   *)
(* in the order of the claims and waits for none; an item that is not      *)
(* ready hides the ones behind it.                                         *)
(***************************************************************************)
EXTENDS Naturals, Sequences

CONSTANTS Producer, Capacity, Item, Nothing

VARIABLES
  queue,   \* claimed places, oldest first
  call,    \* what each producer is doing
  taken    \* what the last dequeue returned

vars == <<queue, call, taken>>

Place == [by: Producer, item: Item, ready: BOOLEAN]

Init ==
  /\ queue = <<>>
  /\ call = [p \in Producer |-> "idle"]
  /\ taken = Nothing

Begin(p) ==
  /\ call[p] = "idle"
  /\ call' = [call EXCEPT ![p] = "trying"]
  /\ UNCHANGED <<queue, taken>>

\* enqueue may fail only while every place is claimed.
Fail(p) ==
  /\ call[p] = "trying" /\ Len(queue) = Capacity
  /\ call' = [call EXCEPT ![p] = "idle"]
  /\ UNCHANGED <<queue, taken>>

Claim(p) ==
  /\ call[p] = "trying" /\ Len(queue) < Capacity
  /\ call' = [call EXCEPT ![p] = "claimed"]
  /\ \E i \in Item :
       queue' = Append(queue, [by |-> p, item |-> i, ready |-> FALSE])
  /\ UNCHANGED taken

Ready(p) ==
  /\ call[p] = "claimed"
  /\ call' = [call EXCEPT ![p] = "idle"]
  /\ \E k \in DOMAIN queue :
       /\ queue[k].by = p /\ ~queue[k].ready
       /\ queue' = [queue EXCEPT ![k] = [by |-> p, item |-> @.item, ready |-> TRUE]]
  /\ UNCHANGED taken

Take ==
  /\ queue # <<>> /\ Head(queue).ready
  /\ queue' = Tail(queue)
  /\ taken' = Head(queue).item
  /\ UNCHANGED call

\* dequeue returns false only if the oldest place is not ready.
Miss ==
  /\ queue = <<>> \/ ~Head(queue).ready
  /\ taken' = Nothing
  /\ UNCHANGED <<queue, call>>

Next ==
  \/ \E p \in Producer : Begin(p) \/ Fail(p) \/ Claim(p) \/ Ready(p)
  \/ Take \/ Miss

Spec == Init /\ [][Next]_vars
=============================================================================
