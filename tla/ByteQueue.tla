----------------------------- MODULE ByteQueue -----------------------------
(***************************************************************************)
(* What WriteBufStream promises a TCP channel: a draft that append and     *)
(* prepend extend entirely or not at all, and a queue of submitted bytes   *)
(* of which a write in flight sees a fixed prefix and a completed write    *)
(* removes exactly what was written (README.md:85, :125).                  *)
(***************************************************************************)
EXTENDS Integers, Sequences

CONSTANTS
  Stream,   \* the channels
  Offer     \* what they may append or prepend

VARIABLES
  draft,    \* bytes appended and prepended, not yet submitted
  out,      \* bytes submitted, not yet written
  flight,   \* bytes handed to the write in flight
  ret       \* the last call's argument and what it returned

vars == <<draft, out, flight, ret>>

Returns(d, ok) == [arg |-> d, ok |-> ok]

Init ==
  /\ draft = [s \in Stream |-> <<>>]
  /\ out = [s \in Stream |-> <<>>]
  /\ flight = [s \in Stream |-> <<>>]
  /\ ret = Returns(<<>>, TRUE)

Fails(d) == ret' = Returns(d, FALSE) /\ UNCHANGED <<draft, out, flight>>

AppendBytes(s, d) ==
  /\ draft' = [draft EXCEPT ![s] = @ \o d]
  /\ ret' = Returns(d, TRUE)
  /\ UNCHANGED <<out, flight>>

PrependBytes(s, d) ==
  /\ draft' = [draft EXCEPT ![s] = d \o @]
  /\ ret' = Returns(d, TRUE)
  /\ UNCHANGED <<out, flight>>

Submit(s) ==
  /\ out' = [out EXCEPT ![s] = @ \o draft[s]]
  /\ draft' = [draft EXCEPT ![s] = <<>>]
  /\ ret' = Returns(<<>>, TRUE)
  /\ UNCHANGED flight

Write(s) ==
  /\ flight' = [flight EXCEPT ![s] = out[s]]
  /\ UNCHANGED <<draft, out, ret>>

Written(s, n) ==
  /\ out' = [out EXCEPT ![s] = SubSeq(@, n + 1, Len(@))]
  /\ flight' = [flight EXCEPT ![s] = <<>>]
  /\ UNCHANGED <<draft, ret>>

Reset(s) ==
  /\ draft' = [draft EXCEPT ![s] = <<>>]
  /\ out' = [out EXCEPT ![s] = <<>>]
  /\ flight' = [flight EXCEPT ![s] = <<>>]
  /\ UNCHANGED ret

Next ==
  \/ \E d \in Offer \cup {<<>>} : Fails(d)
  \/ \E s \in Stream :
       \/ \E d \in Offer : AppendBytes(s, d) \/ PrependBytes(s, d)
       \/ Submit(s) \/ Write(s) \/ Reset(s)
       \/ \E n \in 1..Len(flight[s]) : Written(s, n)

Spec == Init /\ [][Next]_vars
=============================================================================
