--------------------------- MODULE TimestampCache ---------------------------
(***************************************************************************)
(* TimestampCache: the formatted time of the current second, rebuilt by    *)
(* the thread that first sees a new second and copied by the others under  *)
(* a sequence lock.  Every access to shared memory is a step of its own; a *)
(* memcpy takes one step for each half of the string.  get_date is         *)
(* get_datetime over a second string: one string is modelled.  A stored    *)
(* half is <<second, seq_ at the time of the store>>.                      *)
(***************************************************************************)
EXTENDS Integers

CONSTANTS
  Thread,
  MaxSecond   \* bound on the clock

VARIABLES
  clock,
  cached_second_, seq_,
  str,        \* the halves of datetime_str_ (date_str_)
  call,       \* a thread: where it is and its local variables
  overlapped  \* two updates have been under way at the same time

shared == <<clock, cached_second_, seq_, str, overlapped>>
vars   == <<shared, call>>

Updating == {"lock", "write1", "write2", "unlock"}
Blank    == [i \in 1..2 |-> <<0, 0>>]
Idle     == [pc |-> "idle", now |-> 0, expected |-> 0, s1 |-> 0, out |-> Blank,
             begun |-> 0]

Init ==
  /\ clock = 1 /\ cached_second_ = 0 /\ seq_ = 0 /\ str = Blank
  /\ call = [t \in Thread |-> Idle]
  /\ overlapped = FALSE

At(t, pc)   == call[t].pc = pc
Goto(t, pc) == call' = [call EXCEPT ![t].pc = pc]

Tick ==
  /\ clock < MaxSecond /\ clock' = clock + 1
  /\ UNCHANGED <<cached_second_, seq_, str, call, overlapped>>

\* get_datetime is called; maybe_update reads the clock.
Begin(t) ==
  /\ At(t, "idle")
  /\ call' = [call EXCEPT ![t] = [Idle EXCEPT !.pc = "load", !.now = clock, !.begun = seq_]]
  /\ UNCHANGED shared

Load(t) ==
  /\ At(t, "load")
  /\ \/ cached_second_ = call[t].now /\ Goto(t, "await")
     \/ /\ cached_second_ # call[t].now
        /\ call' = [call EXCEPT ![t].expected = cached_second_, ![t].pc = "cas"]
  /\ UNCHANGED shared

\* Defect: the thread that loses the exchange updates the string.
ExchangeInverted(t) ==
  /\ At(t, "cas")
  /\ \/ /\ cached_second_ = call[t].expected
        /\ cached_second_' = call[t].now
        /\ Goto(t, "await") /\ UNCHANGED overlapped
     \/ /\ cached_second_ # call[t].expected
        /\ overlapped' = (overlapped \/ \E u \in Thread : call[u].pc \in Updating)
        /\ Goto(t, "lock") /\ UNCHANGED cached_second_
  /\ UNCHANGED <<clock, seq_, str>>

\* compare_exchange_strong: who wins updates the string.
Exchange(t) ==
  /\ At(t, "cas")
  /\ \/ /\ cached_second_ = call[t].expected
        /\ cached_second_' = call[t].now
        /\ overlapped' = (overlapped \/ \E u \in Thread : call[u].pc \in Updating)
        /\ Goto(t, "lock")
     \/ /\ cached_second_ # call[t].expected
        /\ Goto(t, "await") /\ UNCHANGED <<cached_second_, overlapped>>
  /\ UNCHANGED <<clock, seq_, str>>

\* The two fetch_add of maybe_update, and the memcpy between them.
Bump(t) ==
  /\ \/ At(t, "lock") /\ Goto(t, "write1")
     \/ At(t, "unlock") /\ Goto(t, "await")
  /\ seq_' = seq_ + 1
  /\ UNCHANGED <<clock, cached_second_, str, overlapped>>

Store(t) ==
  /\ \E i \in 1..2 :
       /\ At(t, <<"write1", "write2">>[i]) /\ Goto(t, <<"write2", "unlock">>[i])
       /\ str' = [str EXCEPT ![i] = <<call[t].now, seq_>>]
  /\ UNCHANGED <<clock, cached_second_, seq_, overlapped>>

\* The inner loop waits for an even seq_, the outer one for s2 = s1.
Await(t) ==
  /\ At(t, "await") /\ seq_ % 2 = 0
  /\ call' = [call EXCEPT ![t] = [Idle EXCEPT !.pc = "copy1", !.s1 = seq_,
                                                !.begun = call[t].begun]]
  /\ UNCHANGED shared

Copy(t) ==
  /\ \E i \in 1..2 :
       /\ At(t, <<"copy1", "copy2">>[i])
       /\ call' = [call EXCEPT ![t].out[i] = str[i],
                               ![t].pc = <<"copy2", "check">>[i]]
  /\ UNCHANGED shared

\* Defect: s2 is not compared.
CheckNothing(t) == At(t, "check") /\ Goto(t, "returned") /\ UNCHANGED shared

\* Defect: the test of the outer loop is inverted.
CheckInverted(t) ==
  /\ At(t, "check")
  /\ Goto(t, IF seq_ = call[t].s1 THEN "await" ELSE "returned")
  /\ UNCHANGED shared

Check(t) ==
  /\ At(t, "check")
  /\ Goto(t, IF seq_ = call[t].s1 THEN "returned" ELSE "await")
  /\ UNCHANGED shared

\* The caller has used its copy.
Done(t) == At(t, "returned") /\ call' = [call EXCEPT ![t] = Idle] /\ UNCHANGED shared

Step(t) ==
  \/ Load(t) \/ Exchange(t) \/ Bump(t) \/ Store(t)
  \/ Await(t) \/ Copy(t) \/ Check(t) \/ Done(t)

Next == Tick \/ \E t \in Thread : Begin(t) \/ Step(t)

Spec == Init /\ [][Next]_vars

\* Every thread that has made a call is scheduled.
FairSpec == Spec /\ \A t \in Thread : WF_vars(Step(t))

-----------------------------------------------------------------------------
(* Properties. *)

\* While updates do not overlap, a call returns one whole string, and none
\* older than the last update completed before the call began (the sequence
\* lock of get_datetime and get_date).
ReadsRegular ==
  ~overlapped => \A t \in Thread : At(t, "returned") =>
    /\ call[t].out[1] = call[t].out[2]
    /\ call[t].out[1][2] >= call[t].begun - 1

\* While updates do not overlap, the string shows the second cached_second_
\* names whenever no update is under way: a thread that finds its second there
\* is not left with the string of another.
SettledIsCurrent ==
  ~overlapped /\ (\A t \in Thread : call[t].pc \notin Updating) =>
    \A i \in 1..2 : str[i][1] = cached_second_

\* Updates may overlap as they like: seq_ is even again when they are done, so
\* no reader waits for ever.
CallsReturn == \A t \in Thread : call[t].pc # "idle" ~> call[t].pc = "idle"
=============================================================================
