------------------------ MODULE TimestampCacheProofs ------------------------
(***************************************************************************)
(* The sequence lock of TimestampCache, for every number of threads and of *)
(* seconds.                                                                *)
(***************************************************************************)
EXTENDS TimestampCache, TLAPS

Half == Int \X Int

Call ==
  [pc: {"idle", "load", "cas", "lock", "write1", "write2", "unlock", "await",
        "copy1", "copy2", "check", "returned"},
   now: Int, expected: Int, s1: Int, out: [1..2 -> Half], begun: Int]

TypeOK ==
  /\ clock \in Int /\ cached_second_ \in Int /\ seq_ \in Nat
  /\ str \in [1..2 -> Half]
  /\ call \in [Thread -> Call]
  /\ overlapped \in BOOLEAN

\* seq_ is odd while a thread is between its two fetch_add.
Writing == {"write1", "write2", "unlock"}

OneUpdate ==
  \A t, u \in Thread : call[t].pc \in Updating /\ call[u].pc \in Updating => t = u

Parity == seq_ % 2 = (IF \E t \in Thread : call[t].pc \in Writing THEN 1 ELSE 0)

\* The string between updates, and how far an update has come.
Settled == str[1] = str[2] /\ str[1][2] >= seq_ - 1

Strings ==
  /\ (\A t \in Thread : call[t].pc \notin Writing) => Settled
  /\ (\A t \in Thread : call[t].pc \notin Updating) => str[1][1] = cached_second_
  /\ \A t \in Thread :
       /\ call[t].pc \in Updating => call[t].now = cached_second_
       /\ call[t].pc \in {"write2", "unlock"} => str[1] = <<call[t].now, seq_>>
       /\ call[t].pc = "unlock" => str[2] = <<call[t].now, seq_>>

\* What a reader has copied is what is there, unless seq_ has moved on.
Reader(c) ==
  /\ c.begun <= seq_
  /\ c.pc \in {"copy1", "copy2", "check"} => c.s1 % 2 = 0 /\ c.begun <= c.s1 /\ c.s1 <= seq_
  /\ c.pc \in {"copy2", "check"} /\ seq_ = c.s1 => c.out[1] = str[1]
  /\ c.pc = "check" /\ seq_ = c.s1 => c.out[2] = str[2]
  /\ c.pc = "returned" => c.out[1] = c.out[2] /\ c.out[1][2] >= c.begun - 1

Regular == OneUpdate /\ Parity /\ Strings /\ \A t \in Thread : Reader(call[t])

IInv == TypeOK /\ (~overlapped => Regular)
-----------------------------------------------------------------------------
\* A step of thread t changes call[t] alone, to another state of a call.
Moves(t) ==
  /\ call'[t] \in Call
  /\ call' = [call EXCEPT ![t] = call'[t]]

\* A step of maybe_update or a getter moves one call and keeps the others.
LEMMA StepMoves ==
  ASSUME NEW t \in Thread, TypeOK, Begin(t) \/ Step(t)
  PROVE  Moves(t)
<1>1. call[t] \in Call /\ call \in [Thread -> Call] /\ str \in [1..2 -> Half]
      /\ clock \in Int /\ cached_second_ \in Int /\ seq_ \in Int
  BY DEF TypeOK
<1>2. ASSUME NEW pc, Goto(t, pc), [call[t] EXCEPT !.pc = pc] \in Call PROVE Moves(t)
  BY <1>1, <1>2 DEF Goto, Moves
<1>3. Blank \in [1..2 -> Half]
  BY DEF Blank, Half
<1>4. CASE Begin(t) \/ Await(t) \/ Done(t)
  <2>1. ASSUME NEW c \in Call, call' = [call EXCEPT ![t] = c] PROVE Moves(t)
    BY <1>1, <2>1 DEF Moves
  <2>2. Idle \in Call
    BY <1>3 DEF Idle, Call
  <2>3. [Idle EXCEPT !.pc = "load", !.now = clock, !.begun = seq_] \in Call
    BY <1>1, <2>2, ZenonT(30) DEF Call
  <2>4. [Idle EXCEPT !.pc = "copy1", !.s1 = seq_, !.begun = call[t].begun] \in Call
    BY <1>1, <2>2, ZenonT(30) DEF Call
  <2> QED
    BY <1>4, <2>1, <2>2, <2>3, <2>4 DEF Begin, Await, Done
<1>5. CASE Load(t)
  <2>1. CASE Goto(t, "await")
    BY <1>1, <1>2, <2>1, ZenonT(30) DEF Call
  <2>2. CASE call' = [call EXCEPT ![t].expected = cached_second_, ![t].pc = "cas"]
    BY <1>1, <2>2, ZenonT(30) DEF Moves, Call
  <2> QED
    BY <1>5, <2>1, <2>2 DEF Load
<1>6. CASE Exchange(t) \/ Bump(t) \/ Check(t)
  <2>1. PICK pc \in {"lock", "await", "write1", "returned"} : Goto(t, pc)
    BY <1>6 DEF Exchange, Bump, Check
  <2> QED
    BY <1>1, <1>2, <2>1, ZenonT(30) DEF Call
<1>7. CASE Store(t)
  <2>1. PICK pc \in {"write2", "unlock"} : Goto(t, pc)
    BY <1>7 DEF Store
  <2> QED
    BY <1>1, <1>2, <2>1, ZenonT(30) DEF Call
<1>8. CASE Copy(t)
  <2>1. PICK i \in 1..2 : call' = [call EXCEPT ![t].out[i] = str[i],
                                               ![t].pc = <<"copy2", "check">>[i]]
    BY <1>8, ZenonT(30) DEF Copy
  <2>2. str[i] \in Half /\ <<"copy2", "check">>[i] \in {"copy2", "check"}
    BY <1>1
  <2> QED
    BY <1>1, <2>1, <2>2, ZenonT(30) DEF Moves, Call
<1> QED
  BY <1>4, <1>5, <1>6, <1>7, <1>8 DEF Step

\* Every step keeps the types.
LEMMA TypeKept == TypeOK /\ [Next]_vars => TypeOK'
<1> SUFFICES ASSUME TypeOK, [Next]_vars PROVE TypeOK'
  OBVIOUS
<1>1. CASE Tick
  BY <1>1 DEF Tick, TypeOK
<1>2. ASSUME NEW t \in Thread, Begin(t) \/ Step(t) PROVE TypeOK'
  <2>1. call' \in [Thread -> Call]
    BY <1>2, StepMoves DEF Moves, TypeOK
  <2>2. call[t] \in Call
    BY DEF TypeOK
  <2>3. CASE Begin(t) \/ Load(t) \/ Await(t) \/ Copy(t) \/ Check(t) \/ Done(t)
    BY <2>1, <2>3 DEF Begin, Load, Await, Copy, Check, Done, shared, TypeOK
  <2>4. CASE Exchange(t)
    BY <2>1, <2>2, <2>4, ZenonT(30) DEF Exchange, TypeOK, Call
  <2>5. CASE Bump(t)
    BY <2>1, <2>5 DEF Bump, TypeOK
  <2>6. CASE Store(t)
    <3>1. PICK i \in 1..2 : str' = [str EXCEPT ![i] = <<call[t].now, seq_>>]
      BY <2>6, ZenonT(30) DEF Store
    <3>2. <<call[t].now, seq_>> \in Half
      BY <2>2 DEF TypeOK, Call, Half
    <3> QED
      BY <2>1, <2>6, <3>1, <3>2 DEF Store, TypeOK
  <2> QED
    BY <1>2, <2>3, <2>4, <2>5, <2>6 DEF Step
<1>3. CASE UNCHANGED vars
  BY <1>3 DEF vars, shared, TypeOK
<1> QED
  BY <1>1, <1>2, <1>3 DEF Next

-----------------------------------------------------------------------------
\* A step outside of maybe_update's critical part leaves the strings alone.
LEMMA ReadOnly ==
  ASSUME NEW t \in Thread, TypeOK, Regular, Moves(t),
         UNCHANGED <<cached_second_, seq_, str>>,
         call[t].pc \notin Updating, call'[t].pc \notin Updating,
         Reader(call'[t])
  PROVE  Regular'
<1>1. call \in [Thread -> Call] /\ call' \in [Thread -> Call]
      /\ \A u \in Thread : u # t => call'[u] = call[u]
  BY DEF Moves, TypeOK
<1>2. \A u \in Thread : call'[u] = call[u] \/ (u = t /\ call'[u].pc \notin Writing)
  BY <1>1 DEF Updating, Writing
<1>3. \A u \in Thread : call[u].pc \in Updating <=> call'[u].pc \in Updating
  BY <1>1
<1>4. \A u \in Thread : call[u].pc \in Writing <=> call'[u].pc \in Writing
  BY <1>1 DEF Updating, Writing
<1>5. OneUpdate'
  BY <1>3 DEF Regular, OneUpdate
<1>6. Parity'
  BY <1>4 DEF Regular, Parity
<1>7. Strings'
  BY <1>1, <1>2, <1>3, <1>4 DEF Regular, Strings, Settled, Updating, Writing
<1>8. \A u \in Thread : Reader(call'[u])
  BY <1>1 DEF Regular
<1>9. (\A u \in Thread : Reader(call[u]))'
  BY <1>8 DEF Reader
<1> QED
  BY <1>5, <1>6, <1>7, <1>9 DEF Regular

\* maybe_update up to the exchange, and a lost exchange.
LEMMA CallKept ==
  ASSUME NEW t \in Thread, TypeOK, Regular,
         Begin(t) \/ Load(t) \/ Done(t) \/ (Exchange(t) /\ cached_second_ # call[t].expected)
  PROVE  Regular'
<1>1. Moves(t) /\ call \in [Thread -> Call] /\ call[t] \in Call /\ Reader(call[t])
  BY StepMoves DEF Step, TypeOK, Regular
<1>2. CASE Begin(t)
  <2>1. /\ call[t].pc = "idle" /\ call'[t].pc = "load" /\ call'[t].begun = seq_
        /\ UNCHANGED <<cached_second_, seq_, str>>
    BY <1>1, <1>2 DEF Begin, At, Idle, shared
  <2> QED
    BY <1>1, <2>1, ReadOnly DEF Reader, Updating, TypeOK
<1>3. CASE Load(t)
  <2>1. /\ call[t].pc = "load" /\ call'[t].pc \in {"await", "cas"}
        /\ call'[t].begun = call[t].begun
        /\ UNCHANGED <<cached_second_, seq_, str>>
    BY <1>1, <1>3 DEF Load, At, Goto, shared, Call
  <2> QED
    BY <1>1, <2>1, ReadOnly DEF Reader, Updating
<1>4. CASE Done(t)
  <2>1. /\ call[t].pc = "returned" /\ call'[t].pc = "idle" /\ call'[t].begun = 0
        /\ UNCHANGED <<cached_second_, seq_, str>>
    BY <1>1, <1>4 DEF Done, At, Idle, shared
  <2> QED
    BY <1>1, <2>1, ReadOnly DEF Reader, Updating, TypeOK
<1>5. CASE Exchange(t) /\ cached_second_ # call[t].expected
  <2>1. /\ call[t].pc = "cas" /\ call'[t].pc = "await"
        /\ call'[t].begun = call[t].begun
        /\ UNCHANGED <<cached_second_, seq_, str>>
    BY <1>1, <1>5 DEF Exchange, At, Goto, Call
  <2> QED
    BY <1>1, <2>1, ReadOnly DEF Reader, Updating
<1> QED
  BY <1>2, <1>3, <1>4, <1>5

\* get_datetime's copy: what it has is what is there while seq_ stays the same.
LEMMA CopyKept ==
  ASSUME NEW t \in Thread, TypeOK, Regular, Await(t) \/ Copy(t) \/ Check(t)
  PROVE  Regular'
<1>1. /\ Moves(t) /\ call \in [Thread -> Call] /\ call[t] \in Call /\ Reader(call[t])
      /\ UNCHANGED <<cached_second_, seq_, str>> /\ seq_ \in Nat
  BY StepMoves, ZenonT(30) DEF Step, TypeOK, Regular, Await, Copy, Check, shared
<1>2. CASE Await(t)
  <2>1. /\ call[t].pc = "await" /\ seq_ % 2 = 0
        /\ call'[t].pc = "copy1" /\ call'[t].s1 = seq_ /\ call'[t].begun = call[t].begun
    BY <1>1, <1>2 DEF Await, At, Idle
  <2> QED
    BY <1>1, <2>1, ReadOnly DEF Reader, Updating
<1>3. CASE Copy(t)
  <2>1. /\ call'[t].s1 = call[t].s1 /\ call'[t].begun = call[t].begun
        /\ \/ /\ call[t].pc = "copy1" /\ call'[t].pc = "copy2"
              /\ call'[t].out[1] = str[1]
           \/ /\ call[t].pc = "copy2" /\ call'[t].pc = "check"
              /\ call'[t].out[1] = call[t].out[1] /\ call'[t].out[2] = str[2]
    BY <1>1, <1>3 DEF Copy, At, Call
  <2> QED
    BY <1>1, <2>1, ReadOnly DEF Reader, Updating
<1>4. CASE Check(t)
  <2>1. /\ call[t].pc = "check" /\ call'[t].pc = (IF seq_ = call[t].s1 THEN "returned" ELSE "await")
        /\ call'[t].out = call[t].out /\ call'[t].begun = call[t].begun
    BY <1>1, <1>4 DEF Check, At, Goto, Call
  <2>2. CASE seq_ = call[t].s1
    <3>1. seq_ % 2 = 0 /\ call[t].out[1] = str[1] /\ call[t].out[2] = str[2]
          /\ call[t].begun <= seq_
      BY <1>1, <2>1, <2>2 DEF Reader
    <3>2. Settled
      BY <3>1 DEF Regular, Parity, Strings
    <3>3. str[1][2] \in Int /\ call[t].begun \in Int
      BY <1>1 DEF TypeOK, Half, Call
    <3> QED
      BY <1>1, <2>1, <2>2, <3>1, <3>2, <3>3, ReadOnly DEF Reader, Updating, Settled
  <2>3. CASE seq_ # call[t].s1
    BY <1>1, <2>1, <2>3, ReadOnly DEF Reader, Updating
  <2> QED
    BY <2>2, <2>3
<1> QED
  BY <1>2, <1>3, <1>4

-----------------------------------------------------------------------------
\* Where seq_ grows, or is odd while the string changes, no reader compares
\* equal any more.
LEMMA ReadersOutdated ==
  ASSUME NEW t \in Thread, TypeOK, Regular, Moves(t), seq_' \in Nat,
         \/ seq_' = seq_ + 1
         \/ seq_' = seq_ /\ (str' = str \/ seq_ % 2 = 1),
         call[t].pc \in Updating \cup {"cas"},
         call'[t].pc \in Updating \cup {"await"},
         call'[t].begun = call[t].begun
  PROVE  (\A u \in Thread : Reader(call[u]))'
<1> SUFFICES ASSUME NEW u \in Thread PROVE Reader(call[u])'
  OBVIOUS
<1>1. call[u] \in Call /\ Reader(call[u]) /\ seq_ \in Nat
  BY DEF Regular, TypeOK
<1>2. CASE u = t
  BY <1>1, <1>2 DEF Reader, Updating, Call
<1>3. CASE u # t
  <2>1. call'[u] = call[u]
    BY <1>3 DEF Moves, TypeOK
  <2> QED
    BY <1>1, <2>1 DEF Reader, Call
<1> QED
  BY <1>2, <1>3

\* maybe_update after a won exchange.
LEMMA UpdateKept ==
  ASSUME NEW t \in Thread, TypeOK, Regular, ~overlapped',
         (Exchange(t) /\ cached_second_ = call[t].expected) \/ Bump(t) \/ Store(t)
  PROVE  Regular'
<1>1. /\ Moves(t) /\ call \in [Thread -> Call] /\ call[t] \in Call
      /\ seq_ \in Nat /\ str \in [1..2 -> Half]
  BY StepMoves DEF Step, TypeOK
<1>2. \A u \in Thread : u # t => call'[u] = call[u]
  BY <1>1 DEF Moves
<1>3. CASE Exchange(t) /\ cached_second_ = call[t].expected
  <2>1. /\ call[t].pc = "cas" /\ call'[t] = [call[t] EXCEPT !.pc = "lock"]
        /\ cached_second_' = call[t].now /\ UNCHANGED <<seq_, str>>
        /\ \A u \in Thread : call[u].pc \notin Updating
    BY <1>1, <1>3, ZenonT(30) DEF Exchange, At, Goto
  <2>2. /\ call'[t].pc = "lock" /\ call'[t].now = call[t].now
        /\ call'[t].begun = call[t].begun
    BY <1>1, <2>1 DEF Call
  <2>3. OneUpdate' /\ Parity' /\ Strings'
    BY <1>2, <2>1, <2>2, ZenonT(30) DEF Regular, OneUpdate, Parity, Strings, Settled, Updating, Writing
  <2>4. (\A u \in Thread : Reader(call[u]))'
    BY <1>1, <2>1, <2>2, ReadersOutdated, ZenonT(30) DEF Updating
  <2> QED
    BY <2>3, <2>4 DEF Regular
<1>4. CASE Bump(t)
  <2>1. /\ seq_' = seq_ + 1 /\ UNCHANGED <<cached_second_, str>>
        /\ call'[t].now = call[t].now /\ call'[t].begun = call[t].begun
        /\ \/ call[t].pc = "lock" /\ call'[t].pc = "write1"
           \/ call[t].pc = "unlock" /\ call'[t].pc = "await"
    BY <1>1, <1>4 DEF Bump, At, Goto, Call
  <2>2. \A u \in Thread : u # t => call[u].pc \notin Updating
    BY <2>1 DEF Regular, OneUpdate, Updating
  <2>3. OneUpdate'
    BY <1>2, <2>2 DEF OneUpdate
  <2>4. Parity'
    BY <1>1, <1>2, <2>1, <2>2 DEF Regular, Parity, Updating, Writing
  <2>5. Strings'
    BY <1>1, <1>2, <2>1, <2>2 DEF Regular, Strings, Settled, Updating, Writing
  <2>6. (\A u \in Thread : Reader(call[u]))'
    BY <1>1, <2>1, ReadersOutdated DEF Updating
  <2> QED
    BY <2>3, <2>4, <2>5, <2>6 DEF Regular
<1>5. CASE Store(t)
  <2>1. /\ UNCHANGED <<cached_second_, seq_>>
        /\ call'[t].now = call[t].now /\ call'[t].begun = call[t].begun
        /\ \/ /\ call[t].pc = "write1" /\ call'[t].pc = "write2"
              /\ str'[1] = <<call[t].now, seq_>>
           \/ /\ call[t].pc = "write2" /\ call'[t].pc = "unlock"
              /\ str'[1] = str[1] /\ str'[2] = <<call[t].now, seq_>>
    BY <1>1, <1>5 DEF Store, At, Goto, Call
  <2>2. seq_ % 2 = 1
    BY <2>1 DEF Regular, Parity, Writing
  <2>3. \A u \in Thread : u # t => call[u].pc \notin Updating
    BY <2>1 DEF Regular, OneUpdate, Updating
  <2>4. OneUpdate' /\ Parity'
    BY <1>2, <2>1, <2>2, <2>3 DEF OneUpdate, Parity, Updating, Writing
  <2>5. Strings'
    BY <1>2, <2>1, <2>3 DEF Regular, Strings, Settled, Updating, Writing
  <2>6. (\A u \in Thread : Reader(call[u]))'
    BY <1>1, <2>1, <2>2, ReadersOutdated DEF Updating
  <2> QED
    BY <2>4, <2>5, <2>6 DEF Regular
<1> QED
  BY <1>3, <1>4, <1>5

-----------------------------------------------------------------------------
\* The invariant holds in every state.
THEOREM Inductive == Spec => []IInv
<1>1. Init => IInv
  <2> SUFFICES ASSUME Init PROVE IInv
    OBVIOUS
  <2>1. Blank \in [1..2 -> Half] /\ Blank[1] = <<0, 0>> /\ Blank[2] = <<0, 0>>
    BY DEF Blank, Half
  <2>2. Idle \in Call /\ Idle.pc = "idle" /\ Idle.begun = 0
    BY <2>1 DEF Idle, Call
  <2>3. /\ call \in [Thread -> Call]
        /\ \A t \in Thread : call[t].pc = "idle" /\ call[t].begun = 0
    BY <2>2 DEF Init
  <2>4. TypeOK
    <3>1. overlapped \in BOOLEAN
      BY Zenon DEF Init
    <3>2. clock \in Int /\ cached_second_ \in Int /\ seq_ \in Nat /\ str \in [1..2 -> Half]
      BY <2>1 DEF Init
    <3> QED
      BY <2>3, <3>1, <3>2 DEF TypeOK
  <2>5. OneUpdate /\ Parity /\ Strings /\ \A t \in Thread : Reader(call[t])
    BY <2>1, <2>3 DEF Init, OneUpdate, Parity, Strings, Settled, Reader, Updating, Writing
  <2> QED
    BY <2>4, <2>5 DEF IInv, Regular
<1>2. IInv /\ [Next]_vars => IInv'
  <2> SUFFICES ASSUME IInv, [Next]_vars, ~overlapped' PROVE Regular'
    BY TypeKept DEF IInv
  <2>1. TypeOK
    BY DEF IInv
  <2>2. Regular
    BY <2>1, ZenonT(30) DEF IInv, TypeOK, Next, Step, Tick, Begin, Load, Exchange, Bump, Store, Await,
                Copy, Check, Done, shared, vars
  <2>3. CASE Tick \/ UNCHANGED vars
    <3>1. UNCHANGED <<cached_second_, seq_, str, call>>
      BY <2>3 DEF Tick, vars, shared
    <3> QED
      BY <2>2, <3>1 DEF Regular, OneUpdate, Parity, Strings, Settled, Reader
  <2>4. ASSUME NEW t \in Thread, Begin(t) \/ Step(t) PROVE Regular'
    <3>1. Exchange(t) => cached_second_ # call[t].expected \/ cached_second_ = call[t].expected
      OBVIOUS
    <3> QED
      BY <2>1, <2>2, <2>4, <3>1, CallKept, CopyKept, UpdateKept DEF Step
  <2> QED
    BY <2>3, <2>4 DEF Next
<1> QED
  BY <1>1, <1>2, PTL DEF Spec

\* The sequence lock: while updates do not overlap, get_datetime and get_date
\* return one whole string that is no older than the call, with any number of
\* threads.
THEOREM ReadsAreRegular == Spec => []ReadsRegular
<1>1. IInv => ReadsRegular
  BY DEF IInv, Regular, Reader, ReadsRegular, At
<1> QED
  BY <1>1, Inductive, PTL

\* While updates do not overlap, the string between two updates is the one of
\* the second in cached_second_.
THEOREM StringIsCurrent == Spec => []SettledIsCurrent
<1>1. ASSUME IInv PROVE SettledIsCurrent
  <2> SUFFICES ASSUME ~overlapped, \A t \in Thread : call[t].pc \notin Updating
               PROVE  \A i \in 1..2 : str[i][1] = cached_second_
    BY DEF SettledIsCurrent
  <2>1. str[1] = str[2] /\ str[1][1] = cached_second_
    BY <1>1 DEF IInv, Regular, Strings, Settled, Updating, Writing
  <2> QED
    BY <2>1
<1> QED
  BY <1>1, Inductive, PTL
=============================================================================
