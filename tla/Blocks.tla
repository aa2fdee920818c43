------------------------------- MODULE Blocks -------------------------------
(***************************************************************************)
(* BufPool and WriteBufBase: fixed blocks, handed out by a worker's pool,  *)
(* in which a channel drafts what it is going to send.                     *)
(*                                                                         *)
(* The operators work on a frame b: the pool's free_idx_queue_, the bytes  *)
(* of every block (data_size_ is their number) and the pending blocks of   *)
(* one channel.  append and prepend acquire blocks one by one and give     *)
(* them all back when one is missing; the loops are written in closed      *)
(* form, by the number of blocks they acquire.                             *)
(***************************************************************************)
EXTENDS Integers, Sequences, SequencesExt

CONSTANTS
  BufNum,    \* blocks of the pool
  BufSize,   \* bytes a block holds
  Capacity   \* blocks a channel's pending and send queues hold

\* The queues are arrays indexed modulo their size by a mask.
PowerOfTwo(n) == n \in Nat /\ \E k \in 0..n : n = 2^k

ASSUME BlocksAssumption ==
  PowerOfTwo(BufNum) /\ PowerOfTwo(Capacity) /\ BufSize \in Nat \ {0}

Block == 1..BufNum

\* The pool after its constructor.
AllFree == [i \in 1..BufNum |-> i]
AllEmpty == [k \in Block |-> <<>>]

Least(m, n) == IF m < n THEN m ELSE n

BlocksFor(n) == (n + BufSize - 1) \div BufSize

\* The i-th piece of d that fills a block.
Piece(d, i) == SubSeq(d, (i - 1) * BufSize + 1, Least(i * BufSize, Len(d)))

\* BufPool::release of the blocks bs, in this order.
Release(bs, b) ==
  [b EXCEPT !.free = @ \o bs,
            !.data = [k \in Block |-> IF k \in ToSet(bs) THEN <<>> ELSE @[k]]]

\* BufPool::acquire, n times.
Acquired(n, b) == SubSeq(b.free, 1, n)
Acquire(n, b) == [b EXCEPT !.free = SubSeq(@, n + 1, Len(@))]

\* What append can still write into the last pending block.
Room(b) ==
  IF b.pending = <<>> THEN 0 ELSE BufSize - Len(b.data[Last(b.pending)])

\* Blocks append needs: one even for nothing, if none is pending.
AppendNeeds(d, b) ==
  IF b.pending = <<>> /\ d = <<>> THEN 1
  ELSE IF Len(d) <= Room(b) THEN 0 ELSE BlocksFor(Len(d) - Room(b))

\* Blocks append gets before the pool or the queue is exhausted.
AppendGets(b) == Least(Len(b.free), Capacity - Len(b.pending))

Appends(d, b) == AppendNeeds(d, b) <= AppendGets(b)

\* Defect: after a failure the last block keeps the bytes copied into it.
AppendBytesKeepsTail(d, b) ==
  LET ok == Appends(d, b)
      got == Acquired(IF ok THEN AppendNeeds(d, b) ELSE AppendGets(b), b)
      first == SubSeq(d, 1, Least(Room(b), Len(d)))
      rest == SubSeq(d, Len(first) + 1, Len(d))
      t == Acquire(Len(got), b)
      u == [t EXCEPT !.data = [k \in Block |->
              IF \E i \in DOMAIN b.pending : i = Len(b.pending) /\ b.pending[i] = k
              THEN @[k] \o first ELSE @[k]]]
  IN  IF ~ok THEN Release(Reverse(got), u)
      ELSE [u EXCEPT
              !.pending = @ \o got,
              !.data = [k \in Block |->
                 IF k \in ToSet(got)
                 THEN @[k] \o Piece(rest, CHOOSE i \in DOMAIN got : got[i] = k)
                 ELSE @[k]]]

\* WriteBufBase::append.  The blocks of a failed call go back in reverse.
AppendBytes(d, b) ==
  LET ok == Appends(d, b)
      got == Acquired(IF ok THEN AppendNeeds(d, b) ELSE AppendGets(b), b)
      first == SubSeq(d, 1, Least(Room(b), Len(d)))
      rest == SubSeq(d, Len(first) + 1, Len(d))
      t == Acquire(Len(got), b)
  IN  IF ~ok THEN Release(Reverse(got), t)
      ELSE [t EXCEPT
              !.pending = @ \o got,
              !.data = [k \in Block |->
                 CASE k \in ToSet(got) ->
                        @[k] \o Piece(rest, CHOOSE i \in DOMAIN got : got[i] = k)
                   [] b.pending # <<>> /\ k = Last(b.pending) -> @[k] \o first
                   [] OTHER -> @[k]]]

\* Defect: the queue's capacity is not tested.
PrependsUnbounded(d, b) == BlocksFor(Len(d)) <= Len(b.free)

Prepends(d, b) ==
  /\ BlocksFor(Len(d)) <= Capacity - Len(b.pending)
  /\ BlocksFor(Len(d)) <= Len(b.free)

\* WriteBufBase::prepend.  A failed call has taken no block, or all of them
\* and put them back in the same order.
PrependBytes(d, b) ==
  LET got == Acquired(BlocksFor(Len(d)), b)
  IN  IF ~Prepends(d, b) THEN b
      ELSE [Acquire(Len(got), b) EXCEPT
              !.pending = got \o @,
              !.data = [k \in Block |->
                 IF k \in ToSet(got)
                 THEN Piece(d, CHOOSE i \in DOMAIN got : got[i] = k)
                 ELSE @[k]]]

\* WriteBufBase::discard_pending
DiscardPending(b) == [Release(b.pending, b) EXCEPT !.pending = <<>>]

\* The bytes of a sequence of blocks.
Bytes(bs, data) == FlattenSeq([i \in DOMAIN bs |-> data[bs[i]]])
=============================================================================
