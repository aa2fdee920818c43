--------------------------- MODULE IoThreadProofs ---------------------------
(***************************************************************************)
(* The safety properties of IoThread for every number of workers and every *)
(* list of CPUs.                                                           *)
(***************************************************************************)
EXTENDS IoThread, TLAPS

State ==
  [owner: {"none", "ctor", "up", "members", "base", "stopping", "freed"},
   at: {"none", "bind", "begin", "test", "wait", "ended"},
   ready: BOOLEAN, inited: BOOLEAN, pool: BOOLEAN, stop: BOOLEAN,
   wake: {"none", "prepared", "armed", "posted", "reaped"}, posted: BOOLEAN]

\* What owner and thread of a worker know of each other.  ready_ is the link in
\* the constructor, the stop token and the join the link in the destructor.
Handshake(r) ==
  /\ r.at \in {"begin", "test", "wait"} => r.inited
  /\ r.owner \in {"up", "members", "base", "stopping"} => r.inited
  /\ r.owner = "up" \/ (r.owner = "ctor" /\ r.at # "bind") => r.pool
  /\ r.at = "bind" => r.owner = "ctor"
  /\ r.ready => r.owner = "ctor" /\ r.inited /\ r.at # "bind"
  /\ r.stop \/ r.at = "ended" => r.owner \in {"stopping", "freed"}
  /\ r.owner = "freed" => r.at = "ended"

\* A worker exists only if the CPUs were counted.
CpusCounted ==
  /\ affinity \in BOOLEAN /\ cpu_list \in Seq(Nat)
  /\ affinity /\ (server = "started" \/ \E i \in Worker : w[i].owner # "none")
       => N * 2 <= Len(cpu_list)

IInv ==
  /\ w \in [Worker -> State]
  /\ \A i \in Worker : Handshake(w[i])
  /\ CpusCounted

-----------------------------------------------------------------------------
(* Every step of a worker or of its owner keeps the handshake. *)

Keeps(i) == w'[i] \in State /\ Handshake(w'[i])

\* The constructor's side.
LEMMA StartKeeps ==
  ASSUME NEW i \in Worker, IInv, StartThread(i) \/ InitInThread(i) \/ AwaitReady(i)
  PROVE  Keeps(i) /\ (w[i].owner = "none" => server = "started" \/ w'[i].owner = "none")
<1>1. w[i] \in State /\ Handshake(w[i]) /\ w \in [Worker -> State]
  BY DEF IInv
<1>2. CASE StartThread(i)
  BY <1>1, <1>2, ZenonT(30) DEF StartThread, Become, Keeps, State, Handshake
<1>3. CASE InitInThread(i)
  BY <1>1, <1>3, ZenonT(30) DEF InitInThread, Become, Keeps, State, Handshake
<1>4. CASE AwaitReady(i)
  BY <1>1, <1>4, ZenonT(30) DEF AwaitReady, Become, Keeps, State, Handshake
<1> QED
  BY <1>2, <1>3, <1>4

\* run_loop, and the clients.
LEMMA RunKeeps ==
  ASSUME NEW i \in Worker, IInv,
         BeginLoop(i) \/ EnterRing(i) \/ Dispatch(i) \/ OnStop(i) \/ Post(i)
  PROVE  Keeps(i) /\ w'[i].owner = w[i].owner
<1>1. w[i] \in State /\ Handshake(w[i]) /\ w \in [Worker -> State]
  BY DEF IInv
<1>2. CASE BeginLoop(i)
  BY <1>1, <1>2, ZenonT(30) DEF BeginLoop, Become, Keeps, State, Handshake
<1>3. CASE EnterRing(i)
  BY <1>1, <1>3, ZenonT(30) DEF EnterRing, Become, Keeps, State, Handshake
<1>4. CASE Dispatch(i)
  BY <1>1, <1>4, ZenonT(30) DEF Dispatch, Become, Keeps, State, Handshake
<1>5. CASE OnStop(i)
  BY <1>1, <1>5 DEF OnStop, Become, Keeps, State, Handshake
<1>6. CASE Post(i)
  BY <1>1, <1>6, ZenonT(30) DEF Post, Become, Keeps, State, Handshake
<1> QED
  BY <1>2, <1>3, <1>4, <1>5, <1>6

\* The destructors.
LEMMA DestroyKeeps ==
  ASSUME NEW i \in Worker, IInv, DestroyWorker(i)
  PROVE  Keeps(i) /\ w[i].owner # "none"
<1> DEFINE r == DestroyStep(w[i], FdOpen(i))
<1>1. w[i] \in State /\ Handshake(w[i]) /\ w \in [Worker -> State]
  BY DEF IInv
<1>2. r \in State /\ Handshake(r)
  <2>1. CASE w[i].owner = "up"
    BY <1>1, <2>1 DEF DestroyStep, State, Handshake
  <2>2. CASE w[i].owner = "members"
    BY <1>1, <2>2 DEF DestroyStep, State, Handshake
  <2>3. CASE w[i].owner = "base"
    BY <1>1, <2>3, ZenonT(30) DEF DestroyStep, State, Handshake
  <2>4. CASE w[i].owner = "stopping"
    BY <1>1, <2>4, ZenonT(30) DEF DestroyStep, DestroyWorker, State, Handshake
  <2> QED
    BY <2>1, <2>2, <2>3, <2>4 DEF DestroyWorker
<1> HIDE DEF r
<1>3. w' = [w EXCEPT ![i] = r] /\ w[i].owner # "none"
  BY DEF r, DestroyWorker, Become
<1> QED
  BY <1>1, <1>2, <1>3 DEF Keeps

-----------------------------------------------------------------------------
\* The invariant holds in every state.
THEOREM Inductive == Spec => []IInv
<1>1. Init => IInv
  BY IoThreadAssumption DEF Init, IInv, State, Handshake, CpusCounted
<1>2. IInv /\ [Next]_vars => IInv'
  <2> SUFFICES ASSUME IInv, [Next]_vars PROVE IInv'
    OBVIOUS
  <2>1. ASSUME NEW i \in Worker, NEW r, Become(i, r), Keeps(i),
               w[i].owner = "none" => server = "started" \/ w'[i].owner = "none"
        PROVE  IInv'
    <3>1. w' = [w EXCEPT ![i] = r] /\ w \in [Worker -> State]
      BY <2>1 DEF Become, IInv
    <3>2. \A j \in Worker : w'[j] = IF j = i THEN w'[i] ELSE w[j]
      BY <3>1
    <3>3. w' \in [Worker -> State] /\ \A j \in Worker : Handshake(w'[j])
      BY <2>1, <3>1, <3>2 DEF IInv, Keeps
    <3>4. CpusCounted'
      BY <2>1, <3>2 DEF IInv, CpusCounted, Become
    <3> QED
      BY <3>3, <3>4 DEF IInv, Handshake
  <2>2. CASE StartServer \/ DestroyServer
    <3>1. UNCHANGED <<affinity, cpu_list, w>>
      BY <2>2 DEF StartServer, DestroyServer
    <3>2. CpusCounted'
      BY <2>2, <3>1, IoThreadAssumption DEF StartServer, DestroyServer, IInv, CpusCounted
    <3> QED
      BY <3>1, <3>2 DEF IInv, Handshake
  <2>3. ASSUME NEW i \in Worker, StartThread(i) \/ InitInThread(i) \/ AwaitReady(i)
        PROVE  IInv'
    <3>1. \E r : Become(i, r)
      BY <2>3 DEF StartThread, InitInThread, AwaitReady
    <3> QED
      BY <2>1, <2>3, <3>1, StartKeeps
  <2>4. ASSUME NEW i \in Worker,
               BeginLoop(i) \/ EnterRing(i) \/ Dispatch(i) \/ OnStop(i) \/ Post(i)
        PROVE  IInv'
    <3>1. \E r : Become(i, r)
      BY <2>4 DEF BeginLoop, EnterRing, Dispatch, OnStop, Post
    <3> QED
      BY <2>1, <2>4, <3>1, RunKeeps
  <2>5. ASSUME NEW i \in Worker, DestroyWorker(i)
        PROVE  IInv'
    <3>1. \E r : Become(i, r)
      BY <2>5 DEF DestroyWorker
    <3> QED
      BY <2>1, <2>5, <3>1, DestroyKeeps
  <2>6. CASE UNCHANGED vars
    BY <2>6 DEF vars, IInv, Handshake, CpusCounted
  <2> QED
    BY <2>2, <2>3, <2>4, <2>5, <2>6 DEF Next, Run
<1> QED
  BY <1>1, <1>2, PTL DEF Spec

\* A worker's loop and its server find the rings and buffers: they are made
\* before the loop begins and before the constructor is done, and the join comes
\* before their destruction (start_thread, the order of IoThread's members); the
\* pool of channels is there until the worker's destruction begins.
THEOREM ResourcesAreThere == Spec => []ResourcesThere
<1>1. IInv => ResourcesThere
  BY DEF IInv, Handshake, ResourcesThere
<1> QED
  BY <1>1, Inductive, PTL

\* In a list in ascending order two entries with one between them differ by
\* more than one.
LEMMA Ascending ==
  ASSUME NEW s, NEW n \in Nat, NEW p \in 1..n, NEW q \in 1..n, NEW r \in 1..n,
         \A k \in 1..n : s[k] \in Nat,
         \A j, k \in 1..n : j < k => s[j] < s[k],
         p < q, q < r
  PROVE  s[p] \in Nat /\ s[r] \in Nat /\ s[p] + 1 < s[r]
<1>1. s[p] \in Nat /\ s[q] \in Nat /\ s[r] \in Nat
  OBVIOUS
<1>2. s[p] < s[q] /\ s[q] < s[r]
  OBVIOUS
<1> QED
  BY <1>1, <1>2

\* The entries that start takes for two workers, and one in between.
LEMMA Indices ==
  ASSUME NEW n \in Nat, NEW m \in Nat, m * 2 <= n,
         NEW a \in 0..m - 1, NEW b \in 0..m - 1, a < b
  PROVE  /\ a * 2 + 1 \in 1..n /\ a * 2 + 2 \in 1..n /\ b * 2 + 1 \in 1..n
         /\ a * 2 + 1 < a * 2 + 2 /\ a * 2 + 2 < b * 2 + 1
OBVIOUS

\* On a machine whose CPUs are listed in ascending order no two threads, of
\* workers or of the kernel, are bound to the same CPU.
THEOREM CpusAreOwn == Spec => []OwnCpus
<1>1. ASSUME IInv PROVE OwnCpus
  <2> SUFFICES ASSUME affinity,
                      \A j, k \in DOMAIN cpu_list : j < k => cpu_list[j] < cpu_list[k],
                      NEW i \in Worker, NEW j \in Worker, i # j,
                      w[i].owner # "none", w[j].owner # "none"
               PROVE  Cpus(i) \cap Cpus(j) = {}
    BY DEF OwnCpus
  <2>1. /\ cpu_list \in Seq(Nat) /\ N * 2 <= Len(cpu_list)
        /\ i \in 0..N - 1 /\ j \in 0..N - 1 /\ N \in Nat
    BY <1>1, IoThreadAssumption DEF IInv, CpusCounted, Worker
  <2>2. /\ Len(cpu_list) \in Nat /\ DOMAIN cpu_list = 1..Len(cpu_list)
        /\ \A k \in 1..Len(cpu_list) : cpu_list[k] \in Nat
    BY <2>1
  <2>3. ASSUME NEW a \in 0..N - 1, NEW b \in 0..N - 1, a < b
        PROVE  /\ cpu_list[a * 2 + 1] \in Nat /\ cpu_list[b * 2 + 1] \in Nat
               /\ cpu_list[a * 2 + 1] + 1 < cpu_list[b * 2 + 1]
    <3> DEFINE p == a * 2 + 1
               q == a * 2 + 2
               r == b * 2 + 1
    <3>1. /\ p \in 1..Len(cpu_list) /\ q \in 1..Len(cpu_list) /\ r \in 1..Len(cpu_list)
          /\ p < q /\ q < r
      BY <2>1, <2>2, <2>3, Indices
    <3> HIDE DEF p, q, r
    <3>2. cpu_list[p] \in Nat /\ cpu_list[r] \in Nat /\ cpu_list[p] + 1 < cpu_list[r]
      BY <2>2, <3>1, Ascending
    <3> QED
      BY <3>2 DEF p, r
  <2>4. i < j \/ j < i
    BY <2>1
  <2>5. /\ cpu_id(i) \in Nat /\ cpu_id(j) \in Nat
        /\ cpu_id(i) + 1 < cpu_id(j) \/ cpu_id(j) + 1 < cpu_id(i)
    BY <2>1, <2>3, <2>4 DEF cpu_id
  <2> QED
    BY <2>5 DEF Cpus
<1> QED
  BY <1>1, Inductive, PTL
=============================================================================
