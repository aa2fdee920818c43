------------------------------ MODULE IoThread ------------------------------
(***************************************************************************)
(* The life of a server's workers: TcpServer::start (UdpServer::start)     *)
(* creates them, run_loop waits and dispatches, the destructors of the     *)
(* server and of its workers take them down one after the other.  The      *)
(* completions themselves are handled in TcpWorker and UdpWorker.          *)
(***************************************************************************)
EXTENDS Naturals, Sequences

CONSTANTS
  N,          \* thread_nums_
  CpuLists    \* what get_cpu_list may return

ASSUME IoThreadAssumption == N \in Nat \ {0} /\ CpuLists \subseteq Seq(Nat)

VARIABLES
  affinity,   \* cpu_affinity_: SQPOLL, and the loop polls
  cpu_list,
  server,     \* new, started, failed; plain once ~TcpEchoServer is done
  w           \* a worker: what its owner has done with it, where its thread is,
              \* ready_, the members of IoThread and those of TcpThread (the pool
              \* of channels) are there, the stop token, the read of wakeup_fd_,
              \* a completion caused by a client is in the ring

vars == <<affinity, cpu_list, server, w>>

Worker == 0..N - 1

Init ==
  /\ affinity \in BOOLEAN /\ cpu_list \in CpuLists
  /\ server = "new"
  /\ w = [i \in Worker |-> [owner |-> "none", at |-> "none", ready |-> FALSE,
            inited |-> FALSE, pool |-> FALSE, stop |-> FALSE, wake |-> "none",
            posted |-> FALSE]]

\* A step of worker i or of its owner.
Become(i, r) == w' = [w EXCEPT ![i] = r] /\ UNCHANGED <<affinity, cpu_list, server>>

-----------------------------------------------------------------------------
(* TcpServer::start, and the constructor of a worker. *)

StartServer ==
  /\ server = "new"
  /\ server' = IF affinity /\ Len(cpu_list) < N * 2 THEN "failed" ELSE "started"
  /\ UNCHANGED <<affinity, cpu_list, w>>

\* Defect: the CPUs are taken one by one.
cpu_idConsecutive(i) == cpu_list[i + 1]

\* The worker's CPU, and the one make_sqpoll_params gives the kernel's thread.
cpu_id(i) == cpu_list[i * 2 + 1]
Cpus(i)   == {cpu_id(i), cpu_id(i) + 1}

\* Defect: the constructor does not wait for ready_.
StartThreadUnready(i) ==
  /\ server = "started" /\ w[i].owner = "none"
  /\ \A j \in 0..i - 1 : w[j].owner = "up"
  /\ Become(i, IF affinity
                 THEN [w[i] EXCEPT !.owner = "up", !.at = "bind"]
                 ELSE [w[i] EXCEPT !.owner = "up", !.at = "begin",
                                   !.inited = TRUE, !.pool = TRUE])

\* start_thread: a thread bound to a CPU makes the resources itself, otherwise
\* they are there before the thread is.
StartThread(i) ==
  /\ server = "started" /\ w[i].owner = "none"
  /\ \A j \in 0..i - 1 : w[j].owner = "up"
  /\ Become(i, IF affinity
                 THEN [w[i] EXCEPT !.owner = "ctor", !.at = "bind"]
                 ELSE [w[i] EXCEPT !.owner = "up", !.at = "begin",
                                   !.inited = TRUE, !.pool = TRUE])

\* do_init_resources in the thread, then ready_ is released.
InitInThread(i) ==
  /\ w[i].at = "bind"
  /\ Become(i, [w[i] EXCEPT !.at = "begin", !.inited = TRUE, !.pool = TRUE,
                            !.ready = TRUE])

AwaitReady(i) ==
  /\ w[i].owner = "ctor" /\ w[i].ready
  /\ Become(i, [w[i] EXCEPT !.owner = "up", !.ready = FALSE])

-----------------------------------------------------------------------------
(* run_loop. *)

FdOpen(i) == w[i].owner \in {"ctor", "up", "members"}

\* on_loop_start, the read of wakeup_fd_, the stop callback (which runs now if
\* the stop has been requested, on an fd closed before).
BeginLoop(i) ==
  /\ w[i].at = "begin"
  /\ Become(i, [w[i] EXCEPT !.at = "test", !.wake = "prepared"])


\* The test of the loop, and the submission; a read of a closed fd fails at
\* once, which is a completion too.
EnterRing(i) ==
  /\ w[i].at = "test" /\ ~w[i].stop
  /\ Become(i, [w[i] EXCEPT !.at = "wait",
       !.wake = CASE @ # "prepared" -> @ [] FdOpen(i) -> "armed" [] OTHER -> "posted"])

\* submit_and_wait(1) returns with a completion, submit at once; the batch is
\* dispatched (nothing for the token -1) and given back; on_batch_done.
Dispatch(i) ==
  /\ w[i].at = "wait"
  /\ affinity \/ w[i].posted \/ w[i].wake = "posted"
  /\ Become(i, [w[i] EXCEPT !.at = "test", !.posted = FALSE,
                            !.wake = IF @ = "posted" THEN "reaped" ELSE @])

\* IoThread::on_stop: the cancellation is submitted and not waited for.
OnStop(i) ==
  /\ w[i].at = "test" /\ w[i].stop
  /\ Become(i, [w[i] EXCEPT !.at = "ended"])

Run(i) == InitInThread(i) \/ BeginLoop(i) \/ EnterRing(i) \/ Dispatch(i) \/ OnStop(i)

\* A client does something that completes an operation of the worker.
Post(i) ==
  /\ w[i].at \in {"test", "wait"} /\ w[i].wake \notin {"none", "prepared"}
  /\ Become(i, [w[i] EXCEPT !.posted = TRUE])

-----------------------------------------------------------------------------
(* The destructors. *)

\* ~TcpEchoServer: from here on the server is a TcpServer.
DestroyServer ==
  /\ server = "failed" \/ (server = "started" /\ \A i \in Worker : w[i].owner = "up")
  /\ server' = "plain"
  /\ UNCHANGED <<affinity, cpu_list, w>>

\* ~TcpThread: its members; IoThread: close(wakeup_fd_); then the members of
\* IoThread, thread_ first: the stop request, whose callback writes to
\* wakeup_fd_, and the join; then the rings and buffers.
DestroyStep(r, fd_open) ==
  CASE r.owner = "up"       -> [r EXCEPT !.owner = "members", !.pool = FALSE]
    [] r.owner = "members"  -> [r EXCEPT !.owner = "base"]
    [] r.owner = "base"     -> [r EXCEPT !.owner = "stopping", !.stop = TRUE,
         !.wake = IF @ = "armed" /\ fd_open THEN "posted" ELSE @]
    [] r.owner = "stopping" -> [r EXCEPT !.owner = "freed", !.inited = FALSE]

\* threads_ is destroyed from the first worker to the last.
DestroyWorker(i) ==
  /\ server = "plain"
  /\ \A j \in 0..i - 1 : w[j].owner = "freed"
  /\ w[i].owner \in {"up", "members", "base", "stopping"}
  /\ w[i].owner = "stopping" => w[i].at = "ended"
  /\ Become(i, DestroyStep(w[i], FdOpen(i)))

Next ==
  \/ StartServer \/ DestroyServer
  \/ \E i \in Worker :
       StartThread(i) \/ AwaitReady(i) \/ Run(i) \/ Post(i) \/ DestroyWorker(i)

Spec == Init /\ [][Next]_vars

\* Threads are scheduled and constructors and destructors go on; the server
\* need not be stopped and clients need not do anything.
Fairness == \A i \in Worker :
  /\ WF_vars(Run(i))
  /\ WF_vars(StartThread(i) \/ AwaitReady(i) \/ DestroyWorker(i))

FairSpec == Spec /\ Fairness

-----------------------------------------------------------------------------
(* Properties. *)

\* Whoever uses the rings and buffers finds them: the loop of a worker, from
\* its first step to its last, and the server once the constructor is done
\* (the order of start_thread, ready_, thread_ as the last member).  The pool of
\* channels is there from the loop's first step until the server destroys the
\* worker; from then on the loop runs without it.
ResourcesThere ==
  \A i \in Worker :
    LET running == w[i].at \in {"begin", "test", "wait"}
    IN  /\ running \/ w[i].owner \in {"up", "members"} => w[i].inited
        /\ w[i].owner = "up" \/ (running /\ w[i].owner = "ctor") => w[i].pool

\* With the CPUs in ascending order no two threads, of workers or of the
\* kernel, share a CPU (make_sqpoll_params, the step of two in start).
OwnCpus ==
  affinity /\ (\A j, k \in DOMAIN cpu_list : j < k => cpu_list[j] < cpu_list[k]) =>
    \A i, j \in Worker :
      i # j /\ w[i].owner # "none" /\ w[j].owner # "none" => Cpus(i) \cap Cpus(j) = {}


\* benchmarks/echo_server.cpp:211: "Press Ctrl+C to stop."  main then destroys
\* the servers, and a worker whose stop has been requested ends.
StopEnds == \A i \in Worker : w[i].stop ~> w[i].at = "ended"
=============================================================================
