--------------------------------- MODULE Host ---------------------------------
(***************************************************************************)
(* utils::Threading, utils::Process and Auth where they ask something of   *)
(* the machine: a record tells what it grants.                             *)
(***************************************************************************)
EXTENDS Integers

\* count is what sysconf(_SC_NPROCESSORS_ONLN) says; it need not be one more
\* than the last CPU the process may use, since a cpuset may leave CPUs out.
Hosts == [count:    Nat \ {0},
          cpus:     SUBSET Nat,   \* pthread_setaffinity_np accepts them
          realtime: BOOLEAN,      \* pthread_setschedparam accepts SCHED_FIFO
          nice:     BOOLEAN,      \* setpriority accepts -20
          key:      BOOLEAN]      \* the PEM file is there and holds an Ed25519 key

get_cpu_count(host) == host.count
set_thread_cpu_throws(host, cpu) == cpu >= get_cpu_count(host) \/ cpu \notin host.cpus
set_thread_realtime_throws(host) == ~host.realtime
set_high_priority_throws(host) == ~host.nice
get_seed_from_pem_throws(host) == ~host.key

\* A thread's affinity and scheduling. A new one has nobody's but the default.
NoCpu == -1
NewThread == [cpu |-> NoCpu, realtime |-> FALSE]
set_thread_cpu(thread, cpu) == [thread EXCEPT !.cpu = cpu]
set_thread_realtime(thread) == [thread EXCEPT !.realtime = TRUE]
=============================================================================
