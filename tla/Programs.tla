------------------------------ MODULE Programs ------------------------------
(***************************************************************************)
(* The workloads kernel_main_high starts, run by the scheduler and IPC     *)
(* bridge of SchedIpc: the production build's demo (task_a and task_b, the *)
(* EL0 program hello) and the perf-bench build's measurement (bench_driver *)
(* and bench_partner, the EL0 task that loops a rejected svc).  Init       *)
(* chooses the build and the iteration counts of the bench.                *)
(*                                                                         *)
(* A step is one kernel call of the running task, up to the context switch *)
(* it may cause.  An .expect or panic! that fails leaves the task at       *)
(* "panicked", where the processor spins.                                  *)
(***************************************************************************)
EXTENDS SchedIpc

CONSTANTS
  Counts,    \* choices for N_CTX_ROUNDTRIPS, N_IPC_CYCLES and N_EL0_ROUNDTRIPS
  Warmups,   \* choices for WARMUP and EL0_WARMUP
  Delays     \* what the counter can advance by between two syscall entries

\* The task slots of both builds; A and B are the driver and the partner.
A == 0
B == 1
User == 3

ASSUME ProgramsAssumption ==
  /\ TaskCapacity = 4 /\ IdleTask = 2 /\ UserTask = {User}
  /\ {"AAAA", "BBBB", "BE0C"} \subseteq Message
  /\ {"SEND", "RECV", "CONSOLE_WRITE"} \subseteq Rights
  /\ [kind |-> "DebugConsole"] \in Objects
  /\ Counts \subseteq Nat \ {0}
  /\ Warmups \subseteq Nat /\ Delays \subseteq Nat

VARIABLES
  build,    \* the cargo features and the bench's constants
  todo,     \* the tasks kernel_main_high has yet to register, in order
  pc,       \* pc[t]: where t is in a program that runs through once
  heard,    \* heard[t]: the label t last received, or None
  greeted,  \* hello's greeting reached the console
  phase,    \* PHASE
  step,     \* how many calls bench_driver has begun
  el0,      \* EL0_ENTRY_COUNT, EL0_PREV_NS, EL0_ACCUM_NS and the clock
  stamps,   \* history: the clock at each syscall entry
  tally     \* history: what the timed loops of bench_driver covered

progVars == <<build, todo, pc, heard, greeted, phase, step, el0, stamps, tally>>
allVars == <<vars, progVars>>

-----------------------------------------------------------------------------
(* Boot.                                                                   *)

Builds ==
  [perf_bench : {FALSE}, debug : BOOLEAN]
  \union [perf_bench : {TRUE}, n_ctx : Counts, n_ipc : Counts, n_el0 : Counts,
          warmup : Warmups, el0_warmup : Warmups]

\* A fresh table's first capability is (index 0, generation 0).
RootCap == [index |-> 0, generation |-> 0]
Fresh(rights, object) == insert_root(NewTable, [rights |-> rights, object |-> object])
TheEndpoint == EndpointObject([index |-> 0, generation |-> 0])

\* The tables of kernel_main_high: both tasks send and receive, hello has the
\* debug console.
DemoTables ==
  [t \in Task |-> IF t \in {A, B} THEN Fresh({"SEND", "RECV"}, TheEndpoint)
                  ELSE IF t = User THEN Fresh({"CONSOLE_WRITE"}, [kind |-> "DebugConsole"])
                  ELSE NewTable]

\* The tables of perf_bench::run: one direction each, none for the EL0 task.
BenchTables ==
  [t \in Task |-> IF t = A THEN Fresh({"SEND"}, TheEndpoint)
                  ELSE IF t = B THEN Fresh({"RECV"}, TheEndpoint)
                  ELSE NewTable]

\* Mutant: the sender is registered before the receiver.
RegistrationSenderFirst(b) ==
  IF b.perf_bench THEN <<User, A, B, IdleTask>> ELSE <<A, B, User, IdleTask>>

\* The order of the add_task, add_user_task and register_idle calls.
registration(b) ==
  IF b.perf_bench THEN <<User, A, B, IdleTask>> ELSE <<B, A, User, IdleTask>>

ProgInit ==
  /\ build \in Builds
  /\ todo = registration(build)
  /\ sched = NewScheduler
  /\ active_as = BootstrapAs
  /\ frame = [t \in Task |-> None]
  /\ tables = IF build.perf_bench THEN BenchTables ELSE DemoTables
  /\ queues = NewQueues
  /\ exited = {}
  /\ pc = [t \in Task |-> "begin"]
  /\ heard = [t \in Task |-> None]
  /\ greeted = FALSE
  /\ phase = "CTX"
  /\ step = 0
  /\ el0 = [count |-> 0, prev |-> 0, accum |-> 0, now |-> 0]
  /\ stamps = <<>>
  /\ tally = [ctx_switches |-> 0, ipc_switches |-> 0, delivered |-> 0, received |-> 0]

Boot ==
  \/ /\ todo # <<>>
     /\ \/ AddTask(Head(todo))
        \/ Head(todo) = IdleTask /\ RegisterIdle
     /\ todo' = Tail(todo)
     /\ UNCHANGED <<build, pc, heard, greeted, phase, step, el0, stamps, tally>>
  \/ todo = <<>> /\ Start /\ UNCHANGED progVars

-----------------------------------------------------------------------------
(* Calls as the programs make them.  An error is unwrapped by .expect.     *)

At(t, place) == pc[t] = place /\ sched.current = t

Went(t, ok, place) == pc' = [pc EXCEPT ![t] = IF ok THEN place ELSE "panicked"]

\* ipc_send_and_yield(..., None, ...).expect(...)
Send(t, msg, place) ==
  LET r == ipc_send(EpArena, queues, tables[t], RootCap, msg, None).result
  IN SendAndYield(t, RootCap, msg, None) /\ Went(t, r \in {"Delivered", "Enqueued"}, place)

\* ipc_recv_and_yield(...).expect(...): the call may return at once, suspend
\* the task, or return an error; a suspended call goes on in Resume.  A
\* Pending outcome is a panic in its callers.
Collect(t, place) ==
  LET ok == ipc_recv(EpArena, queues, tables[t], RootCap).result = "Received"
  IN /\ Went(t, ok, place)
     /\ heard' = [heard EXCEPT ![t] =
                    IF ok THEN peek_state(queues, handle_of(tables[t], RootCap)).msg ELSE @]

Suspends(t) ==
  /\ frame[t] = None
  /\ ipc_recv(EpArena, queues, tables[t], RootCap).result = "Pending"
  /\ can_block(sched)

Recv(t, place) ==
  /\ RecvAndYield(t, RootCap) \/ Resume(t)
  /\ IF Suspends(t) THEN UNCHANGED <<pc, heard>> ELSE Collect(t, place)

-----------------------------------------------------------------------------
(* The production build.                                                   *)

onceVars == <<build, todo, phase, step, el0, stamps, tally>>

task_b ==
  /\ ~build.perf_bench
  /\ \/ At(B, "begin") /\ Recv(B, "reply") /\ UNCHANGED greeted
     \/ At(B, "reply") /\ Send(B, "BBBB", "yield") /\ UNCHANGED <<heard, greeted>>
     \/ At(B, "yield") /\ Yield(B) /\ Went(B, TRUE, "spin") /\ UNCHANGED <<heard, greeted>>
  /\ UNCHANGED onceVars

task_a ==
  /\ ~build.perf_bench
  /\ \/ At(A, "begin") /\ Send(A, "AAAA", "reply") /\ UNCHANGED <<heard, greeted>>
     \/ At(A, "reply") /\ Recv(A, "spin") /\ UNCHANGED greeted
  /\ UNCHANGED onceVars

\* hello's console_write, whose result it ignores: the syscall exists in a
\* debug build only, and its gate is on hello's own table.
console_write ==
  /\ At(User, "begin") /\ Running(User)
  /\ greeted' = (build.debug
                 /\ validate_cap(tables[User], RootCap, "DebugConsole", "CONSOLE_WRITE") = "Ok")
  /\ Went(User, TRUE, "exit")
  /\ UNCHANGED vars

hello ==
  /\ ~build.perf_bench
  /\ \/ console_write
     \/ At(User, "exit") /\ TaskExit(User) /\ Went(User, TRUE, "spin") /\ UNCHANGED greeted
  /\ UNCHANGED onceVars /\ UNCHANGED heard

-----------------------------------------------------------------------------
(* The measurement build.                                                  *)

\* Mutant: the delta that ends the warm-up is counted.
TimedOneEarly(n) == n # 0 /\ n >= build.el0_warmup

\* el0_roundtrip_tick: the entries, counted from 0, that end a timed delta.
timed(n) == n # 0 /\ n > build.el0_warmup

\* A rejected svc of the EL0 task, d after the previous one, and the hook that
\* times it: the last timed entry turns Resume into Terminate.
el0_roundtrip_tick(d) ==
  LET n == el0.count
      now == el0.now + d
  IN /\ build.perf_bench
     /\ Running(User)
     /\ el0' = [count |-> n + 1, prev |-> now, now |-> now,
                accum |-> IF timed(n) THEN el0.accum + (now - el0.prev) ELSE el0.accum]
     /\ stamps' = Append(stamps, now)
     /\ IF timed(n) /\ n >= build.el0_warmup + build.n_el0
        THEN TaskExit(User) ELSE UNCHANGED vars
     /\ UNCHANGED <<build, todo, pc, heard, greeted, phase, step, tally>>

\* The calls of bench_driver in order: call k is a yield or a send, timed or
\* not; PHASE is stored before the yield that primes the IPC loop.
driver_call(k) ==
  LET w == build.warmup
      prime == w + build.n_ctx
  IN IF k < w THEN "warm_yield"
     ELSE IF k < prime THEN "ctx"
     ELSE IF k = prime THEN "prime"
     ELSE IF k <= prime + w THEN "warm_send"
     ELSE IF k <= prime + w + build.n_ipc THEN "ipc"
     ELSE "park"

\* The timed loop that covers what happens now: the one whose call the driver
\* is about to make, or is in.
window == IF sched.current = A THEN driver_call(step)
          ELSE IF step > 0 THEN driver_call(step - 1) ELSE "none"

\* Context switches and messages are counted where they fall.
Tallied(delivered, received) ==
  LET n == IF sched'.current # sched.current THEN 1 ELSE 0
      k == IF window = "ipc" THEN 1 ELSE 0
  IN tally' = [ctx_switches |-> tally.ctx_switches + IF window = "ctx" THEN n ELSE 0,
               ipc_switches |-> tally.ipc_switches + k * n,
               delivered    |-> tally.delivered + IF delivered THEN k ELSE 0,
               received     |-> tally.received + IF received THEN k ELSE 0]

bench_driver ==
  LET call == driver_call(step)
      recv_waiting == peek_state(queues, handle_of(tables[A], RootCap)) = RecvWaiting
  IN /\ build.perf_bench
     /\ At(A, "begin")
     /\ \/ /\ call \in {"warm_yield", "ctx", "prime"}
           /\ Yield(A)
           /\ UNCHANGED pc
           /\ Tallied(FALSE, FALSE)
           /\ step' = step + 1
           /\ phase' = IF call = "prime" THEN "IPC" ELSE phase
        \/ /\ call \in {"warm_send", "ipc"}
           /\ Send(A, "BE0C", "begin")
           /\ Tallied(recv_waiting, FALSE)
           /\ step' = step + 1
           /\ UNCHANGED phase
        \/ /\ call = "park" /\ phase # "DONE"
           /\ phase' = "DONE"
           /\ UNCHANGED <<vars, pc, step, tally>>
     /\ UNCHANGED <<build, todo, heard, greeted, el0, stamps>>

bench_partner ==
  /\ build.perf_bench
  /\ At(B, "begin")
  /\ \/ /\ phase = "CTX" /\ frame[B] = None
        /\ Yield(B)
        /\ UNCHANGED <<pc, heard>>
        /\ Tallied(FALSE, FALSE)
     \/ /\ phase = "IPC" \/ frame[B] # None
        /\ Recv(B, "begin")
        /\ Tallied(FALSE, ~Suspends(B))
  /\ UNCHANGED <<build, todo, greeted, phase, step, el0, stamps>>

-----------------------------------------------------------------------------
\* The loops a program ends in, and the panic handler's.
Parked(t) ==
  \/ pc[t] \in {"spin", "panicked"}
  \/ build.perf_bench /\ t \in {A, B} /\ phase = "DONE" /\ frame[t] = None

Spin ==
  /\ sched.current # None
  /\ sched.panicked \/ Parked(sched.current)
  /\ UNCHANGED allVars

ProgNext ==
  \/ Boot
  \/ task_a
  \/ task_b
  \/ hello
  \/ \E d \in Delays : el0_roundtrip_tick(d)
  \/ bench_driver
  \/ bench_partner
  \/ Spin

\* The processor goes on executing.
ProgSpec == ProgInit /\ [][ProgNext]_allVars /\ WF_allVars(ProgNext)

-----------------------------------------------------------------------------
(* Correctness.                                                            *)

DemoFinished ==
  /\ heard[B] = "AAAA" /\ heard[A] = "BBBB"
  /\ pc[A] = "spin" /\ exited = {User}
  /\ greeted = build.debug

BenchFinished ==
  /\ phase = "DONE" /\ sched.current = A
  /\ exited = {User}
  /\ frame[B] # None

\* Every boot of either build runs its workload to the end: in the demo both
\* messages arrive at the other task and hello greets (in a debug build) and
\* exits; the bench gets through its three measurements and leaves the partner
\* blocked in its last receive.
ProgramsComplete == <>[](IF build.perf_bench THEN BenchFinished ELSE DemoFinished)

\* The n_el0 timed deltas are consecutive and start after the warm-up.
El0SamplesExact ==
  User \in exited =>
    /\ Len(stamps) = build.el0_warmup + build.n_el0 + 1
    /\ el0.accum = stamps[Len(stamps)] - stamps[build.el0_warmup + 1]

\* Each timed yield is two context switches; each timed send is delivered to
\* a waiting partner, collected, and costs two switches.
LoopsExact ==
  driver_call(step) = "park" /\ sched.current = A =>
    tally = [ctx_switches |-> 2 * build.n_ctx, ipc_switches |-> 2 * build.n_ipc,
             delivered |-> build.n_ipc, received |-> build.n_ipc]

\* What the comments of the two workloads rely on: a measurement covers what
\* the printed line says it covers, idle is never dispatched, and task_b does
\* not come back from its last yield.
RunAsDocumented ==
  /\ sched.current # IdleTask
  /\ IF build.perf_bench THEN El0SamplesExact /\ LoopsExact
     ELSE pc[B] = "spin" => sched.current # B
=============================================================================
