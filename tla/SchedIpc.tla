------------------------------ MODULE SchedIpc ------------------------------
(***************************************************************************)
(* The scheduler/IPC bridge: kernel tasks that yield, send and receive     *)
(* through yield_now, ipc_send_and_yield and ipc_recv_and_yield, EL0 tasks *)
(* that use the syscalls, the idle task, and the boot that registers them. *)
(*                                                                         *)
(* Only the current task acts.  A bridge call runs to the context switch   *)
(* in one step; ipc_recv_and_yield's Phase 3 is the step Resume, taken     *)
(* when the receiver is dispatched again, so that whatever other tasks did *)
(* in between is visible to it.  Endpoints exist from boot on: v1 never    *)
(* destroys one.                                                           *)
(***************************************************************************)
EXTENDS Ipc, Scheduler

CONSTANTS
  IdleTask,     \* the task register_idle is called for, or None
  IdleOptional, \* whether start may be called without it
  UserTask,     \* the EL0 tasks
  TaskAs,       \* TaskAs[t]: the address space t is registered with
  BootstrapAs,  \* the address space active at boot
  InitTables    \* the capability tables the boot code hands out

ASSUME SchedIpcAssumption ==
  /\ WaitObject = SlotId
  /\ IdleTask \in Task \union {None}
  /\ IdleOptional \in BOOLEAN
  /\ UserTask \subseteq Task \ {IdleTask}
  /\ TaskAs \in [Task -> AddressSpace]
  /\ BootstrapAs \in AddressSpace
  /\ InitTables \in [Task -> CapabilityTable]
  /\ \A t \in Task : WellFormed(InitTables[t])

VARIABLES
  sched,      \* the Scheduler
  active_as,  \* the address space the MMU translates through
  frame,      \* frame[t]: the ep_cap of t's suspended ipc_recv_and_yield, or None
  tables,     \* tables[t]: the CapabilityTable of task t
  queues,     \* the IpcQueues
  exited      \* history: the tasks that called task_exit

vars == <<sched, active_as, frame, tables, queues, exited>>

\* Every endpoint slot is allocated, in its first generation.
EpArena == [entry      |-> [i \in SlotIndex |-> "endpoint"],
            generation |-> [i \in SlotIndex |-> 0],
            next_free  |-> [i \in SlotIndex |-> None],
            free_head  |-> None]

Init ==
  /\ sched = NewScheduler
  /\ active_as = BootstrapAs
  /\ frame = [t \in Task |-> None]
  /\ tables = InitTables
  /\ queues = NewQueues
  /\ exited = {}

-----------------------------------------------------------------------------
(* Boot: every task is registered once, in any order, then start is called. *)

booting == sched.current = None /\ ~sched.panicked

AddTask(t) ==
  /\ booting
  /\ t # IdleTask /\ ~registered(sched, t)
  /\ ~queue_is_full(sched)
  /\ sched' = IF t \in UserTask THEN add_user_task(sched, t, TaskAs[t])
              ELSE add_task(sched, t, TaskAs[t])
  /\ UNCHANGED <<active_as, frame, tables, queues, exited>>

RegisterIdle ==
  /\ booting
  /\ IdleTask # None /\ sched.idle = None
  /\ sched' = register_idle(sched, IdleTask, TaskAs[IdleTask])
  /\ UNCHANGED <<active_as, frame, tables, queues, exited>>

\* run_dispatched: activate the dispatched task's address space, whatever
\* was active before.
Dispatched(s) ==
  /\ sched' = s
  /\ active_as' = IF s.panicked THEN active_as
                  ELSE s.task_address_space_handles[s.current]

Start ==
  /\ booting
  /\ \A t \in Task : registered(sched, t) \/ (t = IdleTask /\ IdleOptional)
  /\ Dispatched(start_prelude(sched))
  /\ UNCHANGED <<frame, tables, queues, exited>>

-----------------------------------------------------------------------------
(* Calls of the running task t, which is not suspended inside another one. *)

Running(t) == sched.current = t /\ ~sched.panicked /\ frame[t] = None

KernelTask == Task \ (UserTask \union {IdleTask})

\* The switch from the current task to the one s makes current (perhaps none).
Switched(s) ==
  /\ sched' = s
  /\ active_as' = activation_target(s.task_address_space_handles[sched.current],
                                    s.task_address_space_handles[s.current], active_as)

\* yield_now: kernel tasks, idle's loop body, and the task_yield syscall.
Yield(t) ==
  /\ Running(t)
  /\ Switched(yield_now(sched))
  /\ UNCHANGED <<frame, tables, queues, exited>>

\* ipc_send_and_yield: a delivery wakes the receiver and yields.
SendAndYield(t, ep_cap, msg, xfer) ==
  LET r == ipc_send(EpArena, queues, tables[t], ep_cap, msg, xfer)
      ep == handle_of(tables[t], ep_cap)
  IN /\ Running(t) /\ t \in KernelTask
     /\ tables' = [tables EXCEPT ![t] = r.table]
     /\ queues' = r.queues
     /\ IF r.result = "Delivered"
        THEN Switched(yield_now(unblock_receiver_on(sched, ep)))
        ELSE UNCHANGED <<sched, active_as>>
     /\ UNCHANGED <<frame, exited>>

\* What ipc_recv_and_yield does once Phase 1 left queues q behind: block and
\* switch, or return Deadlock and cancel the registration.
BlockOrRollBack(t, ep_cap, q) ==
  IF can_block(sched)
  THEN /\ Switched(block_current(sched, handle_of(tables[t], ep_cap)))
       /\ frame' = [frame EXCEPT ![t] = ep_cap]
       /\ queues' = q
  ELSE /\ queues' = ipc_cancel_recv(EpArena, q, tables[t], ep_cap).queues
       /\ UNCHANGED <<sched, active_as, frame>>

\* ipc_recv_and_yield, Phases 1 and 2.
RecvAndYield(t, ep_cap) ==
  LET r == ipc_recv(EpArena, queues, tables[t], ep_cap)
  IN /\ Running(t) /\ t \in KernelTask
     /\ tables' = [tables EXCEPT ![t] = r.table]
     /\ IF r.result = "Pending"
        THEN BlockOrRollBack(t, ep_cap, r.queues)
        ELSE queues' = r.queues /\ UNCHANGED <<sched, active_as, frame>>
     /\ UNCHANGED exited

\* ipc_recv_and_yield, Phase 3: collect with a second ipc_recv.  Pending is
\* returned as PendingAfterResume; nothing is rolled back.
Resume(t) ==
  LET r == ipc_recv(EpArena, queues, tables[t], frame[t])
  IN /\ sched.current = t /\ ~sched.panicked
     /\ frame[t] # None
     /\ tables' = [tables EXCEPT ![t] = r.table]
     /\ queues' = r.queues
     /\ frame' = [frame EXCEPT ![t] = None]
     /\ UNCHANGED <<sched, active_as, exited>>

\* sys_send and sys_recv: the bare primitives, no wake-up and no blocking.
SysSend(t, ep_cap, msg, xfer) ==
  LET r == ipc_send(EpArena, queues, tables[t], ep_cap, msg, xfer)
  IN /\ Running(t) /\ t \in UserTask
     /\ tables' = [tables EXCEPT ![t] = r.table]
     /\ queues' = r.queues
     /\ UNCHANGED <<sched, active_as, frame, exited>>

SysRecv(t, ep_cap) ==
  LET r == ipc_recv(EpArena, queues, tables[t], ep_cap)
  IN /\ Running(t) /\ t \in UserTask
     /\ tables' = [tables EXCEPT ![t] = r.table]
     /\ queues' = r.queues
     /\ UNCHANGED <<sched, active_as, frame, exited>>

\* task_exit_current: dispatch the next task without requeueing this one.
TaskExit(t) ==
  /\ Running(t) /\ t \in UserTask
  /\ Dispatched(start_prelude(sched))
  /\ exited' = exited \union {t}
  /\ UNCHANGED <<frame, tables, queues>>

\* The panic handler spins for ever.
Halt ==
  /\ sched.panicked
  /\ UNCHANGED vars

Next ==
  \/ \E t \in Task : AddTask(t)
  \/ RegisterIdle
  \/ Start
  \/ \E t \in Task : Yield(t)
  \/ \E t \in Task, h \in CapHandle, m \in Message, x \in CapHandle \union {None} :
       SendAndYield(t, h, m, x)
  \/ \E t \in Task, h \in CapHandle : RecvAndYield(t, h)
  \/ \E t \in Task : Resume(t)
  \/ \E t \in Task, h \in CapHandle, m \in Message, x \in CapHandle \union {None} :
       SysSend(t, h, m, x)
  \/ \E t \in Task, h \in CapHandle : SysRecv(t, h)
  \/ \E t \in Task : TaskExit(t)
  \/ Halt

Spec == Init /\ [][Next]_vars

\* The cooperative contract: boot goes on, a dispatched receiver runs its
\* Phase 3, and a running task sooner or later gives up the processor.
Fairness ==
  /\ WF_vars((\E t \in Task : AddTask(t)) \/ RegisterIdle \/ Start)
  /\ \A t \in Task : WF_vars(Resume(t))
  /\ \A t \in Task : WF_vars(Yield(t))

FairSpec == Spec /\ Fairness

-----------------------------------------------------------------------------
(* Correctness.                                                            *)

Queued == {sched.ready[i] : i \in 1 .. Len(sched.ready)}

\* enqueue_ready's panic rests on this: the queue holds a task once, never the
\* running one, never idle, only Ready ones; and every Ready task that has not
\* exited is queued, running or idle, so none is lost.
ReadyQueueExact ==
  /\ \A i, j \in 1 .. Len(sched.ready) : sched.ready[i] = sched.ready[j] => i = j
  /\ Queued = {t \in Task \ exited : /\ sched.task_states[t] = Ready
                                    /\ t \notin {sched.current, sched.idle}}

\* With an idle task registered no reachable call panics the kernel: the ready
\* queue never overflows and a dispatch always finds a task, though EL0 tasks
\* exit and are never queued again.
NeverPanics == sched.panicked => sched.idle = None

\* The running task runs under its own address space: the activation hook
\* fires on every switch that needs it and on no other.
OwnAddressSpace == sched.current # None => active_as = TaskAs[sched.current]

\* The endpoint a task is suspended on in ipc_recv_and_yield.
SuspendedOn(t) == handle_of(tables[t], frame[t])

\* Table t grants right r over endpoint ep.
Holds(t, r, ep) ==
  \E i \in Live(t) : t.entry[i].object = EndpointObject(ep) /\ r \in t.entry[i].rights

\* An EL0 task may receive from ep: sys_recv registers it without blocking.
PolledByUser(ep) == \E u \in UserTask : Holds(tables[u], "RECV", ep)

\* The distribution of capabilities the bridge is written for: endpoint
\* capabilities stay where boot put them, an endpoint has one receiver, and no
\* EL0 task, whose sys_send wakes nobody, sends to a kernel task's endpoint.
Separated(tbls) ==
  /\ \A t \in Task : \A i \in Live(tbls[t]) :
       tbls[t].entry[i].object.kind = "Endpoint" => "TRANSFER" \notin tbls[t].entry[i].rights
  /\ \A ep \in SlotId : \A t, u \in Task :
       (Holds(tbls[t], "RECV", ep) /\ Holds(tbls[u], "RECV", ep)) => t = u
  /\ \A ep \in SlotId : \A t \in KernelTask, u \in UserTask :
       ~(Holds(tbls[t], "RECV", ep) /\ Holds(tbls[u], "SEND", ep))

\* On an endpoint of kernel tasks a blocked task and a registered receiver are
\* the same thing: RecvWaiting has exactly one blocked task behind it, and a
\* blocked task is suspended in ipc_recv_and_yield on an endpoint in RecvWaiting.
WaiterMatches ==
  \A ep \in {e \in SlotId : ~PolledByUser(e)} :
    IF peek_state(queues, ep) = RecvWaiting
    THEN \E t \in Task : waiting_on(sched, ep) = {t} /\ frame[t] # None /\ SuspendedOn(t) = ep
    ELSE waiting_on(sched, ep) = {}

\* "The sender should have delivered before unblocking this task": a receiver
\* that runs again finds its message, so Phase 3 never sees Pending.
ResumeFindsMessage ==
  \A t \in Task : (frame[t] # None /\ sched.current = t) =>
    peek_state(queues, SuspendedOn(t)).tag = "RecvComplete"

\* A receive that cannot block returns Deadlock and leaves no trace: scheduler,
\* table and endpoint are what they were before the call.
WouldDeadlock(t, ep_cap) ==
  /\ ipc_recv(EpArena, queues, tables[t], ep_cap).result = "Pending"
  /\ ~can_block(sched)

DeadlockLeavesNoTrace ==
  [][\A t \in Task, h \in CapHandle :
       (WouldDeadlock(t, h) /\ RecvAndYield(t, h)) => UNCHANGED vars]_vars

\* A queued task eventually runs, whatever the tasks before it do.
ReadyRuns == \A t \in Task : t \in Queued ~> sched.current = t

\* A message delivered to a waiting receiver is eventually collected: the
\* receiver is woken, dispatched, and returns from ipc_recv_and_yield.
DeliveredCollected ==
  \A t \in Task :
    (frame[t] # None /\ peek_state(queues, SuspendedOn(t)).tag = "RecvComplete")
      ~> frame[t] = None
=============================================================================
