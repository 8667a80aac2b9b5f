------------------------------ MODULE Scheduler ------------------------------
(***************************************************************************)
(* kernel::sched::Scheduler (kernel/src/sched/mod.rs): the cooperative     *)
(* single-core scheduler's own state and the helpers its bridge functions  *)
(* are made of, as operators on a scheduler record.  A task is identified  *)
(* with its arena slot index: v1 frees no task slot, so a TaskHandle and   *)
(* its index determine each other.  SchedQueue is a FIFO sequence of at    *)
(* most TaskCapacity tasks.                                                *)
(***************************************************************************)
EXTENDS Naturals, Sequences, Option

CONSTANTS
  TaskCapacity,  \* TASK_ARENA_CAPACITY (16), also the capacity of the ready queue
  AddressSpace,  \* AddressSpaceHandles
  WaitObject     \* the EndpointHandles a task can block on

ASSUME SchedulerAssumption ==
  /\ TaskCapacity \in Nat \ {0}
  /\ None \notin Nat /\ None \notin AddressSpace /\ None \notin WaitObject

Task == 0 .. (TaskCapacity - 1)

Unused == [tag |-> "Idle", on |-> None]
Ready == [tag |-> "Ready", on |-> None]
Blocked(ep) == [tag |-> "Blocked", on |-> ep]

TaskState == {Unused, Ready} \union {Blocked(ep) : ep \in WaitObject}

\* task_handles[t] is Some exactly when task_states[t] is not Idle: both are
\* written by add_task / register_idle and never reset.  panicked stands for
\* the kernel panic that ends every behaviour.
SchedulerState == [ready : Seq(Task),
                   task_states : [Task -> TaskState],
                   task_address_space_handles : [Task -> AddressSpace \union {None}],
                   current : Task \union {None},
                   idle : Task \union {None},
                   panicked : BOOLEAN]

NewScheduler == [ready |-> <<>>,
                 task_states |-> [t \in Task |-> Unused],
                 task_address_space_handles |-> [t \in Task |-> None],
                 current |-> None,
                 idle |-> None,
                 panicked |-> FALSE]

registered(s, t) == s.task_states[t] # Unused

-----------------------------------------------------------------------------
(* Registration.                                                           *)

\* The slot writes add_task, add_user_task and register_idle share.
register(s, t, as) ==
  [s EXCEPT !.task_states[t] = Ready, !.task_address_space_handles[t] = as]

queue_is_full(s) == Len(s.ready) = TaskCapacity

\* On a queue with room; otherwise QueueFull and no write.
add_task(s, t, as) == [register(s, t, as) EXCEPT !.ready = Append(s.ready, t)]

\* The same for an EL0 task, which is also bound to its capability table and
\* to its user-access window: this model's table of t is tables[t] throughout.
add_user_task(s, t, as) == add_task(s, t, as)

register_idle(s, t, as) == [register(s, t, as) EXCEPT !.idle = t]

-----------------------------------------------------------------------------
(* Queue, wake-up and dispatch.                                            *)

\* Mutant: last in, first out.
EnqueueInFront(s, t) ==
  IF queue_is_full(s) THEN [s EXCEPT !.panicked = TRUE]
  ELSE [s EXCEPT !.ready = <<t>> \o s.ready]

\* enqueue_ready: a full queue is a kernel panic.
enqueue_ready(s, t) ==
  IF queue_is_full(s) THEN [s EXCEPT !.panicked = TRUE]
  ELSE [s EXCEPT !.ready = Append(s.ready, t)]

\* Mutant: any blocked task will do.
WaitingOnAnything(s, ep) == {t \in Task : s.task_states[t].tag = "Blocked"}

\* The slots the scan of unblock_receiver_on matches.
waiting_on(s, ep) == {t \in Task : s.task_states[t] = Blocked(ep)}

\* Mutant: the woken task is queued but still marked Blocked.
UnblockKeepsState(s, ep) ==
  IF waiting_on(s, ep) = {} THEN s
  ELSE LET t == CHOOSE i \in waiting_on(s, ep) : \A j \in waiting_on(s, ep) : i <= j
       IN enqueue_ready(s, t)

\* Mutant: the scan starts at slot 1.
UnblockSkipsSlotZero(s, ep) ==
  IF waiting_on(s, ep) \ {0} = {} THEN s
  ELSE LET t == CHOOSE i \in waiting_on(s, ep) \ {0} : TRUE
       IN enqueue_ready([s EXCEPT !.task_states[t] = Ready], t)

\* unblock_receiver_on: the first slot blocked on ep becomes Ready and queued.
unblock_receiver_on(s, ep) ==
  IF waiting_on(s, ep) = {} THEN s
  ELSE LET t == CHOOSE i \in waiting_on(s, ep) : \A j \in waiting_on(s, ep) : i <= j
       IN enqueue_ready([s EXCEPT !.task_states[t] = Ready], t)

\* Make t the running task.
run(s, t) == [s EXCEPT !.task_states[t] = Ready, !.current = t]

\* Mutant: the head is run but stays queued.
RunHeadKeepsHead(s) == run(s, Head(s.ready))

\* Dequeue the head of the ready queue and run it.
run_head(s) == [run(s, Head(s.ready)) EXCEPT !.ready = Tail(s.ready)]

\* start_prelude: the head of the queue, else idle, else panic.
start_prelude(s) ==
  IF s.ready # <<>> THEN run_head(s)
  ELSE IF s.idle # None THEN run(s, s.idle)
  ELSE [s EXCEPT !.panicked = TRUE]

\* yield_now's choice: requeue the current task unless it is idle, then take
\* the head.  Drawing itself, or idle finding nothing, means no switch.
yield_now(s) ==
  LET c == s.current
      m == [s EXCEPT !.task_states[c] = Ready]
      q == IF c = s.idle THEN m ELSE enqueue_ready(m, c)
  IN IF q.panicked THEN q
     ELSE IF q.ready # <<>> /\ Head(q.ready) # c THEN run_head(q)
     ELSE IF q.ready # <<>> THEN [q EXCEPT !.ready = Tail(q.ready)]
     ELSE IF q.idle # None /\ q.idle # c THEN run(q, q.idle)
     ELSE q

\* The dispatch of ipc_recv_and_yield has a candidate: a queued task, or an
\* idle task other than the caller.
can_block(s) == s.ready # <<>> \/ (s.idle # None /\ s.idle # s.current)

\* Phase 2 with a candidate: the current task blocks, the candidate runs.
block_current(s, ep) ==
  LET b == [s EXCEPT !.task_states[s.current] = Blocked(ep), !.current = None]
  IN IF b.ready # <<>> THEN run_head(b) ELSE run(b, b.idle)

\* Mutant: the activation hook never fires.
ActivateNever(current_as, next_as, active) == active

\* address_space_activation_target applied to the active address space: the
\* hook fires only when both handles are known and differ.
activation_target(current_as, next_as, active) ==
  IF current_as # None /\ next_as # None /\ current_as # next_as THEN next_as ELSE active
=============================================================================
