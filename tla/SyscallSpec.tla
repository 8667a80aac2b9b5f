----------------------------- MODULE SyscallSpec -----------------------------
(***************************************************************************)
(* System calls as they enter through syscall_entry                        *)
(* (bsp-qemu-virt/src/syscall.rs): the context is built from the running   *)
(* task's bindings, all or nothing, the dispatcher runs, and its effect is *)
(* applied.  Interrupts are masked from entry to return, so one call is    *)
(* one step.  Which ready task runs next is the scheduler's business       *)
(* (Scheduler, SchedIpc) and is left open here.                            *)
(***************************************************************************)
EXTENDS Syscall

CONSTANTS
  UserTask,       \* tasks registered with add_user_task
  KernelTask,     \* tasks registered with add_task: no table, no window
  Span,           \* Span[t]: the user_entry and user_sp t is registered with
  TaskAs,         \* TaskAs[t]: task_address_space_handles of user task t
  InitTables,     \* the tables the user tasks are bound to; a task outside the
                  \* domain was registered with a null table pointer
  InitAsArena,    \* AS_ARENA after boot: root frames
  InitMemories,   \* the memories boot may leave
  BootRoot,       \* the root of BOOTSTRAP_AS
  FreshRoot,      \* the zeroed root of an address space created later
  Numbers,        \* the x8 values passed
  Words,          \* the words passed as handles in x0 and x5
  Ptrs, Lens,     \* the words passed in x1 and x2 of console_write
  Revocable,      \* bound: the tasks whose address space is destroyed
  MaxCopies       \* bound: the copy_to_user calls made

ASSUME SyscallSpecAssumption ==
  /\ UserTask \cap KernelTask = {} /\ None \notin UserTask \union KernelTask
  /\ Span \in [UserTask -> [entry : 0 .. UsizeMax, sp : 0 .. UsizeMax]]
  /\ TaskAs \in [UserTask -> SlotId]
  /\ DOMAIN InitTables \subseteq UserTask
  /\ \A t \in DOMAIN InitTables : InitTables[t] \in CapabilityTable /\ WellFormed(InitTables[t])
  /\ \A m \in InitMemories : m = [f \in DOMAIN m |-> [i \in WordIndex |-> m[f][i]]]
  /\ Words \subseteq Word /\ Numbers \subseteq Nat
  /\ Ptrs \subseteq 0 .. UsizeMax /\ Lens \subseteq 0 .. UsizeMax
  /\ Revocable \subseteq DOMAIN InitTables
  /\ MaxCopies \in Nat

VARIABLES
  tables,     \* each user task's table; tables[None] is FAILCLOSED_TABLE
  queues,     \* IPC_QUEUES
  as_arena,   \* AS_ARENA
  mem,        \* memory, by frame
  current,    \* SCHED's current task
  exited,     \* tasks that called task_exit
  last,       \* the call about to return: its arguments, return registers and
              \* the words it emitted; None between calls
  copies      \* copy_to_user calls made

vars == <<tables, queues, as_arena, mem, current, exited, last, copies>>

\* The user tasks with a capability table.
BoundTask == DOMAIN InitTables

\* task_user_windows: the image and stack span, empty if it is inverted.
Window == [t \in UserTask |-> [base |-> Span[t].entry, len |-> saturating_sub(Span[t].sp, Span[t].entry)]]

\* EP_ARENA: every endpoint slot is allocated; v1 destroys none.
EpArena == [entry      |-> [i \in SlotIndex |-> "endpoint"],
            generation |-> [i \in SlotIndex |-> 0],
            next_free  |-> [i \in SlotIndex |-> None],
            free_head  |-> None]

Init ==
  /\ tables = [t \in BoundTask \union {None} |-> IF t = None THEN NewTable ELSE InitTables[t]]
  /\ queues = NewQueues
  /\ as_arena = InitAsArena
  /\ mem \in InitMemories
  /\ current = None
  /\ exited = {}
  /\ last = None
  /\ copies = 0

-----------------------------------------------------------------------------
(* What boot leaves.                                                       *)

\* The frame tables that translate reads on its way to va.
tables_read(root, m, va) ==
  LET l1 == read_table(m, [result |-> "Ok", table |-> root], va_index(va, 4))
      l2 == read_table(m, l1, va_index(va, 3))
  IN {root, l1.table, l2.table, read_table(m, l2, va_index(va, 2)).table}

SpanOf(t) == Span[t].entry .. (Span[t].sp - 1)

RootOf(t) == get(InitAsArena, TaskAs[t])

\* Task t may write the page of va.
WritableAt(t, m, va) ==
  \E p \in {translate(RootOf(t), m, page_of(va))} \ {None} : {"USER", "WRITE"} \subseteq p.flags

\* Each writable page of a task has a frame of its own, which is no page table
\* (the loader maps every page to a frame it has just allocated).
Private(m) ==
  \A t \in BoundTask : \A va \in SpanOf(t) :
    /\ tables_read(RootOf(t), m, page_of(va)) \subseteq DOMAIN m
    /\ WritableAt(t, m, va) =>
         LET f == translate(RootOf(t), m, page_of(va)).frame
         IN /\ f \in DOMAIN m
            /\ \A u \in BoundTask : \A vb \in SpanOf(u) : f \notin tables_read(RootOf(u), m, page_of(vb))
            /\ \A vb \in SpanOf(t) :
                 WritableAt(t, m, vb) /\ translate(RootOf(t), m, page_of(vb)).frame = f =>
                   page_of(vb) = page_of(va)

\* The free list of an arena: it threads free slots only, each at most once.
Threaded(a) ==
  LET free_slots == {i \in SlotIndex : a.entry[i] = None}
  IN /\ a.free_head \in free_slots \union {None}
     /\ \A i \in free_slots : a.next_free[i] \in (free_slots \ {a.free_head}) \union {None}
     /\ \A i, j \in free_slots : a.next_free[i] = a.next_free[j] => i = j \/ a.next_free[i] = None

\* A task is registered with an address space that exists.
ASSUME BootAssumption ==
  /\ InitAsArena \in ArenaOf(Nat) /\ FreshRoot \in Nat
  /\ Threaded(InitAsArena)
  /\ \A t \in BoundTask : contains(InitAsArena, TaskAs[t])
  /\ \A m \in InitMemories : Private(m)

-----------------------------------------------------------------------------
(* syscall_entry.                                                          *)

\* Mutant: whatever now lives in the task's address-space slot will do.
ContextTrustsSlot ==
  IF current \in BoundTask /\ as_arena.entry[TaskAs[current].index] # None
  THEN [task |-> current, window |-> Window[current],
        root |-> as_arena.entry[TaskAs[current].index]]
  ELSE [task |-> None, window |-> EmptyWindow, root |-> BootRoot]

\* Table, window and generation-checked address space, or the empty defaults.
entry_context ==
  IF current \in BoundTask /\ contains(as_arena, TaskAs[current])
  THEN [task |-> current, window |-> Window[current], root |-> get(as_arena, TaskAs[current])]
  ELSE [task |-> None, window |-> EmptyWindow, root |-> BootRoot]

has_current_task == entry_context.task # None

\* The trap frame: x8 and the argument words that matter.
Args(nr, x0, ptr, len, x5) == [nr |-> nr, x0 |-> x0, ptr |-> ptr, len |-> len, x5 |-> x5]

\* Resume: the registers are written back; out went to the console.
Resumed(args, ret, out) ==
  /\ last = None
  /\ last' = [args |-> args, ret |-> ret, out |-> out]

\* The handlers' common frame: only the context's table and the queues.
Commit(e, args) ==
  /\ tables' = [tables EXCEPT ![entry_context.task] = e.table]
  /\ queues' = e.queues
  /\ Resumed(args, e.ret, <<>>)
  /\ UNCHANGED <<as_arena, mem, current, exited, copies>>

BadNumber(nr) ==
  /\ decode(nr) = None
  /\ Resumed(Args(nr, 0, 0, 0, 0), error(BadSyscallNumber), <<>>)
  /\ UNCHANGED <<tables, queues, as_arena, mem, current, exited, copies>>

Send(nr, x0, msg, x5) ==
  /\ decode(nr) = "Send"
  /\ Commit(sys_send(EpArena, queues, tables[entry_context.task], x0, msg, x5),
            Args(nr, x0, 0, 0, x5))

Recv(nr, x0) ==
  /\ decode(nr) = "Recv"
  /\ Commit(sys_recv(EpArena, queues, tables[entry_context.task], x0), Args(nr, x0, 0, 0, 0))

ConsoleWrite(nr, x0, ptr, len) ==
  LET c == entry_context
      r == sys_console_write(tables[c.task], c.window, c.root, mem, x0, ptr, len)
  IN /\ decode(nr) = "ConsoleWrite"
     /\ Resumed(Args(nr, x0, ptr, len, 0), r.ret, r.out)
     /\ UNCHANGED <<tables, queues, as_arena, mem, current, exited, copies>>

Runnable == (UserTask \union KernelTask) \ exited

\* Control plane: rejected without a complete context; otherwise yield_now
\* (the call returns Ok when the task is dispatched again) ...
TaskYield(nr) ==
  /\ decode(nr) = "TaskYield"
  /\ Resumed(Args(nr, 0, 0, 0, 0), IF has_current_task THEN ok(0) ELSE error(Cap("InvalidHandle")), <<>>)
  /\ IF has_current_task THEN current' \in Runnable ELSE UNCHANGED current
  /\ UNCHANGED <<tables, queues, as_arena, mem, exited, copies>>

\* ... or task_exit_current, which never returns to the caller.
TaskExit(nr) ==
  /\ decode(nr) = "TaskExit"
  /\ IF has_current_task
     THEN /\ exited' = exited \union {current}
          /\ current' \in Runnable \ {current}
          /\ last = None /\ UNCHANGED last
     ELSE /\ Resumed(Args(nr, 0, 0, 0, 0), error(Cap("InvalidHandle")), <<>>)
          /\ UNCHANGED <<current, exited>>
  /\ UNCHANGED <<tables, queues, as_arena, mem, copies>>

\* ERET.
Return ==
  /\ last # None
  /\ last' = None
  /\ UNCHANGED <<tables, queues, as_arena, mem, current, exited, copies>>

-----------------------------------------------------------------------------
(* What goes on around the calls.                                          *)

\* The boot code starts the scheduler, or a kernel task yields.
Dispatch ==
  /\ current \notin UserTask
  /\ current' \in Runnable
  /\ last = None
  /\ UNCHANGED <<tables, queues, as_arena, mem, exited, last, copies>>

\* destroy_address_space, reserved for revocation, of an address space whose
\* task is still registered.  Bound: no generation wraps.
DestroyAddressSpace(h) ==
  /\ contains(as_arena, h)
  /\ h.generation < ArenaGenModulus - 1
  /\ as_arena' = free(as_arena, h)
  /\ last = None
  /\ UNCHANGED <<tables, queues, mem, current, exited, last, copies>>

CreateAddressSpace ==
  /\ ~arena_is_full(as_arena)
  /\ as_arena' = allocate(as_arena, FreshRoot)
  /\ last = None
  /\ UNCHANGED <<tables, queues, mem, current, exited, last, copies>>

\* copy_to_user of words the kernel made up; no v1 syscall calls it yet (nr is
\* None).  A zero-length copy succeeds in any context.
CopyToUser(ptr, len) ==
  LET c == entry_context
      src == [n \in 1 .. len |-> Data(<<None, n>>)]
  IN /\ copies < MaxCopies
     /\ copies' = copies + 1
     /\ mem' = IF copy_to_user_ok(c.root, mem, c.window, ptr, len)
               THEN copy_to_user(c.root, mem, ptr, src)
               ELSE mem
     /\ Resumed(Args(None, 0, ptr, len, 0),
                IF copy_to_user_ok(c.root, mem, c.window, ptr, len)
                THEN ok(0) ELSE error(FaultAddress),
                <<>>)
     /\ UNCHANGED <<tables, queues, as_arena, current, exited>>

Next ==
  \/ \E nr \in Numbers :
       \/ BadNumber(nr)
       \/ \E x0 \in Words, msg \in Message, x5 \in Words : Send(nr, x0, msg, x5)
       \/ \E x0 \in Words : Recv(nr, x0)
       \/ \E x0 \in Words, ptr \in Ptrs, len \in Lens : ConsoleWrite(nr, x0, ptr, len)
       \/ TaskYield(nr)
       \/ TaskExit(nr)
  \/ Return
  \/ Dispatch
  \/ \E t \in Revocable : DestroyAddressSpace(TaskAs[t])
  \/ CreateAddressSpace
  \/ \E ptr \in Ptrs, len \in Lens : CopyToUser(ptr, len)

Spec == Init /\ [][Next]_vars

-----------------------------------------------------------------------------
(* Properties.                                                             *)

\* A call was made in this step.
Called == last = None /\ last' # None

\* The running task has a table and a live address space of its own.
Complete == current \in BoundTask /\ contains(as_arena, TaskAs[current])

\* The word of user memory at va, by the reference definition: va lies in the
\* task's span and below the user limit, and its page is mapped for EL0.
UserByte(t, va, flags) ==
  LET p == translate(get(as_arena, TaskAs[t]), mem, va - (va % PageSize))
  IN /\ Span[t].entry <= va /\ va < Span[t].sp
     /\ p # None /\ flags \subseteq p.flags

WordOf(t, va) ==
  mem[translate(get(as_arena, TaskAs[t]), mem, va - (va % PageSize)).frame][va % PageSize]

\* Without a complete context every call fails, moves no capability and
\* message, emits nothing, and neither yields nor ends a task (syscall_entry's
\* all-or-nothing match and the has_current_task gate).
FailClosed ==
  [][~Complete => /\ UNCHANGED <<tables, queues, exited>>
                  /\ Called => /\ last'.out = <<>>
                               /\ last'.ret.status = OK_STATUS => last'.args.nr = None /\ last'.args.len = 0
                               /\ UNCHANGED <<mem, current>>]_vars

\* console_write succeeds exactly for a holder of CONSOLE_WRITE on the console
\* whose whole buffer it could itself read at EL0; it then emits the buffer,
\* word for word, and otherwise nothing: no chunk or page boundary, fault in
\* the middle of the buffer or address at the top of usize shows from outside.
ConsoleExact ==
  [][Called /\ last'.args.nr = 5 =>
       LET a == last'.args
           h == decode_required_cap_handle(a.x0)
           allowed == /\ DebugBuild /\ Complete
                      /\ resolves(tables[current], h)
                      /\ lookup(tables[current], h).object = [kind |-> "DebugConsole"]
                      /\ "CONSOLE_WRITE" \in lookup(tables[current], h).rights
                      /\ \A va \in a.ptr .. (a.ptr + a.len - 1) : UserByte(current, va, {"USER"})
       IN /\ last'.ret.status = OK_STATUS <=> allowed
          /\ allowed => last'.ret.x1 = a.len
          /\ last'.out = IF allowed THEN [n \in 1 .. a.len |-> WordOf(current, a.ptr + n - 1)]
                         ELSE <<>>]_vars

\* copy_to_user changes exactly the words of a range that is user-writable
\* from end to end, and nothing otherwise: no page table, no kernel frame, no
\* read-only page of the task.
CopyToUserExact ==
  [][Called /\ last'.args.nr = None =>
       LET a == last'.args
           range == a.ptr .. (a.ptr + a.len - 1)
           writable == \A va \in range : Complete /\ UserByte(current, va, {"USER", "WRITE"})
       IN /\ (last'.ret.status = OK_STATUS) <=> writable
          /\ writable => \A va \in range : WordOf(current, va)' = Data(<<None, va - a.ptr + 1>>)
          /\ \A f \in DOMAIN mem, i \in WordIndex :
               mem'[f][i] # mem[f][i] =>
                 writable /\ \E va \in range :
                   /\ va % PageSize = i
                   /\ translate(get(as_arena, TaskAs[current]), mem, va - i).frame = f]_vars

\* The endpoint a word names in table t.
EndpointOf(t, word) == handle_of(t, decode_required_cap_handle(word))

\* A recv that returned a message: decoded, x6 names the very capability that
\* was in flight, and it is the null handle exactly when none was.
ReceivedWordNamesCap ==
  LET s == peek_state(queues, EndpointOf(tables[current], last'.args.x0))
      h == decode_cap_handle(last'.ret.x6)
  IN /\ last'.ret.msg = s.msg
     /\ IF s.cap = None THEN h = None
        ELSE h # None /\ resolves(tables'[current], h) /\ lookup(tables'[current], h) = s.cap

\* A send that succeeded: the capability its x5 names left the sender, and
\* nothing did for the null handle.
SentWordNamesCap ==
  LET x5 == last'.args.x5
      h == [index |-> x5 % IndexModulus, generation |-> (x5 \div IndexModulus) % GenModulus]
      s == peek_state(queues', EndpointOf(tables[current], last'.args.x0))
  IN IF x5 = WordModulus - 1
     THEN s.cap = None /\ tables'[current] = tables[current]
     ELSE /\ resolves(tables[current], h) /\ s.cap = lookup(tables[current], h)
          /\ ~resolves(tables'[current], h)

\* The register words of send and recv name capabilities exactly: no word of
\* garbage in x5 transfers another capability than the one it encodes, and the
\* word a receiver gets in x6 is one it can use.
TransferWordsExact ==
  [][Called /\ last'.ret.status = OK_STATUS =>
       /\ last'.args.nr = 1 => SentWordNamesCap
       /\ last'.args.nr = 2 /\ last'.ret.x1 = 0 => ReceivedWordNamesCap]_vars
=============================================================================
