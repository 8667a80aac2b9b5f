------------------------------- MODULE Syscall -------------------------------
(***************************************************************************)
(* kernel::syscall: the register ABI (abi.rs, error.rs) and the data-plane *)
(* handlers of the dispatcher (dispatch.rs).                               *)
(*                                                                         *)
(* A register word is a number below WordModulus.  The four words of a     *)
(* message body pass through unread and are one Message here, None when    *)
(* the payload registers are zeroed.                                       *)
(***************************************************************************)
EXTENDS Ipc, UserAccess

CONSTANTS
  IndexModulus,   \* 2^16: the index field of a packed handle
  WordModulus,    \* 2^64
  DebugBuild,     \* cfg!(debug_assertions)
  ConsoleChunk    \* CONSOLE_WRITE_CHUNK (256)

NULL_CAP_HANDLE == WordModulus - 1

\* The const assert below NULL_CAP_HANDLE; and the sentinel's index field
\* names no slot.
ASSUME SyscallAssumption ==
  /\ IndexModulus \in Nat \ {0} /\ WordModulus \in Nat
  /\ NULL_CAP_HANDLE > (GenModulus - 1) * IndexModulus + (IndexModulus - 1)
  /\ NULL_CAP_HANDLE % IndexModulus >= Capacity
  /\ None \notin [index : Nat, generation : Nat]
  /\ None \notin {"Send", "Recv", "TaskYield", "TaskExit", "ConsoleWrite"}
  /\ DebugBuild \in BOOLEAN
  /\ ConsoleChunk \in Nat \ {0}
  /\ [kind |-> "DebugConsole"] \in Objects /\ "CONSOLE_WRITE" \in Rights
  /\ \A o \in Objects : o.kind = "DebugConsole" => o = [kind |-> "DebugConsole"]

Word == 0 .. (WordModulus - 1)

-----------------------------------------------------------------------------
(* The ABI.                                                                *)

\* SyscallNumber::decode.
decode(raw) ==
  IF raw = 5 /\ ~DebugBuild THEN None
  ELSE IF raw \in 1 .. 5
    THEN <<"Send", "Recv", "TaskYield", "TaskExit", "ConsoleWrite">>[raw]
  ELSE None

\* Mutant: only the index is packed.
EncodeIndexOnly(h) == IF h = None THEN NULL_CAP_HANDLE ELSE h.index

encode_cap_handle(h) ==
  IF h = None THEN NULL_CAP_HANDLE ELSE h.generation * IndexModulus + h.index

\* Truncating casts: the bits above the generation are dropped.
decode_required_cap_handle(word) ==
  [index |-> word % IndexModulus, generation |-> (word \div IndexModulus) % GenModulus]

decode_cap_handle(word) ==
  IF word = NULL_CAP_HANDLE THEN None ELSE decode_required_cap_handle(word)

\* SyscallError::as_status; PendingAfterResume (7) is the scheduler bridge's.
OK_STATUS == 0
cap_error_code ==
  [CapsExhausted |-> 1, InvalidHandle |-> 2, WidenedRights |-> 3, InsufficientRights |-> 4,
   DerivationTooDeep |-> 5, HasChildren |-> 6, WrongKind |-> 7]
ipc_error_code ==
  [StaleHandle |-> 1, WrongObjectKind |-> 2, MissingRight |-> 3, QueueFull |-> 4,
   InvalidTransferCap |-> 5, ReceiverTableFull |-> 6, PendingAfterResume |-> 7]
BadSyscallNumber == 1
FaultAddress == 3
Cap(e) == 256 + cap_error_code[e]
IpcStatus(e) == 512 + ipc_error_code[e]

\* SyscallReturn: x0, and of the payload x1, the message (x2 to x5) and x6.
SyscallReturn == [status : Nat, x1 : Nat, msg : Message \union {None}, x6 : Word]

error(status) == [status |-> status, x1 |-> 0, msg |-> None, x6 |-> 0]
ok(x1) == [status |-> OK_STATUS, x1 |-> x1, msg |-> None, x6 |-> 0]

encode_send_outcome(r) == IF r = "Delivered" THEN 0 ELSE 1

\* encode_recv_outcome, for the message and the handle installed.
received(msg, h) == [status |-> OK_STATUS, x1 |-> 0, msg |-> msg, x6 |-> encode_cap_handle(h)]
pending == ok(1)

-----------------------------------------------------------------------------
(* The handlers: what a call returns and the state it leaves.              *)

Effect(ret, queues, table) == [ret |-> ret, queues |-> queues, table |-> table]

sys_send(arena, queues, table, x0, msg, x5) ==
  LET r == ipc_send(arena, queues, table, decode_required_cap_handle(x0), msg, decode_cap_handle(x5))
  IN Effect(IF r.result \in {"Delivered", "Enqueued"} THEN ok(encode_send_outcome(r.result))
            ELSE error(IpcStatus(r.result)),
            r.queues, r.table)

\* The handle insert_root returns is that of the slot the table had free.
sys_recv(arena, queues, table, x0) ==
  LET ep_cap == decode_required_cap_handle(x0)
      r == ipc_recv(arena, queues, table, ep_cap)
      s == peek_state(queues, handle_of(table, ep_cap))
      installed == IF s.cap = None THEN None ELSE HandleOf(r.table, table.free_head)
  IN Effect(IF r.result = "Received" THEN received(s.msg, installed)
            ELSE IF r.result = "Pending" THEN pending
            ELSE error(IpcStatus(r.result)),
            r.queues, r.table)

validate_debug_console_cap(table, h) ==
  IF ~resolves(table, h) THEN "InvalidHandle"
  ELSE IF entry_of(table, h).object.kind # "DebugConsole" THEN "WrongKind"
  ELSE IF "CONSOLE_WRITE" \notin entry_of(table, h).rights THEN "InsufficientRights"
  ELSE "Ok"

\* Mutant: the whole range is not probed before the first chunk.
GateWithoutProbe(table, w, root, mem, x0, ptr, len) ==
  LET c == validate_debug_console_cap(table, decode_required_cap_handle(x0))
  IN IF c # "Ok" THEN Cap(c)
     ELSE IF ~validate(w, ptr, len) THEN FaultAddress
     ELSE OK_STATUS

\* The three gates: authority, range, and every page of the range.
console_gate(table, w, root, mem, x0, ptr, len) ==
  LET c == validate_debug_console_cap(table, decode_required_cap_handle(x0))
  IN IF c # "Ok" THEN Cap(c)
     ELSE IF ~validate(w, ptr, len) THEN FaultAddress
     ELSE IF len > 0 /\ ~probe_user_pages(root, mem, ptr, len, FALSE) THEN FaultAddress
     ELSE OK_STATUS

\* The copy-and-emit loop: its status and the words it wrote.
emit_chunks(w, root, mem, ptr, len) ==
  LET emit[offset \in 0 .. len] ==
        LET chunk == IF len - offset < ConsoleChunk THEN len - offset ELSE ConsoleChunk
            chunk_ptr == ptr + offset
            from == copy_from_user(root, mem, chunk_ptr, chunk)
        IN IF offset >= len THEN [status |-> OK_STATUS, out |-> <<>>]
           ELSE IF \/ checked_add(ptr, offset) = None
                   \/ ~copy_from_user_ok(root, mem, w, chunk_ptr, chunk)
             THEN [status |-> FaultAddress, out |-> <<>>]
           ELSE LET rest == emit[offset + chunk]
                IN [status |-> rest.status,
                    out    |-> [n \in DOMAIN from |-> mem[from[n].frame][from[n].at]] \o rest.out]
  IN emit[0]

sys_console_write(table, w, root, mem, x0, ptr, len) ==
  LET gate == console_gate(table, w, root, mem, x0, ptr, len)
      loop == emit_chunks(w, root, mem, ptr, len)
  IN IF gate # OK_STATUS THEN [ret |-> error(gate), out |-> <<>>]
     ELSE [ret |-> IF loop.status = OK_STATUS THEN ok(len) ELSE error(loop.status),
           out |-> loop.out]
=============================================================================
