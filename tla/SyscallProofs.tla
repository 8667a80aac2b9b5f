---------------------------- MODULE SyscallProofs ----------------------------
(***************************************************************************)
(* Proofs about system calls, for every number of tasks, every table,      *)
(* every register word and every page size: a task without a complete      *)
(* context gets nothing, handle words name the capabilities they encode,   *)
(* the console prints exactly what the caller could have read, and a copy  *)
(* to user memory changes exactly the range the task may write.            *)
(***************************************************************************)
EXTENDS SyscallSpec, KernelLemmas

-----------------------------------------------------------------------------
(* The inductive invariant.                                                *)

\* FAILCLOSED_TABLE is shared by every incomplete context and stays empty; the
\* other tables are well formed.
IInv ==
  /\ tables \in [BoundTask \union {None} -> CapabilityTable]
  /\ \A t \in BoundTask \union {None} : WellFormed(tables[t])
  /\ tables[None] = NewTable
  /\ queues \in IpcQueues
  /\ mem = [f \in DOMAIN mem |-> [i \in WordIndex |-> mem[f][i]]]

LEMMA Constants ==
  /\ BoundTask \subseteq UserTask /\ None \notin BoundTask
  /\ None \notin Nat
  /\ IndexModulus \in Nat /\ IndexModulus > 0 /\ GenModulus \in Nat /\ GenModulus > 0
  /\ WordModulus \in Nat /\ Words \subseteq Nat
<1>1. WordModulus \in Nat
  BY SyscallAssumption
<1>2. Word \subseteq Nat
  BY <1>1 DEF Word
<1>3. QED
  BY <1>1, <1>2, SyscallSpecAssumption, SyscallAssumption, NoneAssumption, CapTableAssumption DEF BoundTask

-----------------------------------------------------------------------------
(* Handle words.                                                           *)

\* A word decodes to a handle of the table, or to one with an index out of
\* range, which resolves in no table.
LEMMA Decoded ==
  ASSUME NEW w \in Nat
  PROVE  LET h == decode_required_cap_handle(w)
         IN h \in CapHandle \/ h.index \notin Index
<1>1. (w \div IndexModulus) \in Nat
  BY Constants
<1> DEFINE q == w \div IndexModulus
<1> HIDE DEF q
<1>2. q % GenModulus \in 0 .. (GenModulus - 1)
  BY <1>1, Constants DEF q
<1>3. QED
  BY <1>2 DEF decode_required_cap_handle, CapHandle, Generation, q

\* Only the sentinel decodes to None.
LEMMA HandleWord ==
  ASSUME NEW w \in Nat
  PROVE  decode_required_cap_handle(w) # None
<1>1. w % IndexModulus \in Nat /\ w \div IndexModulus \in Nat
  BY Constants
<1> DEFINE q == w \div IndexModulus
<1> HIDE DEF q
<1>2. q % GenModulus \in Nat
  BY <1>1, Constants DEF q
<1>3. decode_required_cap_handle(w) \in [index : Nat, generation : Nat]
  BY <1>1, <1>2 DEF decode_required_cap_handle, q
<1>4. QED
  BY <1>3, SyscallAssumption

\* Division undoes the packing of a handle.
LEMMA Packed ==
  ASSUME NEW m \in Nat, m > 0, NEW g \in Nat, NEW i \in 0 .. (m - 1)
  PROVE  /\ (g * m + i) % m = i
         /\ (g * m + i) \div m = g
<1> DEFINE x == g * m + i
           q == x \div m
           r == x % m
<1>1. x \in Nat /\ g * m \in Nat
  BY SMT
<1> HIDE DEF x
<1>2. q \in Nat /\ r \in 0 .. (m - 1) /\ x = m * q + r
  BY <1>1, SMT
<1> HIDE DEF q, r
<1>3. ~(q > g)
  <2> SUFFICES ASSUME q > g PROVE FALSE
    OBVIOUS
  <2>1. PICK k \in Nat : q = g + 1 + k
    BY <1>2
  <2>2. m * q = g * m + m + m * k /\ m * k \in Nat
    BY <2>1
  <2>3. QED
    BY <1>1, <1>2, <2>2 DEF x
<1>4. ~(g > q)
  <2> SUFFICES ASSUME g > q PROVE FALSE
    OBVIOUS
  <2>1. PICK k \in Nat : g = q + 1 + k
    BY <1>2
  <2>2. g * m = m * q + m + m * k /\ m * k \in Nat
    BY <1>2, <2>1
  <2>3. QED
    BY <1>1, <1>2, <2>2 DEF x
<1>5. q = g
  BY <1>2, <1>3, <1>4
<1>6. m * q = g * m
  BY <1>5
<1>7. r = i
  BY <1>1, <1>2, <1>6 DEF x
<1>8. QED
  BY <1>5, <1>7 DEF x, q, r

\* encode_cap_handle and decode_cap_handle are inverses on the handles of a
\* table, and the sentinel is none of their words.
LEMMA RoundTrip ==
  /\ decode_cap_handle(encode_cap_handle(None)) = None
  /\ \A h \in CapHandle : decode_cap_handle(encode_cap_handle(h)) = h
<1>1. decode_cap_handle(encode_cap_handle(None)) = None
  BY DEF decode_cap_handle, encode_cap_handle
<1>2. ASSUME NEW h \in CapHandle
      PROVE  decode_cap_handle(encode_cap_handle(h)) = h
  <2> DEFINE m == IndexModulus
             g == h.generation
             i == h.index
  <2>1. /\ g \in 0 .. (GenModulus - 1) /\ i \in 0 .. (Capacity - 1)
        /\ h = [index |-> i, generation |-> g]
    BY DEF CapHandle, Index, Generation
  <2>2. NULL_CAP_HANDLE \in Int /\ NULL_CAP_HANDLE % m \in 0 .. (m - 1)
    BY Constants DEF NULL_CAP_HANDLE
  <2>3. i \in 0 .. (m - 1)
    <3>1. NULL_CAP_HANDLE % m >= Capacity /\ Capacity \in Nat /\ m \in Nat
      BY SyscallAssumption, CapTableAssumption, Constants
    <3> DEFINE r == NULL_CAP_HANDLE % m
    <3>2. r \in 0 .. (m - 1) /\ r >= Capacity
      BY <2>2, <3>1
    <3> HIDE DEF r
    <3>3. QED
      BY <2>1, <3>1, <3>2
  <2>4. g * m + i <= (GenModulus - 1) * m + (m - 1)
    <3> DEFINE k == GenModulus - 1 - g
    <3>1. k \in Nat /\ GenModulus - 1 = g + k
      BY <2>1, Constants
    <3> HIDE DEF k
    <3>2. (GenModulus - 1) * m = g * m + k * m /\ k * m \in Nat /\ g * m \in Nat
      BY <2>1, <3>1, Constants
    <3>3. QED
      BY <2>3, <3>2, Constants
  <2>5. g * m + i # NULL_CAP_HANDLE
    <3>1. g * m + i \in Nat /\ (GenModulus - 1) * m + (m - 1) \in Int
      BY <2>1, Constants
    <3>2. QED
      BY <2>2, <2>4, <3>1, SyscallAssumption
  <2>6. (g * m + i) % m = i /\ (g * m + i) \div m = g
    BY <2>1, <2>3, Packed, Constants
  <2>7. g % GenModulus = g
    BY <2>1, Constants
  <2>8. encode_cap_handle(h) = g * m + i
    BY NoneAssumption DEF encode_cap_handle
  <2>9. QED
    BY <2>1, <2>5, <2>6, <2>7, <2>8 DEF decode_cap_handle, decode_required_cap_handle
<1>3. QED
  BY <1>1, <1>2

-----------------------------------------------------------------------------
(* Return values.                                                          *)

SendResult == {"StaleHandle", "WrongObjectKind", "MissingRight", "InvalidTransferCap", "QueueFull",
               "Delivered", "Enqueued"}
RecvResult == {"StaleHandle", "WrongObjectKind", "MissingRight", "ReceiverTableFull", "QueueFull",
               "Received", "Pending"}

\* No error is encoded as success.
LEMMA ErrorStatus ==
  /\ \A e \in (SendResult \union RecvResult) \ {"Delivered", "Enqueued", "Received", "Pending"} :
       IpcStatus(e) # OK_STATUS
  /\ \A e \in {"InvalidHandle", "WrongKind", "InsufficientRights"} : Cap(e) # OK_STATUS
  /\ BadSyscallNumber # OK_STATUS /\ FaultAddress # OK_STATUS
<1>1. \A e \in (SendResult \union RecvResult) \ {"Delivered", "Enqueued", "Received", "Pending"} :
        ipc_error_code[e] \in Nat
  BY DEF SendResult, RecvResult, ipc_error_code
<1>2. \A e \in {"InvalidHandle", "WrongKind", "InsufficientRights"} : cap_error_code[e] \in Nat
  BY DEF cap_error_code
<1>3. QED
  BY <1>1, <1>2 DEF IpcStatus, Cap, OK_STATUS, BadSyscallNumber, FaultAddress

LEMMA SendResults ==
  ASSUME NEW a, NEW q, NEW t, NEW c, NEW msg, NEW xfer
  PROVE  ipc_send(a, q, t, c, msg, xfer).result \in SendResult
  BY DEF ipc_send, Outcome, send_preflight, send_result, validate_ep_cap, validate_cap, SendResult

LEMMA RecvResults ==
  ASSUME NEW a, NEW q, NEW t, NEW c
  PROVE  ipc_recv(a, q, t, c).result \in RecvResult
  BY DEF ipc_recv, Outcome, recv_preflight, recv_result, validate_ep_cap, validate_cap, RecvResult

\* A handle that does not resolve is refused, and nothing changes.
LEMMA SendRefused ==
  ASSUME NEW a, NEW q, NEW t, NEW c, NEW msg, NEW xfer,
         ~resolves(t, c) \/ (xfer # None /\ ~resolves(t, xfer))
  PROVE  LET r == ipc_send(a, q, t, c, msg, xfer)
         IN r.queues = q /\ r.table = t /\ r.result \notin {"Delivered", "Enqueued"}
<1>1. send_preflight(a, t, c, xfer) \in {"StaleHandle", "WrongObjectKind", "MissingRight", "InvalidTransferCap"}
  BY DEF send_preflight, validate_ep_cap, validate_cap, transferable
<1>2. QED
  BY <1>1 DEF ipc_send, Outcome

LEMMA RecvRefused ==
  ASSUME NEW a, NEW q, NEW t, NEW c, ~resolves(t, c)
  PROVE  LET r == ipc_recv(a, q, t, c)
         IN r.queues = q /\ r.table = t /\ r.result \notin {"Received", "Pending"}
<1>1. recv_preflight(a, t, c) = "StaleHandle"
  BY DEF recv_preflight, validate_ep_cap, validate_cap
<1>2. QED
  BY <1>1 DEF ipc_recv, Outcome

-----------------------------------------------------------------------------
(* The handlers.                                                           *)

\* What a successful send did: the capability that x5 names, if it names one,
\* went from the sender's table into the endpoint.
LEMMA SysSend ==
  ASSUME NEW q \in IpcQueues, NEW t \in CapabilityTable, WellFormed(t),
         NEW x0 \in Nat, NEW msg \in Message, NEW x5 \in Nat
  PROVE  LET e == sys_send(EpArena, q, t, x0, msg, x5)
             h == decode_required_cap_handle(x5)
             s == peek_state(e.queues, EndpointOf(t, x0))
         IN /\ e.table \in CapabilityTable /\ WellFormed(e.table) /\ e.queues \in IpcQueues
            /\ e.ret.status = OK_STATUS =>
                 IF x5 = NULL_CAP_HANDLE
                 THEN s.cap = None /\ e.table = t
                 ELSE resolves(t, h) /\ s.cap = lookup(t, h) /\ ~resolves(e.table, h)
<1> DEFINE c == decode_required_cap_handle(x0)
           h == decode_required_cap_handle(x5)
           xfer == decode_cap_handle(x5)
           r == ipc_send(EpArena, q, t, c, msg, xfer)
           e == sys_send(EpArena, q, t, x0, msg, x5)
           ep == handle_of(t, c)
           s == peek_state(e.queues, ep)
<1>1. /\ e.table = r.table /\ e.queues = r.queues
      /\ e.ret = IF r.result \in {"Delivered", "Enqueued"} THEN ok(encode_send_outcome(r.result))
                 ELSE error(IpcStatus(r.result))
  BY DEF sys_send, Effect
<1>2. xfer = IF x5 = NULL_CAP_HANDLE THEN None ELSE h
  BY DEF decode_cap_handle
<1>3. r.result \in SendResult
  BY SendResults
<1> HIDE DEF r, e
<1>4. e.ret.status = OK_STATUS => r.result \in {"Delivered", "Enqueued"}
  <2> SUFFICES ASSUME r.result \notin {"Delivered", "Enqueued"}
               PROVE  e.ret.status # OK_STATUS
    OBVIOUS
  <2>1. e.ret.status = IpcStatus(r.result)
    BY <1>1 DEF error
  <2>2. r.result \notin {"Received", "Pending"}
    BY <1>3 DEF SendResult
  <2>3. QED
    BY <1>3, <2>1, <2>2, ErrorStatus
<1>5. EndpointOf(t, x0) = ep
  BY DEF EndpointOf
<1>6. CASE ~resolves(t, c) \/ (xfer # None /\ ~resolves(t, xfer))
  <2>1. r.queues = q /\ r.table = t /\ r.result \notin {"Delivered", "Enqueued"}
    BY <1>6, SendRefused DEF r
  <2>2. QED
    BY <1>1, <1>4, <2>1 DEF e
<1>7. CASE resolves(t, c) /\ (xfer = None \/ resolves(t, xfer))
  <2>1. c \in CapHandle /\ (xfer \in CapHandle \union {None})
    BY <1>2, <1>7, Decoded DEF resolves
  <2> HIDE DEF c, xfer, h
  <2>2. /\ r.table \in CapabilityTable /\ WellFormed(r.table) /\ r.queues \in IpcQueues
        /\ SendOutcome(EpArena, q, t, c, msg, xfer, r)
    BY <2>1, SendCases DEF r
  <2>3. CASE r.result \notin {"Delivered", "Enqueued"}
    BY <1>1, <1>4, <2>2, <2>3 DEF e
  <2>4. CASE r.result \in {"Delivered", "Enqueued"}
    <3>1. PICK cap \in Capability \union {None} :
            /\ Sent(t, xfer, cap, r.table)
            /\ \/ r.queues = set_state(q, ep, RecvComplete(msg, cap))
               \/ r.queues = set_state(q, ep, SendPending(msg, cap))
      BY <2>2, <2>4 DEF SendOutcome
    <3>2. ep \in SlotId
      BY <2>2, <2>4 DEF SendOutcome, Grip
    <3>3. peek_state(r.queues, ep).cap = cap
      <4>1. RecvComplete(msg, cap) \in EndpointState /\ SendPending(msg, cap) \in EndpointState
        BY StateTypes
      <4>2. peek_state(r.queues, ep) \in {RecvComplete(msg, cap), SendPending(msg, cap)}
        BY <3>1, <3>2, <4>1, PeekAfterSet
      <4>3. QED
        BY <4>2 DEF RecvComplete, SendPending
    <3>4. CASE x5 = NULL_CAP_HANDLE
      <4>1. xfer = None
        BY <1>2, <3>4
      <4>2. cap = None /\ r.table = t
        BY <3>1, <4>1, NoneAssumption DEF Sent
      <4>3. QED
        BY <1>1, <1>5, <2>2, <3>3, <3>4, <4>2 DEF e
    <3>5. CASE x5 # NULL_CAP_HANDLE
      <4>1. xfer = h /\ h # None /\ resolves(t, h)
        <5>1. xfer = h
          BY <1>2, <3>5
        <5>2. h # None
          BY HandleWord DEF h
        <5>3. QED
          BY <1>7, <5>1, <5>2
      <4>2. cap = lookup(t, h) /\ Dropped(t, r.table, h.index)
        BY <3>1, <4>1 DEF Sent
      <4>3. ~resolves(r.table, h)
        BY <4>2 DEF Dropped, resolves, Live
      <4>4. QED
        BY <1>1, <1>5, <2>2, <3>3, <3>5, <4>1, <4>2, <4>3 DEF e, h
    <3>6. QED
      BY <3>4, <3>5
  <2>5. QED
    BY <2>3, <2>4
<1>8. QED
  BY <1>6, <1>7

\* What a recv that returned a message did: x6 names the capability that was in
\* flight, in the receiver's table.
LEMMA SysRecv ==
  ASSUME NEW q \in IpcQueues, NEW t \in CapabilityTable, WellFormed(t), NEW x0 \in Nat
  PROVE  LET e == sys_recv(EpArena, q, t, x0)
             s == peek_state(q, EndpointOf(t, x0))
             h == decode_cap_handle(e.ret.x6)
         IN /\ e.table \in CapabilityTable /\ WellFormed(e.table) /\ e.queues \in IpcQueues
            /\ e.ret.status = OK_STATUS /\ e.ret.x1 = 0 =>
                 /\ e.ret.msg = s.msg
                 /\ IF s.cap = None THEN h = None
                    ELSE h # None /\ resolves(e.table, h) /\ lookup(e.table, h) = s.cap
<1> DEFINE c == decode_required_cap_handle(x0)
           r == ipc_recv(EpArena, q, t, c)
           e == sys_recv(EpArena, q, t, x0)
           ep == handle_of(t, c)
           s == peek_state(q, ep)
           n == IF s.cap = None THEN None ELSE HandleOf(r.table, t.free_head)
           h == decode_cap_handle(e.ret.x6)
<1>1. /\ e.table = r.table /\ e.queues = r.queues
      /\ e.ret = IF r.result = "Received" THEN received(s.msg, n)
                 ELSE IF r.result = "Pending" THEN pending
                 ELSE error(IpcStatus(r.result))
  BY DEF sys_recv, Effect
<1>2. r.result \in RecvResult
  BY RecvResults
<1> HIDE DEF r, e, n
<1>3. (e.ret.status = OK_STATUS /\ e.ret.x1 = 0) => r.result = "Received"
  <2>1. CASE r.result = "Pending"
    BY <1>1, <2>1 DEF pending, ok
  <2>2. CASE r.result \notin {"Received", "Pending"}
    <3>1. e.ret.status = IpcStatus(r.result)
      BY <1>1, <2>2 DEF error
    <3>2. r.result \notin {"Delivered", "Enqueued"}
      BY <1>2 DEF RecvResult
    <3>3. QED
      BY <1>2, <2>2, <3>1, <3>2, ErrorStatus
  <2>3. QED
    BY <2>1, <2>2
<1>4. EndpointOf(t, x0) = ep
  BY DEF EndpointOf
<1>5. CASE ~resolves(t, c)
  <2>1. r.queues = q /\ r.table = t /\ r.result # "Received"
    BY <1>5, RecvRefused DEF r
  <2>2. QED
    BY <1>1, <1>3, <2>1 DEF e
<1>6. CASE resolves(t, c)
  <2>1. c \in CapHandle
    BY <1>6, Decoded DEF resolves
  <2> HIDE DEF c
  <2>2. /\ r.table \in CapabilityTable /\ WellFormed(r.table) /\ r.queues \in IpcQueues
        /\ RecvOutcome(EpArena, q, t, c, r)
    BY <2>1, RecvCases DEF r
  <2>3. CASE r.result # "Received"
    BY <1>1, <1>3, <2>2, <2>3 DEF e
  <2>4. CASE r.result = "Received"
    <3>1. e.ret.msg = s.msg /\ e.ret.x6 = encode_cap_handle(n)
      BY <1>1, <2>4 DEF received
    <3>2. Got(t, s.cap, r.table)
      BY <2>2, <2>4 DEF RecvOutcome
    <3>3. s.cap = None => n = None /\ h = None
      BY <3>1, RoundTrip DEF n
    <3>4. s.cap # None => /\ h # None /\ resolves(r.table, h) /\ lookup(r.table, h) = s.cap
      <4> SUFFICES ASSUME s.cap # None
                   PROVE  h # None /\ resolves(r.table, h) /\ lookup(r.table, h) = s.cap
        OBVIOUS
      <4> DEFINE i == t.free_head
                 u == r.table
      <4>1. /\ s.cap \in Capability /\ i \in Index /\ i \in Live(u)
            /\ u.entry[i].rights = s.cap.rights /\ u.entry[i].object = s.cap.object
        BY <3>2 DEF Got, NewLinks
      <4>2. n = [index |-> i, generation |-> u.generation[i]] /\ u.generation[i] \in Generation
        BY <2>2, <4>1 DEF n, HandleOf, CapabilityTable
      <4>3. n \in CapHandle
        BY <4>1, <4>2 DEF CapHandle
      <4>4. h = n /\ h # None
        BY <3>1, <4>3, RoundTrip, NoneAssumption
      <4>5. resolves(u, n)
        BY <4>1, <4>2 DEF resolves, Live
      <4>6. lookup(u, n) = s.cap
        BY <4>1, <4>2 DEF lookup, entry_of, Capability
      <4>7. QED
        BY <4>4, <4>5, <4>6
    <3>5. QED
      BY <1>1, <1>4, <2>2, <3>1, <3>3, <3>4 DEF e
  <2>5. QED
    BY <2>3, <2>4
<1>7. QED
  BY <1>5, <1>6

-----------------------------------------------------------------------------
(* The context of a call.                                                  *)

LEMMA Context ==
  /\ Complete => entry_context.task = current /\ current \in BoundTask /\ has_current_task
  /\ ~Complete => /\ entry_context = [task |-> None, window |-> EmptyWindow, root |-> BootRoot]
                  /\ ~has_current_task
  BY Constants DEF Complete, entry_context, has_current_task

\* FAILCLOSED_TABLE resolves no handle.
LEMMA NothingResolves ==
  ASSUME NEW h
  PROVE  ~resolves(NewTable, h)
  BY DEF resolves, NewTable

\* Send and Recv on the table of the context.
LEMMA CommitInv ==
  ASSUME IInv, NEW e, NEW args, Commit(e, args),
         e.table \in CapabilityTable, WellFormed(e.table), e.queues \in IpcQueues,
         ~Complete => e.table = NewTable
  PROVE  IInv'
<1> DEFINE T == BoundTask \union {None}
           k == entry_context.task
<1>1. /\ tables' = [tables EXCEPT ![k] = e.table] /\ queues' = e.queues /\ mem' = mem
      /\ tables \in [T -> CapabilityTable]
  BY DEF Commit, IInv
<1>2. k \in T /\ (k = None => e.table = NewTable)
  BY Context, Constants
<1> HIDE DEF k
<1>3. /\ tables' \in [T -> CapabilityTable]
      /\ tables'[k] = e.table
      /\ \A t \in T \ {k} : tables'[t] = tables[t]
  BY <1>1, <1>2
<1>4. \A t \in T : WellFormed(tables'[t])
  BY <1>3 DEF IInv
<1>5. tables'[None] = NewTable
  BY <1>2, <1>3 DEF IInv
<1>6. QED
  BY <1>1, <1>3, <1>4, <1>5 DEF IInv

\* Send and Recv without a complete context.
LEMMA NoContextSend ==
  ASSUME NEW q, NEW x0 \in Nat, NEW msg, NEW x5 \in Nat
  PROVE  LET e == sys_send(EpArena, q, NewTable, x0, msg, x5)
         IN e.table = NewTable /\ e.queues = q /\ e.ret.status # OK_STATUS
<1> DEFINE c == decode_required_cap_handle(x0)
           r == ipc_send(EpArena, q, NewTable, c, msg, decode_cap_handle(x5))
           e == sys_send(EpArena, q, NewTable, x0, msg, x5)
<1>1. r.queues = q /\ r.table = NewTable /\ r.result \notin {"Delivered", "Enqueued"}
  BY NothingResolves, SendRefused
<1>2. r.result \in SendResult
  BY SendResults
<1>3. /\ e.table = r.table /\ e.queues = r.queues
      /\ r.result \notin {"Delivered", "Enqueued"} => e.ret = error(IpcStatus(r.result))
  BY DEF sys_send, Effect
<1> HIDE DEF r, e
<1>4. e.ret.status = IpcStatus(r.result)
  BY <1>1, <1>3 DEF error
<1>5. r.result \notin {"Received", "Pending"}
  BY <1>2 DEF SendResult
<1>6. QED
  BY <1>1, <1>2, <1>3, <1>4, <1>5, ErrorStatus DEF e

LEMMA NoContextRecv ==
  ASSUME NEW q, NEW x0 \in Nat
  PROVE  LET e == sys_recv(EpArena, q, NewTable, x0)
         IN e.table = NewTable /\ e.queues = q /\ e.ret.status # OK_STATUS
<1> DEFINE c == decode_required_cap_handle(x0)
           r == ipc_recv(EpArena, q, NewTable, c)
           e == sys_recv(EpArena, q, NewTable, x0)
<1>1. r.queues = q /\ r.table = NewTable /\ r.result \notin {"Received", "Pending"}
  BY NothingResolves, RecvRefused
<1>2. r.result \in RecvResult
  BY RecvResults
<1>3. /\ e.table = r.table /\ e.queues = r.queues
      /\ r.result \notin {"Received", "Pending"} => e.ret = error(IpcStatus(r.result))
  BY DEF sys_recv, Effect
<1> HIDE DEF r, e
<1>4. e.ret.status = IpcStatus(r.result)
  BY <1>1, <1>3 DEF error
<1>5. r.result \notin {"Delivered", "Enqueued"}
  BY <1>2 DEF RecvResult
<1>6. QED
  BY <1>1, <1>2, <1>3, <1>4, <1>5, ErrorStatus DEF e

\* A console write without a complete context is refused at its first gate.
LEMMA NoContextConsole ==
  ASSUME NEW w, NEW root, NEW m, NEW x0, NEW ptr, NEW len
  PROVE  LET r == sys_console_write(NewTable, w, root, m, x0, ptr, len)
         IN r.out = <<>> /\ r.ret.status # OK_STATUS
<1>1. validate_debug_console_cap(NewTable, decode_required_cap_handle(x0)) = "InvalidHandle"
  BY NothingResolves DEF validate_debug_console_cap
<1>2. console_gate(NewTable, w, root, m, x0, ptr, len) = Cap("InvalidHandle")
  BY <1>1 DEF console_gate
<1>3. Cap("InvalidHandle") # OK_STATUS
  BY ErrorStatus
<1>4. sys_console_write(NewTable, w, root, m, x0, ptr, len) = [ret |-> error(Cap("InvalidHandle")), out |-> <<>>]
  BY <1>2, <1>3 DEF sys_console_write
<1>5. QED
  BY <1>3, <1>4 DEF error

\* In the empty window only the empty copy passes.
LEMMA NoContextCopy ==
  ASSUME NEW root, NEW m, NEW ptr \in Nat, NEW len \in Nat,
         copy_to_user_ok(root, m, EmptyWindow, ptr, len)
  PROVE  len = 0
  BY DEF copy_to_user_ok, validate, EmptyWindow

\* The empty copy changes no memory.
LEMMA EmptyCopy ==
  ASSUME NEW root, NEW m, m = [f \in DOMAIN m |-> [i \in WordIndex |-> m[f][i]]],
         NEW ptr, NEW src, DOMAIN src = {}
  PROVE  copy_to_user(root, m, ptr, src) = m
  BY DEF copy_to_user

\* A copy rewrites words, never the shape of memory.
LEMMA CopyShape ==
  ASSUME NEW root, NEW m, NEW ptr, NEW src
  PROVE  LET u == copy_to_user(root, m, ptr, src)
         IN u = [f \in DOMAIN u |-> [i \in WordIndex |-> u[f][i]]]
<1> DEFINE to == places(root, m, ptr, ptr + Len(src))
           v(f, i) == IF \E n \in DOMAIN src : to[n] = [frame |-> f, at |-> i]
                      THEN src[CHOOSE n \in DOMAIN src : to[n] = [frame |-> f, at |-> i]]
                      ELSE m[f][i]
           u == copy_to_user(root, m, ptr, src)
<1>1. u = [f \in DOMAIN m |-> [i \in WordIndex |-> v(f, i)]]
  BY DEF copy_to_user
<1> HIDE DEF u, v
<1>2. DOMAIN u = DOMAIN m
  BY <1>1
<1>3. \A f \in DOMAIN m : \A i \in WordIndex : u[f][i] = v(f, i)
  BY <1>1
<1>4. QED
  BY <1>1, <1>2, <1>3 DEF u

-----------------------------------------------------------------------------
(* Steps.                                                                  *)

LEMMA InitInv == Init => IInv
<1> SUFFICES ASSUME Init PROVE IInv
  OBVIOUS
<1>1. \A t \in BoundTask : InitTables[t] \in CapabilityTable /\ WellFormed(InitTables[t])
  BY SyscallSpecAssumption DEF BoundTask
<1>2. NewQueues \in IpcQueues
  BY StateTypes, ArenaAssumption DEF NewQueues, IpcQueues, SlotGeneration
<1>3. mem = [f \in DOMAIN mem |-> [i \in WordIndex |-> mem[f][i]]]
  BY SyscallSpecAssumption DEF Init
<1>4. QED
  BY <1>1, <1>2, <1>3, NewTableType, NewTableWellFormed, Constants DEF Init, IInv

LEMMA ContextTable ==
  ASSUME IInv
  PROVE  /\ tables[entry_context.task] \in CapabilityTable
         /\ WellFormed(tables[entry_context.task])
         /\ ~Complete => tables[entry_context.task] = NewTable
  BY Context, Constants DEF IInv

LEMMA NextInv ==
  ASSUME IInv, [Next]_vars
  PROVE  IInv'
<1>1. CASE UNCHANGED <<tables, queues, mem>>
  BY <1>1 DEF IInv
<1>2. ASSUME NEW nr, NEW x0 \in Words, NEW msg \in Message, NEW x5 \in Words, Send(nr, x0, msg, x5)
      PROVE  IInv'
  <2> DEFINE e == sys_send(EpArena, queues, tables[entry_context.task], x0, msg, x5)
  <2>1. x0 \in Nat /\ x5 \in Nat /\ queues \in IpcQueues
    BY Constants DEF IInv
  <2>2. /\ e.table \in CapabilityTable /\ WellFormed(e.table) /\ e.queues \in IpcQueues
        /\ ~Complete => e.table = NewTable
    <3> DEFINE t == tables[entry_context.task]
    <3>1. t \in CapabilityTable /\ WellFormed(t) /\ (~Complete => t = NewTable)
      BY ContextTable
    <3> HIDE DEF t
    <3>2. e.table \in CapabilityTable /\ WellFormed(e.table) /\ e.queues \in IpcQueues
      BY <2>1, <3>1, SysSend DEF t
    <3>3. ~Complete => e = sys_send(EpArena, queues, NewTable, x0, msg, x5)
      BY <3>1 DEF t
    <3>4. sys_send(EpArena, queues, NewTable, x0, msg, x5).table = NewTable
      BY <2>1, NoContextSend
    <3>5. QED
      BY <3>2, <3>3, <3>4
  <2>3. Commit(e, Args(nr, x0, 0, 0, x5))
    BY <1>2 DEF Send
  <2> HIDE DEF e
  <2>4. QED
    BY <2>2, <2>3, CommitInv
<1>3. ASSUME NEW nr, NEW x0 \in Words, Recv(nr, x0)
      PROVE  IInv'
  <2> DEFINE e == sys_recv(EpArena, queues, tables[entry_context.task], x0)
  <2>1. x0 \in Nat /\ queues \in IpcQueues
    BY Constants DEF IInv
  <2>2. /\ e.table \in CapabilityTable /\ WellFormed(e.table) /\ e.queues \in IpcQueues
        /\ ~Complete => e.table = NewTable
    <3> DEFINE t == tables[entry_context.task]
    <3>1. t \in CapabilityTable /\ WellFormed(t) /\ (~Complete => t = NewTable)
      BY ContextTable
    <3> HIDE DEF t
    <3>2. e.table \in CapabilityTable /\ WellFormed(e.table) /\ e.queues \in IpcQueues
      BY <2>1, <3>1, SysRecv DEF t
    <3>3. ~Complete => e = sys_recv(EpArena, queues, NewTable, x0)
      BY <3>1 DEF t
    <3>4. sys_recv(EpArena, queues, NewTable, x0).table = NewTable
      BY <2>1, NoContextRecv
    <3>5. QED
      BY <3>2, <3>3, <3>4
  <2>3. Commit(e, Args(nr, x0, 0, 0, 0))
    BY <1>3 DEF Recv
  <2> HIDE DEF e
  <2>4. QED
    BY <2>2, <2>3, CommitInv
<1>4. ASSUME NEW ptr, NEW len, CopyToUser(ptr, len)
      PROVE  IInv'
  <2>1. /\ UNCHANGED <<tables, queues>>
        /\ mem' = mem \/ \E src : mem' = copy_to_user(entry_context.root, mem, ptr, src)
    BY <1>4 DEF CopyToUser
  <2>2. mem' = [f \in DOMAIN mem' |-> [i \in WordIndex |-> mem'[f][i]]]
    BY <2>1, CopyShape DEF IInv
  <2>3. QED
    BY <2>1, <2>2 DEF IInv
<1>5. \/ UNCHANGED <<tables, queues, mem>>
      \/ \E nr \in Numbers, x0 \in Words :
           Recv(nr, x0) \/ \E msg \in Message, x5 \in Words : Send(nr, x0, msg, x5)
      \/ \E ptr \in Ptrs, len \in Lens : CopyToUser(ptr, len)
  BY DEF Next, vars, BadNumber, ConsoleWrite, TaskYield, TaskExit, Return, Dispatch,
     DestroyAddressSpace, CreateAddressSpace
<1>6. QED
  BY <1>1, <1>2, <1>3, <1>4, <1>5

\* The effect of a send or a recv without a complete context.
LEMMA CommitNothing ==
  ASSUME IInv, ~Complete, NEW e, NEW args, Commit(e, args),
         e.table = NewTable, e.queues = queues, e.ret.status # OK_STATUS
  PROVE  /\ UNCHANGED <<tables, queues, exited, mem, current>>
         /\ last'.out = <<>> /\ last'.ret.status # OK_STATUS
<1>1. tables[None] = NewTable /\ tables \in [BoundTask \union {None} -> CapabilityTable]
  BY DEF IInv
<1>2. tables' = [tables EXCEPT ![None] = NewTable]
  <2>1. entry_context.task = None
    BY Context
  <2>2. tables' = [tables EXCEPT ![entry_context.task] = e.table]
    BY DEF Commit
  <2>3. QED
    BY <2>1, <2>2
<1>3. tables' = tables
  BY <1>1, <1>2
<1>4. QED
  BY <1>3 DEF Commit, Resumed

\* What a step does without a complete context.
LEMMA ClosedStep ==
  ASSUME IInv, [Next]_vars, ~Complete
  PROVE  /\ UNCHANGED <<tables, queues, exited>>
         /\ Called => /\ last'.out = <<>>
                      /\ last'.ret.status = OK_STATUS => last'.args.nr = None /\ last'.args.len = 0
                      /\ UNCHANGED <<mem, current>>
<1> DEFINE Closed == /\ UNCHANGED <<tables, queues, exited>>
                     /\ Called => /\ last'.out = <<>>
                                  /\ last'.ret.status = OK_STATUS => last'.args.nr = None /\ last'.args.len = 0
                                  /\ UNCHANGED <<mem, current>>
<1>1. CASE Return \/ Dispatch \/ (\E t \in Revocable : DestroyAddressSpace(TaskAs[t])) \/ CreateAddressSpace
           \/ UNCHANGED vars
  BY <1>1 DEF Return, Dispatch, DestroyAddressSpace, CreateAddressSpace, vars, Called
<1>2. ASSUME NEW nr, BadNumber(nr) \/ TaskYield(nr) \/ TaskExit(nr)
      PROVE  Closed
  <2>1. ~has_current_task
    BY Context
  <2>2. /\ UNCHANGED <<tables, queues, exited, mem, current>>
        /\ \E s \in {BadSyscallNumber, Cap("InvalidHandle")} :
             last' = [args |-> Args(nr, 0, 0, 0, 0), ret |-> error(s), out |-> <<>>]
    BY <1>2, <2>1 DEF BadNumber, TaskYield, TaskExit, Resumed
  <2>3. last'.out = <<>> /\ last'.ret.status # OK_STATUS
    BY <2>2, ErrorStatus DEF error
  <2>4. QED
    BY <2>2, <2>3
<1>3. ASSUME NEW nr, NEW x0 \in Words, NEW msg \in Message, NEW x5 \in Words, Send(nr, x0, msg, x5)
      PROVE  Closed
  <2> DEFINE e == sys_send(EpArena, queues, NewTable, x0, msg, x5)
  <2>1. e.table = NewTable /\ e.queues = queues /\ e.ret.status # OK_STATUS
    BY NoContextSend, Constants
  <2>2. Commit(e, Args(nr, x0, 0, 0, x5))
    BY <1>3, ContextTable DEF Send
  <2> HIDE DEF e
  <2>3. QED
    BY <2>1, <2>2, CommitNothing
<1>4. ASSUME NEW nr, NEW x0 \in Words, Recv(nr, x0)
      PROVE  Closed
  <2> DEFINE e == sys_recv(EpArena, queues, NewTable, x0)
  <2>1. e.table = NewTable /\ e.queues = queues /\ e.ret.status # OK_STATUS
    BY NoContextRecv, Constants
  <2>2. Commit(e, Args(nr, x0, 0, 0, 0))
    BY <1>4, ContextTable DEF Recv
  <2> HIDE DEF e
  <2>3. QED
    BY <2>1, <2>2, CommitNothing
<1>5. ASSUME NEW nr, NEW x0, NEW ptr, NEW len, ConsoleWrite(nr, x0, ptr, len)
      PROVE  Closed
  <2> DEFINE r == sys_console_write(NewTable, EmptyWindow, BootRoot, mem, x0, ptr, len)
  <2>1. r.out = <<>> /\ r.ret.status # OK_STATUS
    BY NoContextConsole
  <2>2. tables[None] = NewTable /\ entry_context = [task |-> None, window |-> EmptyWindow, root |-> BootRoot]
    BY Context DEF IInv
  <2>3. last' = [args |-> Args(nr, x0, ptr, len, 0), ret |-> r.ret, out |-> r.out]
    BY <1>5, <2>2 DEF ConsoleWrite, Resumed
  <2> HIDE DEF r
  <2>4. UNCHANGED <<tables, queues, exited, mem, current>>
    BY <1>5 DEF ConsoleWrite
  <2>5. QED
    BY <2>1, <2>3, <2>4
<1>6. ASSUME NEW ptr \in Ptrs, NEW len \in Lens, CopyToUser(ptr, len)
      PROVE  Closed
  <2> DEFINE src == [n \in 1 .. len |-> Data(<<None, n>>)]
             good == copy_to_user_ok(BootRoot, mem, EmptyWindow, ptr, len)
  <2>1. ptr \in Nat /\ len \in Nat
    BY UsizeAssumption, SyscallSpecAssumption
  <2>2. entry_context.window = EmptyWindow /\ entry_context.root = BootRoot
    BY Context
  <2>3. /\ mem' = IF good THEN copy_to_user(BootRoot, mem, ptr, src) ELSE mem
        /\ last' = [args |-> Args(None, 0, ptr, len, 0), ret |-> IF good THEN ok(0) ELSE error(FaultAddress),
                    out |-> <<>>]
        /\ UNCHANGED <<tables, queues, exited, current>>
    BY <1>6, <2>2 DEF CopyToUser, Resumed
  <2>4. good => len = 0
    BY <2>1, NoContextCopy
  <2>5. good => mem' = mem
    <3> SUFFICES ASSUME good PROVE mem' = mem
      OBVIOUS
    <3>1. DOMAIN src = {}
      BY <2>4
    <3> HIDE DEF src
    <3>2. copy_to_user(BootRoot, mem, ptr, src) = mem
      BY <3>1, EmptyCopy DEF IInv
    <3>3. QED
      BY <2>3, <3>2
  <2> HIDE DEF good, src
  <2>6. last'.args.nr = None /\ last'.args.len = len /\ last'.out = <<>>
    BY <2>3 DEF Args
  <2>7. ~good => last'.ret.status # OK_STATUS
    BY <2>3, ErrorStatus DEF error
  <2>8. QED
    BY <2>3, <2>4, <2>5, <2>6, <2>7
<1>7. QED
  BY <1>1, <1>2, <1>3, <1>4, <1>5, <1>6 DEF Next

\* Only 1 and 2 decode to the IPC calls.
LEMMA Decode ==
  ASSUME NEW nr
  PROVE  /\ decode(nr) = "Send" => nr = 1
         /\ decode(nr) = "Recv" => nr = 2
<1>1. decode(nr) = None \/ nr \in 1 .. 5
  BY DEF decode
<1>2. None \notin {"Send", "Recv"}
  BY SyscallAssumption
<1>3. QED
  BY <1>1, <1>2 DEF decode

\* What a successful step with number 1 or 2 in x8 does.
LEMMA WordsStep ==
  ASSUME IInv, [Next]_vars, Called, last'.ret.status = OK_STATUS
  PROVE  /\ last'.args.nr = 1 => SentWordNamesCap
         /\ last'.args.nr = 2 /\ last'.ret.x1 = 0 => ReceivedWordNamesCap
<1>1. last'.args.nr \in {1, 2} => Complete
  BY ClosedStep, Constants
<1>2. CASE \E nr \in Numbers, x0 \in Words, msg \in Message, x5 \in Words : Send(nr, x0, msg, x5)
  <2>1. PICK nr \in Numbers, x0 \in Words, msg \in Message, x5 \in Words : Send(nr, x0, msg, x5)
    BY <1>2
  <2> DEFINE t == tables[current]
             e == sys_send(EpArena, queues, t, x0, msg, x5)
             h == decode_required_cap_handle(x5)
  <2>2. nr = 1
    <3>1. decode(nr) = "Send"
      BY <2>1 DEF Send
    <3>2. QED
      BY <3>1, Decode
  <2>3. last'.args = Args(nr, x0, 0, 0, x5) /\ last'.ret = sys_send(EpArena, queues, tables[entry_context.task], x0, msg, x5).ret
    BY <2>1 DEF Send, Commit, Resumed
  <2>4. Complete /\ last'.args.nr = 1 /\ last'.args.x0 = x0 /\ last'.args.x5 = x5
    BY <1>1, <2>2, <2>3 DEF Args
  <2>5. entry_context.task = current /\ current \in BoundTask
    BY <2>4, Context
  <2>6. /\ tables'[current] = e.table /\ queues' = e.queues /\ e.ret.status = OK_STATUS
        /\ t \in CapabilityTable /\ WellFormed(t) /\ queues \in IpcQueues /\ x0 \in Nat /\ x5 \in Nat
    BY <2>1, <2>3, <2>5, Constants DEF Send, Commit, IInv
  <2>7. LET s == peek_state(e.queues, EndpointOf(t, x0))
        IN IF x5 = NULL_CAP_HANDLE
           THEN s.cap = None /\ e.table = t
           ELSE resolves(t, h) /\ s.cap = lookup(t, h) /\ ~resolves(e.table, h)
    BY <2>6, SysSend
  <2> HIDE DEF e
  <2>8. SentWordNamesCap
    BY <2>4, <2>6, <2>7 DEF SentWordNamesCap, NULL_CAP_HANDLE, decode_required_cap_handle
  <2>9. QED
    BY <2>4, <2>8
<1>3. CASE \E nr \in Numbers, x0 \in Words : Recv(nr, x0)
  <2>1. PICK nr \in Numbers, x0 \in Words : Recv(nr, x0)
    BY <1>3
  <2> DEFINE t == tables[current]
             e == sys_recv(EpArena, queues, t, x0)
  <2>2. nr = 2
    <3>1. decode(nr) = "Recv"
      BY <2>1 DEF Recv
    <3>2. QED
      BY <3>1, Decode
  <2>3. last'.args = Args(nr, x0, 0, 0, 0) /\ last'.ret = sys_recv(EpArena, queues, tables[entry_context.task], x0).ret
    BY <2>1 DEF Recv, Commit, Resumed
  <2>4. Complete /\ last'.args.nr = 2 /\ last'.args.x0 = x0
    BY <1>1, <2>2, <2>3 DEF Args
  <2>5. entry_context.task = current /\ current \in BoundTask
    BY <2>4, Context
  <2>6. /\ tables'[current] = e.table /\ e.ret = last'.ret
        /\ t \in CapabilityTable /\ WellFormed(t) /\ queues \in IpcQueues /\ x0 \in Nat
    BY <2>1, <2>3, <2>5, Constants DEF Recv, Commit, IInv
  <2>7. last'.ret.x1 = 0 =>
          LET s == peek_state(queues, EndpointOf(t, x0))
              h == decode_cap_handle(e.ret.x6)
          IN /\ e.ret.msg = s.msg
             /\ IF s.cap = None THEN h = None
                ELSE h # None /\ resolves(e.table, h) /\ lookup(e.table, h) = s.cap
    BY <2>6, SysRecv
  <2> HIDE DEF e
  <2>8. last'.ret.x1 = 0 => ReceivedWordNamesCap
    BY <2>4, <2>6, <2>7 DEF ReceivedWordNamesCap
  <2>9. QED
    BY <2>4, <2>8
<1>4. ASSUME ~(\E nr \in Numbers, x0 \in Words, msg \in Message, x5 \in Words : Send(nr, x0, msg, x5)),
             ~(\E nr \in Numbers, x0 \in Words : Recv(nr, x0))
      PROVE  last'.args.nr \notin {1, 2}
  <2>1. \/ \E nr \in Numbers : BadNumber(nr) \/ TaskYield(nr) \/ TaskExit(nr)
        \/ \E nr \in Numbers, x0 \in Words, ptr \in Ptrs, len \in Lens : ConsoleWrite(nr, x0, ptr, len)
        \/ \E ptr \in Ptrs, len \in Lens : CopyToUser(ptr, len)
    BY <1>4 DEF Next, vars, Called, Return, Dispatch, DestroyAddressSpace, CreateAddressSpace
  <2>2. ASSUME NEW nr \in Numbers, BadNumber(nr) PROVE last'.args.nr \notin {1, 2}
    BY <2>2, ErrorStatus DEF BadNumber, Resumed, error
  <2>3. ASSUME NEW nr \in Numbers, TaskYield(nr) \/ TaskExit(nr) PROVE last'.args.nr \notin {1, 2}
    <3>1. nr \notin {1, 2}
      BY <2>3 DEF TaskYield, TaskExit, decode
    <3>2. last'.args.nr = nr
      BY <2>3 DEF TaskYield, TaskExit, Resumed, Args, Called
    <3>3. QED
      BY <3>1, <3>2
  <2>4. ASSUME NEW nr \in Numbers, NEW x0 \in Words, NEW ptr \in Ptrs, NEW len \in Lens, ConsoleWrite(nr, x0, ptr, len)
        PROVE  last'.args.nr \notin {1, 2}
    <3>1. nr \notin {1, 2}
      BY <2>4 DEF ConsoleWrite, decode
    <3>2. last'.args.nr = nr
      BY <2>4 DEF ConsoleWrite, Resumed, Args
    <3>3. QED
      BY <3>1, <3>2
  <2>5. ASSUME NEW ptr \in Ptrs, NEW len \in Lens, CopyToUser(ptr, len)
        PROVE  last'.args.nr \notin {1, 2}
    BY <2>5, Constants DEF CopyToUser, Resumed, Args
  <2>6. QED
    BY <2>1, <2>2, <2>3, <2>4, <2>5
<1>5. QED
  BY <1>2, <1>3, <1>4

-----------------------------------------------------------------------------
(* Contexts and handle words.                                              *)

\* The tables stay well formed and FAILCLOSED_TABLE stays empty, whatever words
\* tasks pass.
THEOREM SyscallInvariant == Spec => []IInv
  BY InitInv, NextInv, PTL DEF Spec

\* syscall_entry's all-or-nothing context: a task without a table, or whose
\* address space is gone, can make no call succeed and none has an effect.
THEOREM FailClosedCorrect == Spec => FailClosed
<1>1. ASSUME IInv, [Next]_vars
      PROVE  ~Complete => /\ UNCHANGED <<tables, queues, exited>>
                          /\ Called => /\ last'.out = <<>>
                                       /\ last'.ret.status = OK_STATUS =>
                                            last'.args.nr = None /\ last'.args.len = 0
                                       /\ UNCHANGED <<mem, current>>
  BY <1>1, ClosedStep
<1>2. QED
  BY <1>1, SyscallInvariant, PTL DEF Spec, FailClosed

\* encode_cap_handle, decode_cap_handle and decode_required_cap_handle: the words
\* of send and recv name exactly the capability that moves, for every capacity,
\* generation width and word.
THEOREM TransferWordsCorrect == Spec => TransferWordsExact
<1>1. ASSUME IInv, [Next]_vars
      PROVE  (Called /\ last'.ret.status = OK_STATUS) =>
               /\ last'.args.nr = 1 => SentWordNamesCap
               /\ last'.args.nr = 2 /\ last'.ret.x1 = 0 => ReceivedWordNamesCap
  BY <1>1, WordsStep
<1>2. QED
  BY <1>1, SyscallInvariant, PTL DEF Spec, TransferWordsExact

-----------------------------------------------------------------------------
(* Pages of a user range.                                                  *)

LEMMA PageSizes == PageSize \in Nat /\ PageSize > 0 /\ UsizeMax \in Nat /\ None \notin Nat
  BY PmmAssumption, UsizeAssumption

LEMMA PageOf ==
  ASSUME NEW va \in Nat
  PROVE  /\ va \div PageSize \in Nat /\ va % PageSize \in 0 .. (PageSize - 1)
         /\ page_of(va) = PageSize * (va \div PageSize)
         /\ va = page_of(va) + (va % PageSize)
         /\ page_of(va) \in Nat
<1> DEFINE q == va \div PageSize
           r == va % PageSize
<1>1. q \in Nat /\ r \in 0 .. (PageSize - 1) /\ va = PageSize * q + r
  BY PageSizes, DivMod
<1>2. PageSize * q \in Nat
  BY <1>1, PageSizes
<1>3. page_of(va) = va - r
  BY DEF page_of
<1> HIDE DEF q, r
<1>4. QED
  BY <1>1, <1>2, <1>3, PageSizes DEF q, r

\* Every address of the page of va has the page of va.
LEMMA SamePage ==
  ASSUME NEW va \in Nat, NEW i \in Nat, (va % PageSize) + i < PageSize
  PROVE  page_of(va + i) = page_of(va) /\ (va + i) % PageSize = (va % PageSize) + i
<1> DEFINE q == va \div PageSize
           r == va % PageSize
<1>1. q \in Nat /\ r \in 0 .. (PageSize - 1) /\ page_of(va) = PageSize * q /\ va = page_of(va) + r
  BY PageOf
<1>2. r + i \in 0 .. (PageSize - 1)
  BY <1>1, PageSizes
<1>3. (PageSize * q + (r + i)) \div PageSize = q /\ (PageSize * q + (r + i)) % PageSize = r + i
  BY <1>1, <1>2, PageSizes, DivUnique
<1>4. PageSize * q \in Nat
  BY <1>1, PageSizes
<1>5. va + i = PageSize * q + (r + i) /\ va + i \in Nat
  BY <1>1, <1>4
<1>6. page_of(va + i) = PageSize * ((va + i) \div PageSize)
  BY <1>5, PageOf
<1>7. QED
  BY <1>1, <1>3, <1>5, <1>6

\* What probe_user_pages should find from each cursor on: the pages it steps
\* over, up to the end of the range, have the permissions.
Probed(root, m, end, require_write) ==
  [page \in 0 .. UsizeMax |->
     \A k \in Nat : page + PageSize * k < end => page_ok(root, m, page + PageSize * k, require_write)]

\* The cursor of the probe saturates at the top of usize, which is past the end
\* of any range that did not overflow, so the loop checks exactly those pages.
LEMMA ProbeExact ==
  ASSUME NEW root, NEW m, NEW ptr \in Nat, NEW len \in Nat, NEW require_write,
         ptr + len <= UsizeMax
  PROVE  probe_user_pages(root, m, ptr, len, require_write)
           <=> Probed(root, m, ptr + len, require_write)[page_of(ptr)]
<1> DEFINE n == UsizeMax
           end == checked_add(ptr, len)
           good(page) == page_ok(root, m, page, require_write)
           next(page) == saturating_add(page, PageSize)
           Loops(f) == f = [page \in 0 .. n |-> IF page >= end THEN TRUE ELSE good(page) /\ f[next(page)]]
           found == [page \in 0 .. n |-> \A k \in Nat : page + PageSize * k < end => good(page + PageSize * k)]
<1>1. n \in Nat /\ end \in Nat /\ end <= n /\ end = ptr + len
  BY PageSizes DEF checked_add
<1>2. probe_user_pages(root, m, ptr, len, require_write) <=> (CHOOSE f : Loops(f))[page_of(ptr)]
  <2>1. probe_user_pages(root, m, ptr, len, require_write)
          <=> end # None /\ (CHOOSE f : Loops(f))[page_of(ptr)]
    BY Zenon DEF probe_user_pages
  <2>2. end # None
    BY <1>1, PageSizes
  <2>3. QED
    BY <2>1, <2>2, Zenon
<1>3. \A c \in 0 .. n : /\ next(c) \in 0 .. n
                        /\ c < n => c < next(c)
                        /\ c + PageSize <= n => next(c) = c + PageSize
                        /\ ~(c + PageSize <= n) => next(c) = n
  BY <1>1, PageSizes DEF saturating_add, saturated
<1> HIDE DEF n, good, next, end
<1>4. ASSUME NEW c \in 0 .. n
      PROVE  found[c] = IF c >= end THEN TRUE ELSE good(c) /\ found[next(c)]
  <2>1. /\ found[c] = \A k \in Nat : c + PageSize * k < end => good(c + PageSize * k)
        /\ found[next(c)] = \A k \in Nat : next(c) + PageSize * k < end => good(next(c) + PageSize * k)
    BY <1>3
  <2>2. \A k \in Nat : PageSize * k \in Nat /\ PageSize * (k + 1) = PageSize + PageSize * k
    BY PageSizes
  <2>3. c + PageSize * 0 = c
    BY <1>1, PageSizes
  <2>4. ASSUME c >= end PROVE found[c]
    <3>1. \A k \in Nat : ~(c + PageSize * k < end)
      BY <1>1, <2>2, <2>4
    <3>2. QED
      BY <2>1, <3>1, Zenon
  <2>5. ASSUME ~(c >= end), found[c] PROVE good(c) /\ found[next(c)]
    <3>1. good(c)
      BY <1>1, <2>1, <2>3, <2>5
    <3>2. ASSUME NEW k \in Nat, next(c) + PageSize * k < end PROVE good(next(c) + PageSize * k)
      <4>1. next(c) = c + PageSize
        BY <1>1, <1>3, <2>2, <3>2
      <4>2. next(c) + PageSize * k = c + PageSize * (k + 1)
        BY <1>1, <2>2, <4>1, PageSizes
      <4>3. k + 1 \in Nat
        OBVIOUS
      <4>4. QED
        BY <2>1, <2>5, <3>2, <4>2, <4>3
    <3>3. QED
      BY <2>1, <3>1, <3>2
  <2>6. ASSUME ~(c >= end), good(c), found[next(c)] PROVE found[c]
    <3>1. ASSUME NEW k \in Nat, c + PageSize * k < end PROVE good(c + PageSize * k)
      <4>1. CASE k = 0
        BY <2>3, <2>6, <4>1
      <4>2. CASE k # 0
        <5>1. k - 1 \in Nat /\ (k - 1) + 1 = k
          BY <4>2
        <5>2. PageSize * k = PageSize + PageSize * (k - 1) /\ PageSize * (k - 1) \in Nat
          BY <2>2, <5>1
        <5>3. next(c) = c + PageSize
          BY <1>1, <1>3, <3>1, <5>2, PageSizes
        <5>4. c + PageSize * k = next(c) + PageSize * (k - 1)
          BY <1>1, <5>2, <5>3, PageSizes
        <5>5. QED
          BY <2>1, <2>6, <3>1, <5>1, <5>4
      <4>3. QED
        BY <4>1, <4>2
    <3>2. QED
      BY <2>1, <3>1
  <2>7. found[c] \in BOOLEAN /\ (good(c) /\ found[next(c)]) \in BOOLEAN
    BY <2>1
  <2>8. QED
    BY <2>4, <2>5, <2>6, <2>7
<1>5. found = [page \in 0 .. n |-> found[page]]
  OBVIOUS
<1> HIDE DEF found
<1>6. Loops(found)
  BY <1>4, <1>5
<1>7. ASSUME NEW f, Loops(f)
      PROVE  f = found
  <2> DEFINE Bad == {d \in 0 .. n : f[n - d] # found[n - d]}
  <2>1. \A c \in 0 .. n : f[c] = IF c >= end THEN TRUE ELSE good(c) /\ f[next(c)]
    BY <1>7
  <2>2. Bad = {}
    <3>1. SUFFICES ASSUME Bad # {} PROVE FALSE
      OBVIOUS
    <3>2. Bad \in SUBSET Nat
      BY <1>1
    <3>3. PICK d \in Bad : \A k \in Bad : d <= k
      BY <3>1, <3>2, LeastNatural
    <3> DEFINE c == n - d
    <3>4. c \in 0 .. n /\ f[c] # found[c]
      BY <1>1, <3>3
    <3>5. ~(c >= end)
      BY <1>4, <2>1, <3>4
    <3>6. next(c) \in 0 .. n /\ c < next(c)
      BY <1>1, <1>3, <3>4, <3>5
    <3>7. n - next(c) \in 0 .. n /\ n - next(c) < d /\ n - (n - next(c)) = next(c)
      BY <1>1, <3>3, <3>6
    <3>8. n - next(c) \notin Bad
      BY <1>1, <3>3, <3>7
    <3>9. f[next(c)] = found[next(c)]
      BY <3>7, <3>8
    <3>10. QED
      BY <1>4, <2>1, <3>4, <3>5, <3>9
  <2>3. ASSUME NEW c \in 0 .. n
        PROVE  f[c] = found[c]
    <3>1. n - c \in 0 .. n /\ n - (n - c) = c
      BY <1>1, <2>3
    <3>2. n - c \notin Bad
      BY <2>2
    <3>3. QED
      BY <3>1, <3>2
  <2>4. f = [c \in 0 .. n |-> f[c]]
    BY <1>7
  <2>5. QED
    BY <1>5, <2>3, <2>4
<1> HIDE DEF Loops
<1>8. (CHOOSE f : Loops(f)) = found
  BY <1>6, <1>7
<1>9. found = Probed(root, m, end, require_write)
  BY DEF found, n, good, Probed
<1>10. QED
  BY <1>1, <1>2, <1>8, <1>9

\* The probe passes exactly if every address of the range lies on a page with
\* the permissions.
LEMMA ProbeRange ==
  ASSUME NEW root, NEW m, NEW ptr \in Nat, NEW len \in Nat, NEW require_write,
         len > 0, ptr + len <= UsizeMax
  PROVE  probe_user_pages(root, m, ptr, len, require_write)
           <=> \A va \in ptr .. (ptr + len - 1) : page_ok(root, m, page_of(va), require_write)
<1> DEFINE end == ptr + len
           good(page) == page_ok(root, m, page, require_write)
           q == ptr \div PageSize
           r == ptr % PageSize
<1>1. end \in Nat /\ ptr < end /\ end <= UsizeMax
  BY PageSizes
<1>2. /\ q \in Nat /\ r \in 0 .. (PageSize - 1) /\ page_of(ptr) = PageSize * q
      /\ ptr = page_of(ptr) + r /\ page_of(ptr) \in Nat
  BY PageOf
<1>3. page_of(ptr) \in 0 .. UsizeMax
  BY <1>1, <1>2, PageSizes
<1> HIDE DEF good, q, r
<1>4. probe_user_pages(root, m, ptr, len, require_write)
        <=> \A k \in Nat : page_of(ptr) + PageSize * k < end => good(page_of(ptr) + PageSize * k)
  BY <1>1, <1>3, ProbeExact DEF Probed, good
<1>5. ASSUME \A k \in Nat : page_of(ptr) + PageSize * k < end => good(page_of(ptr) + PageSize * k),
             NEW va \in ptr .. (end - 1)
      PROVE  good(page_of(va))
  <2> DEFINE p == va \div PageSize
             s == va % PageSize
  <2>1. va \in Nat /\ ptr <= va /\ va < end
    BY <1>1, <1>5
  <2>2. p \in Nat /\ s \in 0 .. (PageSize - 1) /\ page_of(va) = PageSize * p /\ va = page_of(va) + s
    BY <2>1, PageOf
  <2> HIDE DEF p, s
  <2>3. p >= q
    <3>1. SUFFICES ASSUME p < q PROVE FALSE
      BY <1>2, <2>2
    <3>2. PICK j \in Nat : q = p + 1 + j
      BY <1>2, <2>2, <3>1
    <3>3. PageSize * q = PageSize * p + PageSize + PageSize * j /\ PageSize * j \in Nat /\ PageSize * p \in Nat
      BY <1>2, <2>2, <3>2, PageSizes
    <3>4. QED
      BY <1>2, <2>1, <2>2, <3>3, PageSizes
  <2>4. PICK k \in Nat : p = q + k
    BY <1>2, <2>2, <2>3
  <2>5. PageSize * p = PageSize * q + PageSize * k
    BY <1>2, <2>2, <2>4, PageSizes
  <2>6. page_of(va) = page_of(ptr) + PageSize * k /\ page_of(va) < end
    BY <1>1, <1>2, <2>1, <2>2, <2>5, PageSizes
  <2>7. QED
    BY <1>5, <2>6
<1>6. ASSUME \A va \in ptr .. (end - 1) : good(page_of(va)),
             NEW k \in Nat, page_of(ptr) + PageSize * k < end
      PROVE  good(page_of(ptr) + PageSize * k)
  <2>1. CASE k = 0
    <3>1. page_of(ptr) + PageSize * k = page_of(ptr)
      BY <1>2, <2>1, PageSizes
    <3>2. ptr \in ptr .. (end - 1)
      BY <1>1
    <3>3. QED
      BY <1>6, <3>1, <3>2
  <2>2. CASE k # 0
    <3> DEFINE va == page_of(ptr) + PageSize * k
    <3>1. PICK j \in Nat : k = j + 1
      BY <2>2
    <3>2. PageSize * k = PageSize + PageSize * j /\ PageSize * j \in Nat
      BY <3>1, PageSizes
    <3>3. va \in ptr .. (end - 1) /\ va \in Nat
      BY <1>1, <1>2, <1>6, <3>2, PageSizes
    <3>4. q + k \in Nat /\ PageSize * (q + k) = PageSize * q + PageSize * k
      BY <1>2, PageSizes
    <3>5. (PageSize * (q + k) + 0) \div PageSize = q + k
      BY <3>4, PageSizes, DivUnique
    <3>6. va = PageSize * (q + k) /\ PageSize * (q + k) + 0 = PageSize * (q + k)
      BY <1>2, <3>2, <3>3, <3>4, PageSizes
    <3>7. page_of(va) = PageSize * (va \div PageSize)
      BY <3>3, PageOf
    <3>8. page_of(va) = va
      BY <3>5, <3>6, <3>7
    <3>9. QED
      BY <1>6, <3>3, <3>8
  <2>3. QED
    BY <2>1, <2>2
<1>7. QED
  BY <1>4, <1>5, <1>6 DEF good, end

-----------------------------------------------------------------------------
(* The runs of a copy.                                                     *)

\* The place of one address: the frame its page is mapped to, and the offset.
Place(root, m, va) ==
  [frame |-> translate(root, m, page_of(va)).frame, at |-> va % PageSize]

LEMMA Finite ==
  ASSUME NEW S, NEW n \in Nat, NEW s \in [1 .. n -> S]
  PROVE  s \in Seq(S) /\ Len(s) = n
<1>1. s \in Seq(S)
  BY SMT
<1>2. DOMAIN s = 1 .. Len(s) /\ Len(s) \in Nat
  BY <1>1
<1>3. QED
  BY <1>1, <1>2

\* Two functions on initial segments make up the one they are parts of.
LEMMA Joined ==
  ASSUME NEW a \in Nat, NEW b \in Nat, NEW c, c = [n \in 1 .. (a + b) |-> c[n]],
         NEW s, s = [n \in 1 .. a |-> c[n]], NEW t, t = [n \in 1 .. b |-> c[a + n]]
  PROVE  s \o t = c
<1> DEFINE S == {c[n] : n \in 1 .. (a + b)}
<1>1. \A n \in 1 .. (a + b) : c[n] \in S
  OBVIOUS
<1>2. \A n \in 1 .. b : a + n \in 1 .. (a + b)
  OBVIOUS
<1>3. \A n \in 1 .. a : n \in 1 .. (a + b)
  OBVIOUS
<1> HIDE DEF S
<1>4. s \in Seq(S) /\ t \in Seq(S) /\ Len(s) = a /\ Len(t) = b
  <2>1. s \in [1 .. a -> S] /\ t \in [1 .. b -> S]
    BY <1>1, <1>2, <1>3
  <2>2. QED
    BY <2>1, Finite
<1>5. s \o t \in Seq(S) /\ Len(s \o t) = a + b
  BY <1>4
<1>6. \A n \in 1 .. (a + b) : (s \o t)[n] = c[n]
  BY <1>4, <1>5
<1>7. s \o t = [n \in 1 .. (a + b) |-> (s \o t)[n]]
  BY <1>5
<1>8. QED
  BY <1>6, <1>7

\* The first run: as far as its page, or the range, goes.
LEMMA FirstRun ==
  ASSUME NEW cur \in Nat, NEW end \in Nat, cur < end
  PROVE  /\ run_length(cur, end) \in 1 .. (end - cur)
         /\ \A i \in 1 .. run_length(cur, end) :
              /\ page_of(cur + i - 1) = page_of(cur)
              /\ (cur + i - 1) % PageSize = (cur % PageSize) + i - 1
<1> DEFINE r == cur % PageSize
           run == run_length(cur, end)
<1>1. r \in 0 .. (PageSize - 1)
  BY PageOf
<1> HIDE DEF r
<1>2. run \in 1 .. (end - cur) /\ r + run <= PageSize
  BY <1>1, PageSizes DEF run_length, r
<1> HIDE DEF run
<1>3. ASSUME NEW i \in 1 .. run
      PROVE  page_of(cur + i - 1) = page_of(cur) /\ (cur + i - 1) % PageSize = r + i - 1
  <2>1. i - 1 \in Nat /\ r + (i - 1) < PageSize /\ cur + (i - 1) = cur + i - 1 /\ r + (i - 1) = r + i - 1
    BY <1>1, <1>2, PageSizes
  <2>2. page_of(cur + (i - 1)) = page_of(cur) /\ (cur + (i - 1)) % PageSize = r + (i - 1)
    BY <2>1, SamePage DEF r
  <2>3. QED
    BY <2>1, <2>2
<1>4. QED
  BY <1>2, <1>3 DEF r, run

\* The runs of [ptr, end), put together, visit the places of its addresses, one
\* by one and in order.
LEMMA PlacesExact ==
  ASSUME NEW root, NEW m, NEW end \in Nat, NEW ptr \in 0 .. end
  PROVE  places(root, m, ptr, end) = [n \in 1 .. (end - ptr) |-> Place(root, m, ptr + n - 1)]
<1> DEFINE fr(cur) == translate(root, m, page_of(cur)).frame
           run(cur) == run_length(cur, end)
           first(cur) == [i \in 1 .. run(cur) |-> [frame |-> fr(cur), at |-> (cur % PageSize) + i - 1]]
           Loops(f) == f = [cur \in 0 .. end |-> IF cur >= end THEN <<>> ELSE first(cur) \o f[cur + run(cur)]]
           found == [cur \in 0 .. end |-> [n \in 1 .. (end - cur) |-> Place(root, m, cur + n - 1)]]
<1>1. places(root, m, ptr, end) = (CHOOSE f : Loops(f))[ptr]
  BY Zenon DEF places
<1>2. \A c \in 0 .. end : c < end =>
        /\ run(c) \in 1 .. (end - c)
        /\ \A i \in 1 .. run(c) : /\ page_of(c + i - 1) = page_of(c)
                                  /\ (c + i - 1) % PageSize = (c % PageSize) + i - 1
  BY FirstRun
<1> HIDE DEF run
<1>3. ASSUME NEW c \in 0 .. end
      PROVE  found[c] = IF c >= end THEN <<>> ELSE first(c) \o found[c + run(c)]
  <2>1. found[c] = [n \in 1 .. (end - c) |-> Place(root, m, c + n - 1)]
    OBVIOUS
  <2>2. ASSUME c >= end PROVE found[c] = <<>>
    <3>1. 1 .. (end - c) = {}
      BY <2>2
    <3>2. QED
      BY <2>1, <3>1
  <2>3. ASSUME ~(c >= end) PROVE found[c] = first(c) \o found[c + run(c)]
    <3> DEFINE a == run(c)
               b == end - (c + run(c))
    <3>1. a \in Nat /\ b \in Nat /\ a + b = end - c /\ c + a \in 0 .. end /\ end - (c + a) = b
      BY <1>2, <2>3
    <3>2. \A i \in 1 .. a : /\ page_of(c + i - 1) = page_of(c)
                            /\ (c + i - 1) % PageSize = (c % PageSize) + i - 1
      BY <1>2, <2>3
    <3> HIDE DEF a, b
    <3>3. found[c + a] = [n \in 1 .. b |-> Place(root, m, (c + a) + n - 1)]
      BY <3>1
    <3>4. \A n \in 1 .. b : a + n \in 1 .. (a + b) /\ c + (a + n) - 1 = (c + a) + n - 1
      BY <3>1
    <3>5. \A n \in 1 .. (a + b) : found[c][n] = Place(root, m, c + n - 1)
      BY <2>1, <3>1
    <3>6. found[c] = [n \in 1 .. (a + b) |-> found[c][n]]
      BY <2>1, <3>1
    <3>7. \A n \in 1 .. b : found[c][a + n] = Place(root, m, (c + a) + n - 1)
      BY <3>4, <3>5
    <3>8. found[c + a] = [n \in 1 .. b |-> found[c][a + n]]
      BY <3>3, <3>7
    <3>9. \A i \in 1 .. a : i \in 1 .. (a + b)
      BY <3>1
    <3>10. \A i \in 1 .. a : found[c][i] = [frame |-> fr(c), at |-> (c % PageSize) + i - 1]
      BY <3>2, <3>5, <3>9 DEF Place
    <3>11. first(c) = [i \in 1 .. a |-> found[c][i]]
      BY <3>10 DEF a
    <3> HIDE DEF found, first
    <3>12. first(c) \o found[c + a] = found[c]
      <4> DEFINE whole == found[c]
                 head == first(c)
                 rest == found[c + a]
      <4>1. /\ whole = [n \in 1 .. (a + b) |-> whole[n]]
            /\ head = [n \in 1 .. a |-> whole[n]]
            /\ rest = [n \in 1 .. b |-> whole[a + n]]
        BY <3>6, <3>8, <3>11
      <4> HIDE DEF whole, head, rest
      <4>2. head \o rest = whole
        BY <3>1, <4>1, Joined
      <4>3. QED
        BY <4>2 DEF whole, head, rest
    <3>13. QED
      BY <3>12 DEF a
  <2>4. QED
    BY <2>2, <2>3
<1>4. found = [cur \in 0 .. end |-> found[cur]]
  OBVIOUS
<1>5. found[ptr] = [n \in 1 .. (end - ptr) |-> Place(root, m, ptr + n - 1)]
  OBVIOUS
<1> HIDE DEF found, first
<1>6. Loops(found)
  BY <1>3, <1>4
<1>7. ASSUME NEW f, Loops(f)
      PROVE  f = found
  <2> DEFINE Bad == {d \in 0 .. end : f[end - d] # found[end - d]}
  <2>1. \A c \in 0 .. end : f[c] = IF c >= end THEN <<>> ELSE first(c) \o f[c + run(c)]
    BY <1>7
  <2>2. Bad = {}
    <3>1. SUFFICES ASSUME Bad # {} PROVE FALSE
      OBVIOUS
    <3>2. Bad \in SUBSET Nat
      OBVIOUS
    <3>3. PICK d \in Bad : \A k \in Bad : d <= k
      BY <3>1, <3>2, LeastNatural
    <3> DEFINE c == end - d
    <3>4. c \in 0 .. end /\ f[c] # found[c]
      BY <3>3
    <3>5. ~(c >= end)
      BY <1>3, <2>1, <3>4
    <3> DEFINE e == c + run(c)
    <3>6. e \in 0 .. end /\ c < e
      BY <1>2, <3>4, <3>5
    <3> HIDE DEF e
    <3>7. end - e \in 0 .. end /\ end - e < d /\ end - (end - e) = e
      BY <3>3, <3>6
    <3>8. end - e \notin Bad
      BY <3>3, <3>7
    <3>9. f[e] = found[e]
      BY <3>7, <3>8
    <3>10. QED
      BY <1>3, <2>1, <3>4, <3>5, <3>9 DEF e
  <2>3. ASSUME NEW c \in 0 .. end
        PROVE  f[c] = found[c]
    <3>1. end - c \in 0 .. end /\ end - (end - c) = c
      BY <2>3
    <3>2. end - c \notin Bad
      BY <2>2
    <3>3. QED
      BY <3>1, <3>2
  <2>4. f = [c \in 0 .. end |-> f[c]]
    BY <1>7
  <2>5. QED
    BY <1>4, <2>3, <2>4
<1> HIDE DEF Loops
<1>8. (CHOOSE f : Loops(f)) = found
  BY <1>6, <1>7
<1>9. QED
  BY <1>1, <1>5, <1>8

\* The places of a range, in order.
PlacesOn(root, m, ptr, len) == [n \in 1 .. len |-> Place(root, m, ptr + n - 1)]

LEMMA PlacesOf ==
  ASSUME NEW root, NEW m, NEW ptr \in Nat, NEW len \in Nat
  PROVE  places(root, m, ptr, ptr + len) = PlacesOn(root, m, ptr, len)
<1>1. ptr + len \in Nat /\ ptr \in 0 .. (ptr + len) /\ (ptr + len) - ptr = len
  OBVIOUS
<1>2. places(root, m, ptr, ptr + len)
        = [n \in 1 .. ((ptr + len) - ptr) |-> Place(root, m, ptr + n - 1)]
  BY <1>1, PlacesExact
<1>3. QED
  BY <1>1, <1>2 DEF PlacesOn

-----------------------------------------------------------------------------
(* The chunks of console_write.                                            *)

\* The word at an address, as user code would read it.
WordAt(root, m, va) == m[translate(root, m, page_of(va)).frame][va % PageSize]

\* The words of a range, in order.
WordsAt(root, m, ptr, len) == [n \in 1 .. len |-> WordAt(root, m, ptr + n - 1)]

\* A part of a range that passed the gates passes them.
LEMMA PartPasses ==
  ASSUME NEW root, NEW m, NEW w, w.base \in Nat, w.len \in Nat,
         NEW ptr \in Nat, NEW len \in Nat, validate(w, ptr, len),
         probe_user_pages(root, m, ptr, len, FALSE),
         NEW o \in Nat, NEW c \in Nat, c > 0, o + c <= len
  PROVE  /\ checked_add(ptr, o) # None
         /\ copy_from_user_ok(root, m, w, ptr + o, c)
<1>1. /\ ptr + len <= UsizeMax /\ w.base + w.len <= UsizeMax
      /\ ptr >= w.base /\ ptr + len <= w.base + w.len /\ len > 0
  BY PageSizes DEF validate, checked_add
<1>2. checked_add(ptr, o) # None
  BY <1>1, PageSizes DEF checked_add
<1>3. validate(w, ptr + o, c)
  BY <1>1, PageSizes DEF validate, checked_add
<1>4. \A va \in ptr .. (ptr + len - 1) : page_ok(root, m, page_of(va), FALSE)
  BY <1>1, ProbeRange
<1>5. ptr + o \in Nat /\ (ptr + o) + c <= UsizeMax
  BY <1>1, PageSizes
<1>6. \A va \in (ptr + o) .. ((ptr + o) + c - 1) : va \in ptr .. (ptr + len - 1)
  OBVIOUS
<1>7. probe_user_pages(root, m, ptr + o, c, FALSE)
  BY <1>4, <1>5, <1>6, ProbeRange
<1>8. QED
  BY <1>2, <1>3, <1>7 DEF copy_from_user_ok

\* The loop reads each chunk's words where the range's own are.
LEMMA ChunkWords ==
  ASSUME NEW root, NEW m, NEW ptr \in Nat, NEW c \in Nat
  PROVE  LET from == copy_from_user(root, m, ptr, c)
         IN [n \in DOMAIN from |-> m[from[n].frame][from[n].at]]
              = [n \in 1 .. c |-> WordAt(root, m, ptr + n - 1)]
<1> DEFINE from == copy_from_user(root, m, ptr, c)
<1>1. from = [n \in 1 .. c |-> Place(root, m, ptr + n - 1)]
  <2>1. from = places(root, m, ptr, ptr + c)
    BY DEF copy_from_user
  <2> HIDE DEF from
  <2>2. from = PlacesOn(root, m, ptr, c)
    BY <2>1, PlacesOf
  <2>3. QED
    BY <2>2 DEF PlacesOn
<1> HIDE DEF from
<1>2. DOMAIN from = 1 .. c /\ \A n \in 1 .. c : from[n] = Place(root, m, ptr + n - 1)
  BY <1>1
<1>3. \A n \in 1 .. c : m[from[n].frame][from[n].at] = WordAt(root, m, ptr + n - 1)
  BY <1>2 DEF Place, WordAt
<1>4. QED
  BY <1>2, <1>3 DEF from

\* Once the whole range has passed the gates no chunk fails, and the chunks add
\* up to the range: sys_console_write emits its words in order, whatever the
\* chunk size and however chunks and pages overlap.
LEMMA EmitExact ==
  ASSUME NEW root, NEW m, NEW w, w.base \in Nat, w.len \in Nat,
         NEW ptr \in Nat, NEW len \in Nat, validate(w, ptr, len),
         len > 0 => probe_user_pages(root, m, ptr, len, FALSE)
  PROVE  emit_chunks(w, root, m, ptr, len)
           = [status |-> OK_STATUS, out |-> WordsAt(root, m, ptr, len)]
<1> DEFINE chunk(o) == IF len - o < ConsoleChunk THEN len - o ELSE ConsoleChunk
           from(o) == copy_from_user(root, m, ptr + o, chunk(o))
           bad(o) == \/ checked_add(ptr, o) = None
                     \/ ~copy_from_user_ok(root, m, w, ptr + o, chunk(o))
           part(o) == [n \in DOMAIN from(o) |-> m[from(o)[n].frame][from(o)[n].at]]
           Loops(f) == f = [o \in 0 .. len |->
                              IF o >= len THEN [status |-> OK_STATUS, out |-> <<>>]
                              ELSE IF bad(o) THEN [status |-> FaultAddress, out |-> <<>>]
                              ELSE [status |-> f[o + chunk(o)].status,
                                    out    |-> part(o) \o f[o + chunk(o)].out]]
           words(o) == [n \in 1 .. (len - o) |-> WordAt(root, m, ptr + o + n - 1)]
           found == [o \in 0 .. len |-> [status |-> OK_STATUS, out |-> words(o)]]
<1>1. emit_chunks(w, root, m, ptr, len) = (CHOOSE f : Loops(f))[0]
  BY Zenon DEF emit_chunks
<1>2. ConsoleChunk \in Nat /\ ConsoleChunk > 0
  BY SyscallAssumption
<1>3. \A o \in 0 .. len : o < len => chunk(o) \in 1 .. (len - o) /\ ~bad(o)
  <2>1. SUFFICES ASSUME NEW o \in 0 .. len, o < len PROVE chunk(o) \in 1 .. (len - o) /\ ~bad(o)
    OBVIOUS
  <2>2. chunk(o) \in 1 .. (len - o)
    BY <1>2, <2>1
  <2> HIDE DEF chunk
  <2>3. /\ o \in Nat /\ chunk(o) \in Nat /\ chunk(o) > 0 /\ o + chunk(o) <= len
    BY <2>1, <2>2
  <2>4. len > 0
    BY <2>1
  <2>5. probe_user_pages(root, m, ptr, len, FALSE)
    BY <2>4, Zenon
  <2>6. QED
    BY <2>2, <2>3, <2>5, PartPasses
<1>4. \A o \in 0 .. len : o < len => part(o) = [n \in 1 .. chunk(o) |-> WordAt(root, m, ptr + o + n - 1)]
  <2>1. SUFFICES ASSUME NEW o \in 0 .. len, o < len
                 PROVE  part(o) = [n \in 1 .. chunk(o) |-> WordAt(root, m, ptr + o + n - 1)]
    BY Zenon
  <2> HIDE DEF chunk
  <2>2. chunk(o) \in Nat /\ ptr + o \in Nat
    BY <1>3, <2>1
  <2>3. QED
    BY <2>2, ChunkWords
<1> HIDE DEF chunk, bad, part
<1>5. ASSUME NEW o \in 0 .. len, o < len
      PROVE  part(o) \o words(o + chunk(o)) = words(o)
  <2> DEFINE a == chunk(o)
             b == len - (o + chunk(o))
  <2>1. a \in Nat /\ b \in Nat /\ a + b = len - o
    BY <1>3, <1>5
  <2>2. part(o) = [n \in 1 .. a |-> WordAt(root, m, ptr + o + n - 1)]
    BY <1>4, <1>5
  <2> HIDE DEF a
  <2>3. words(o + a) = [n \in 1 .. b |-> WordAt(root, m, ptr + (o + a) + n - 1)]
    BY DEF a
  <2> HIDE DEF b
  <2> DEFINE whole == words(o)
             head == part(o)
             rest == words(o + a)
  <2>4. \A n \in 1 .. (a + b) : whole[n] = WordAt(root, m, ptr + o + n - 1)
    BY <2>1
  <2>5. whole = [n \in 1 .. (a + b) |-> whole[n]]
    BY <2>1
  <2>6. \A n \in 1 .. a : n \in 1 .. (a + b)
    BY <2>1
  <2>7. \A n \in 1 .. b : a + n \in 1 .. (a + b) /\ ptr + o + (a + n) - 1 = ptr + (o + a) + n - 1
    BY <2>1
  <2>8. \A n \in 1 .. b : whole[a + n] = WordAt(root, m, ptr + (o + a) + n - 1)
    BY <2>4, <2>7
  <2> HIDE DEF whole
  <2>9. head = [n \in 1 .. a |-> whole[n]] /\ rest = [n \in 1 .. b |-> whole[a + n]]
    BY <2>2, <2>3, <2>4, <2>6, <2>8
  <2> HIDE DEF head, rest
  <2>10. head \o rest = whole
    BY <2>1, <2>5, <2>9, Joined
  <2>11. QED
    BY <2>10 DEF head, rest, whole, a
<1>6. ASSUME NEW o \in 0 .. len, o >= len
      PROVE  words(o) = <<>>
  <2>1. 1 .. (len - o) = {}
    BY <1>6
  <2>2. QED
    BY <2>1
<1>7. words(0) = WordsAt(root, m, ptr, len)
  BY <1>2 DEF WordsAt
<1> HIDE DEF words
<1>8. \A o \in 0 .. len : found[o].status = OK_STATUS /\ found[o].out = words(o)
  OBVIOUS
<1>9. found[0] = [status |-> OK_STATUS, out |-> WordsAt(root, m, ptr, len)]
  BY <1>7
<1>10. ASSUME NEW o \in 0 .. len
       PROVE  found[o] = IF o >= len THEN [status |-> OK_STATUS, out |-> <<>>]
                         ELSE IF bad(o) THEN [status |-> FaultAddress, out |-> <<>>]
                         ELSE [status |-> found[o + chunk(o)].status,
                               out    |-> part(o) \o found[o + chunk(o)].out]
  <2>1. found[o] = [status |-> OK_STATUS, out |-> words(o)]
    OBVIOUS
  <2>2. CASE o >= len
    BY <1>6, <2>1, <2>2
  <2>3. CASE ~(o >= len)
    <3>1. ~bad(o) /\ o + chunk(o) \in 0 .. len
      BY <1>3, <2>3
    <3>2. found[o + chunk(o)].status = OK_STATUS /\ found[o + chunk(o)].out = words(o + chunk(o))
      BY <1>8, <3>1
    <3>3. words(o) = part(o) \o found[o + chunk(o)].out
      <4>1. o < len
        BY <2>3
      <4>2. part(o) \o words(o + chunk(o)) = words(o)
        BY <1>5, <4>1
      <4>3. QED
        BY <3>2, <4>2
    <3>4. QED
      BY <2>1, <2>3, <3>1, <3>2, <3>3
  <2>4. QED
    BY <2>2, <2>3
<1>11. found = [o \in 0 .. len |-> found[o]]
  OBVIOUS
<1> HIDE DEF found
<1>12. Loops(found)
  BY <1>10, <1>11
<1>13. ASSUME NEW f, Loops(f)
       PROVE  f = found
  <2> DEFINE Bad == {d \in 0 .. len : f[len - d] # found[len - d]}
  <2>1. \A o \in 0 .. len :
          f[o] = IF o >= len THEN [status |-> OK_STATUS, out |-> <<>>]
                 ELSE IF bad(o) THEN [status |-> FaultAddress, out |-> <<>>]
                 ELSE [status |-> f[o + chunk(o)].status,
                       out    |-> part(o) \o f[o + chunk(o)].out]
    BY <1>13
  <2>2. Bad = {}
    <3>1. SUFFICES ASSUME Bad # {} PROVE FALSE
      OBVIOUS
    <3>2. Bad \in SUBSET Nat
      OBVIOUS
    <3>3. PICK d \in Bad : \A k \in Bad : d <= k
      BY <3>1, <3>2, LeastNatural
    <3> DEFINE c == len - d
    <3>4. c \in 0 .. len /\ f[c] # found[c]
      BY <3>3
    <3>5. ~(c >= len)
      BY <1>10, <2>1, <3>4
    <3> DEFINE e == c + chunk(c)
    <3>6. e \in 0 .. len /\ c < e
      BY <1>3, <3>4, <3>5
    <3> HIDE DEF e
    <3>7. len - e \in 0 .. len /\ len - e < d /\ len - (len - e) = e
      BY <3>3, <3>6
    <3>8. len - e \notin Bad
      BY <3>3, <3>7
    <3>9. f[e] = found[e]
      BY <3>7, <3>8
    <3>10. QED
      BY <1>10, <2>1, <3>4, <3>5, <3>9 DEF e
  <2>3. ASSUME NEW c \in 0 .. len
        PROVE  f[c] = found[c]
    <3>1. len - c \in 0 .. len /\ len - (len - c) = c
      BY <2>3
    <3>2. len - c \notin Bad
      BY <2>2
    <3>3. QED
      BY <3>1, <3>2
  <2>4. f = [c \in 0 .. len |-> f[c]]
    BY <1>13
  <2>5. QED
    BY <1>11, <2>3, <2>4
<1> HIDE DEF Loops
<1>14. (CHOOSE f : Loops(f)) = found
  BY <1>12, <1>13
<1>15. QED
  BY <1>1, <1>9, <1>14

\* What the two gates ask of the table and of the range.
ConsoleCap(t, h) ==
  /\ resolves(t, h)
  /\ lookup(t, h).object = [kind |-> "DebugConsole"]
  /\ "CONSOLE_WRITE" \in lookup(t, h).rights

Accessible(root, m, span, ptr, len, require_write) ==
  \A va \in ptr .. (ptr + len - 1) :
    span.entry <= va /\ va < span.sp /\ page_ok(root, m, page_of(va), require_write)

Readable(root, m, span, ptr, len) == Accessible(root, m, span, ptr, len, FALSE)
Writable(root, m, span, ptr, len) == Accessible(root, m, span, ptr, len, TRUE)

SpanWindow(span) == [base |-> span.entry, len |-> saturating_sub(span.sp, span.entry)]

\* The window that add_user_task makes of a span, and the probe, let exactly the
\* ranges through whose every address lies in the span, on a page with the
\* permissions.
LEMMA RangePasses ==
  ASSUME NEW root, NEW m, NEW span \in [entry : 0 .. UsizeMax, sp : 0 .. UsizeMax],
         NEW ptr \in Nat, NEW len \in Nat, NEW require_write
  PROVE  LET w == SpanWindow(span)
         IN /\ w.base \in Nat /\ w.len \in Nat
            /\ (validate(w, ptr, len) /\ (len > 0 => probe_user_pages(root, m, ptr, len, require_write)))
                 <=> Accessible(root, m, span, ptr, len, require_write)
<1> DEFINE w == SpanWindow(span)
           entry == span.entry
           sp == span.sp
           probed == probe_user_pages(root, m, ptr, len, require_write)
           good(va) == page_ok(root, m, page_of(va), require_write)
<1>1. UsizeMax \in Nat /\ None \notin Nat
  BY PageSizes
<1>2. entry \in Nat /\ sp \in Nat /\ sp <= UsizeMax /\ entry <= UsizeMax
  BY <1>1
<1>3. w.base = entry /\ w.base \in Nat /\ w.len \in Nat /\ w.len = IF sp > entry THEN sp - entry ELSE 0
  BY <1>2 DEF saturating_sub, SpanWindow
<1>4. Accessible(root, m, span, ptr, len, require_write)
        <=> \A va \in ptr .. (ptr + len - 1) : entry <= va /\ va < sp /\ good(va)
  BY Zenon DEF Accessible
<1> HIDE DEF w, probed, good, entry, sp
<1>5. CASE len = 0
  <2>1. validate(w, ptr, len)
    BY <1>5 DEF validate
  <2>2. ptr .. (ptr + len - 1) = {} /\ ~(len > 0)
    BY <1>5
  <2>3. QED
    BY <1>3, <1>4, <2>1, <2>2, Zenon DEF w, probed
<1>6. CASE len > 0
  <2>1. validate(w, ptr, len) => ptr + len <= UsizeMax /\ entry <= ptr /\ ptr + len <= sp
    BY <1>1, <1>2, <1>3, <1>6 DEF validate, checked_add
  <2>2. entry <= ptr /\ ptr + len <= sp => validate(w, ptr, len)
    BY <1>1, <1>2, <1>3, <1>6 DEF validate, checked_add
  <2>3. ptr \in ptr .. (ptr + len - 1) /\ ptr + len - 1 \in ptr .. (ptr + len - 1)
    BY <1>6
  <2>4. (\A va \in ptr .. (ptr + len - 1) : entry <= va /\ va < sp) <=> entry <= ptr /\ ptr + len <= sp
    BY <1>2, <1>6, <2>3
  <2>5. entry <= ptr /\ ptr + len <= sp => (probed <=> \A va \in ptr .. (ptr + len - 1) : good(va))
    <3>1. SUFFICES ASSUME ptr + len <= sp PROVE probed <=> \A va \in ptr .. (ptr + len - 1) : good(va)
      OBVIOUS
    <3>2. ptr + len <= UsizeMax
      BY <1>1, <1>2, <3>1
    <3>3. QED
      BY <1>6, <3>2, ProbeRange DEF probed, good
  <2>6. QED
    BY <1>3, <1>4, <1>6, <2>1, <2>2, <2>4, <2>5, Zenon DEF w, probed
<1>7. QED
  BY <1>5, <1>6

\* The authority gate is what the table holds.
LEMMA ConsoleAuthority ==
  ASSUME NEW t \in CapabilityTable, NEW h
  PROVE  validate_debug_console_cap(t, h) = "Ok"
           <=> ConsoleCap(t, h)
<1>1. CASE ~resolves(t, h)
  BY <1>1 DEF ConsoleCap, validate_debug_console_cap
<1>2. CASE resolves(t, h)
  <2> DEFINE e == entry_of(t, h)
  <2>1. e \in Entry
    BY <1>2 DEF resolves, entry_of, CapabilityTable
  <2>2. e.object \in Objects
    BY <2>1 DEF Entry
  <2>3. e.object.kind = "DebugConsole" <=> e.object = [kind |-> "DebugConsole"]
    BY <2>2, SyscallAssumption
  <2>4. lookup(t, h).object = e.object /\ lookup(t, h).rights = e.rights
    BY DEF lookup
  <2> HIDE DEF e
  <2>5. validate_debug_console_cap(t, h) = "Ok" <=> e.object.kind = "DebugConsole" /\ "CONSOLE_WRITE" \in e.rights
    BY <1>2 DEF validate_debug_console_cap, e
  <2>6. QED
    BY <1>2, <2>3, <2>4, <2>5 DEF ConsoleCap
<1>3. QED
  BY <1>1, <1>2

\* sys_console_write on a table and a span.
LEMMA SysConsoleWrite ==
  ASSUME NEW t \in CapabilityTable, NEW root, NEW m,
         NEW span \in [entry : 0 .. UsizeMax, sp : 0 .. UsizeMax],
         NEW x0, NEW ptr \in Nat, NEW len \in Nat
  PROVE  LET r == sys_console_write(t, SpanWindow(span), root, m, x0, ptr, len)
             allowed == /\ ConsoleCap(t, decode_required_cap_handle(x0))
                        /\ Readable(root, m, span, ptr, len)
         IN /\ r.ret.status = OK_STATUS <=> allowed
            /\ allowed => r.ret.x1 = len /\ r.out = WordsAt(root, m, ptr, len)
            /\ ~allowed => r.out = <<>>
<1> DEFINE w == SpanWindow(span)
           h == decode_required_cap_handle(x0)
           c == validate_debug_console_cap(t, h)
           r == sys_console_write(t, w, root, m, x0, ptr, len)
           gate == console_gate(t, w, root, m, x0, ptr, len)
           authority == ConsoleCap(t, h)
           probed == len > 0 => probe_user_pages(root, m, ptr, len, FALSE)
           range == Readable(root, m, span, ptr, len)
           words == WordsAt(root, m, ptr, len)
<1>1. w.base \in Nat /\ w.len \in Nat
  BY RangePasses
<1>2. validate(w, ptr, len) /\ probed <=> range
  BY RangePasses, Zenon DEF Readable
<1>3. c = "Ok" <=> authority
  BY ConsoleAuthority, Zenon
<1>4. c \in {"Ok", "InvalidHandle", "WrongKind", "InsufficientRights"}
  BY DEF validate_debug_console_cap
<1>5. gate = IF c # "Ok" THEN Cap(c)
             ELSE IF ~validate(w, ptr, len) THEN FaultAddress
             ELSE IF ~probed THEN FaultAddress
             ELSE OK_STATUS
  BY DEF console_gate
<1>6. validate(w, ptr, len) /\ probed =>
        emit_chunks(w, root, m, ptr, len) = [status |-> OK_STATUS, out |-> words]
  <2>1. SUFFICES ASSUME validate(w, ptr, len), probed
                 PROVE  emit_chunks(w, root, m, ptr, len) = [status |-> OK_STATUS, out |-> words]
    OBVIOUS
  <2>2. len > 0 => probe_user_pages(root, m, ptr, len, FALSE)
    BY <2>1
  <2> HIDE DEF w
  <2>3. QED
    BY <1>1, <2>1, <2>2, EmitExact
<1>7. /\ gate # OK_STATUS => r = [ret |-> error(gate), out |-> <<>>]
      /\ gate = OK_STATUS =>
           r = [ret |-> IF emit_chunks(w, root, m, ptr, len).status = OK_STATUS THEN ok(len)
                        ELSE error(emit_chunks(w, root, m, ptr, len).status),
                out |-> emit_chunks(w, root, m, ptr, len).out]
  BY DEF sys_console_write
<1> HIDE DEF w, c, r, gate, authority, probed, range, words
<1>8. gate = OK_STATUS <=> authority /\ range
  <2>1. c # "Ok" => Cap(c) # OK_STATUS
    BY <1>4, ErrorStatus
  <2>2. FaultAddress # OK_STATUS
    BY ErrorStatus
  <2>3. QED
    BY <1>2, <1>3, <1>5, <2>1, <2>2
<1>9. CASE authority /\ range
  <2>1. gate = OK_STATUS /\ emit_chunks(w, root, m, ptr, len) = [status |-> OK_STATUS, out |-> words]
    BY <1>2, <1>6, <1>8, <1>9
  <2>2. r = [ret |-> ok(len), out |-> words]
    BY <1>7, <2>1
  <2>3. r.ret.status = OK_STATUS /\ r.ret.x1 = len /\ r.out = words
    BY <2>2 DEF ok
  <2>4. QED
    BY <1>9, <2>3, Zenon DEF w, r, h, authority, range, words
<1>10. CASE ~(authority /\ range)
  <2>1. gate # OK_STATUS /\ r = [ret |-> error(gate), out |-> <<>>]
    BY <1>7, <1>8, <1>10
  <2>2. r.ret.status # OK_STATUS /\ r.out = <<>>
    BY <2>1 DEF error
  <2>3. QED
    BY <1>10, <2>2, Zenon DEF w, r, h, authority, range, words
<1>11. QED
  BY <1>9, <1>10

-----------------------------------------------------------------------------
(* console_write.                                                          *)

LEMMA UserBytes ==
  ASSUME NEW t, NEW va, NEW require_write \in BOOLEAN
  PROVE  UserByte(t, va, IF require_write THEN {"USER", "WRITE"} ELSE {"USER"})
           <=> /\ Span[t].entry <= va /\ va < Span[t].sp
               /\ page_ok(get(as_arena, TaskAs[t]), mem, page_of(va), require_write)
<1> DEFINE p == translate(get(as_arena, TaskAs[t]), mem, va - (va % PageSize))
           flags == IF require_write THEN {"USER", "WRITE"} ELSE {"USER"}
<1>1. flags \subseteq p.flags <=> "USER" \in p.flags /\ (require_write => "WRITE" \in p.flags)
  OBVIOUS
<1>2. page_ok(get(as_arena, TaskAs[t]), mem, page_of(va), require_write)
        <=> p # None /\ "USER" \in p.flags /\ (require_write => "WRITE" \in p.flags)
  BY Zenon DEF page_ok, page_of
<1>3. UserByte(t, va, flags) <=> Span[t].entry <= va /\ va < Span[t].sp /\ p # None /\ flags \subseteq p.flags
  BY Zenon DEF UserByte
<1> HIDE DEF p
<1>4. QED
  BY <1>1, <1>2, <1>3, Zenon

\* The window of a task is its span.
LEMMA SpanFacts ==
  ASSUME NEW t \in BoundTask
  PROVE  /\ Span[t] \in [entry : 0 .. UsizeMax, sp : 0 .. UsizeMax]
         /\ Window[t] = SpanWindow(Span[t])
  BY SyscallSpecAssumption DEF BoundTask, Window, SpanWindow

LEMMA DecodeConsole ==
  ASSUME NEW nr
  PROVE  /\ decode(nr) = "ConsoleWrite" => nr = 5 /\ DebugBuild
         /\ nr = 5 => decode(nr) = IF DebugBuild THEN "ConsoleWrite" ELSE None
<1>1. None # "ConsoleWrite"
  BY SyscallAssumption
<1>2. decode(nr) = None \/ nr \in 1 .. 5
  BY DEF decode
<1>3. QED
  BY <1>1, <1>2 DEF decode

\* Only the number 5 and the handler of console_write leave a 5 in the frame.
LEMMA ConsoleSteps ==
  ASSUME [Next]_vars, Called, last'.args.nr = 5
  PROVE  \/ BadNumber(5)
         \/ \E x0 \in Words, ptr \in Ptrs, len \in Lens : ConsoleWrite(5, x0, ptr, len)
<1>1. \/ \E nr \in Numbers :
           \/ BadNumber(nr) \/ TaskYield(nr) \/ TaskExit(nr)
           \/ \E x0 \in Words, msg \in Message, x5 \in Words : Send(nr, x0, msg, x5)
           \/ \E x0 \in Words : Recv(nr, x0)
           \/ \E x0 \in Words, ptr \in Ptrs, len \in Lens : ConsoleWrite(nr, x0, ptr, len)
      \/ \E ptr \in Ptrs, len \in Lens : CopyToUser(ptr, len)
  BY DEF Next, vars, Called, Return, Dispatch, DestroyAddressSpace, CreateAddressSpace
<1>2. decode(5) \in {"ConsoleWrite", None}
  BY DecodeConsole
<1>3. None \notin {"Send", "Recv", "TaskYield", "TaskExit"}
  BY SyscallAssumption
<1>4. ASSUME NEW ptr, NEW len, CopyToUser(ptr, len) PROVE FALSE
  <2>1. last'.args.nr = None
    BY <1>4 DEF CopyToUser, Resumed, Args
  <2>2. QED
    BY <2>1, Constants
<1>5. ASSUME NEW nr, NEW x0, NEW msg, NEW x5, Send(nr, x0, msg, x5) PROVE FALSE
  <2>1. last'.args.nr = nr /\ decode(nr) = "Send"
    BY <1>5 DEF Send, Commit, Resumed, Args
  <2>2. QED
    BY <1>2, <1>3, <2>1
<1>6. ASSUME NEW nr, NEW x0, Recv(nr, x0) PROVE FALSE
  <2>1. last'.args.nr = nr /\ decode(nr) = "Recv"
    BY <1>6 DEF Recv, Commit, Resumed, Args
  <2>2. QED
    BY <1>2, <1>3, <2>1
<1>7. ASSUME NEW nr, TaskYield(nr) \/ TaskExit(nr) PROVE FALSE
  <2>1. last'.args.nr = nr /\ decode(nr) \in {"TaskYield", "TaskExit"}
    BY <1>7 DEF TaskYield, TaskExit, Resumed, Args, Called
  <2>2. QED
    BY <1>2, <1>3, <2>1
<1>8. ASSUME NEW nr, BadNumber(nr) PROVE BadNumber(5)
  BY <1>8 DEF BadNumber, Resumed, Args
<1>9. ASSUME NEW nr, NEW x0, NEW ptr, NEW len, ConsoleWrite(nr, x0, ptr, len)
      PROVE  ConsoleWrite(5, x0, ptr, len)
  BY <1>9, DecodeConsole DEF ConsoleWrite
<1>10. QED
  BY <1>1, <1>4, <1>5, <1>6, <1>7, <1>8, <1>9, Zenon

\* What a console_write does, in the words of ConsoleExact.
LEMMA ConsoleStep ==
  ASSUME IInv, [Next]_vars, Called, last'.args.nr = 5
  PROVE  LET a == last'.args
             h == decode_required_cap_handle(a.x0)
             allowed == /\ DebugBuild /\ Complete
                        /\ resolves(tables[current], h)
                        /\ lookup(tables[current], h).object = [kind |-> "DebugConsole"]
                        /\ "CONSOLE_WRITE" \in lookup(tables[current], h).rights
                        /\ \A va \in a.ptr .. (a.ptr + a.len - 1) : UserByte(current, va, {"USER"})
         IN /\ last'.ret.status = OK_STATUS <=> allowed
            /\ allowed => last'.ret.x1 = a.len
            /\ last'.out = IF allowed THEN [n \in 1 .. a.len |-> WordOf(current, a.ptr + n - 1)]
                           ELSE <<>>
<1> DEFINE a == last'.args
           h == decode_required_cap_handle(a.x0)
           authority == /\ resolves(tables[current], h)
                        /\ lookup(tables[current], h).object = [kind |-> "DebugConsole"]
                        /\ "CONSOLE_WRITE" \in lookup(tables[current], h).rights
           range == \A va \in a.ptr .. (a.ptr + a.len - 1) : UserByte(current, va, {"USER"})
           words == [n \in 1 .. a.len |-> WordOf(current, a.ptr + n - 1)]
           Goal == /\ last'.ret.status = OK_STATUS <=> (DebugBuild /\ Complete /\ authority /\ range)
                   /\ (DebugBuild /\ Complete /\ authority /\ range) => last'.ret.x1 = a.len
                   /\ last'.out = IF DebugBuild /\ Complete /\ authority /\ range THEN words ELSE <<>>
<1>1. CASE BadNumber(5)
  <2>1. decode(5) = None
    BY <1>1 DEF BadNumber
  <2>2. ~DebugBuild
    BY <2>1, DecodeConsole, SyscallAssumption
  <2>3. last'.ret = error(BadSyscallNumber) /\ last'.out = <<>>
    BY <1>1 DEF BadNumber, Resumed
  <2>4. last'.ret.status # OK_STATUS
    BY <2>3, ErrorStatus DEF error
  <2> HIDE DEF authority, range, words, a
  <2>5. Goal
    BY <2>2, <2>3, <2>4
  <2>6. QED
    BY <2>5, Zenon DEF authority, range, words, a
<1>2. CASE \E x0 \in Words, ptr \in Ptrs, len \in Lens : ConsoleWrite(5, x0, ptr, len)
  <2>1. PICK x0 \in Words, ptr \in Ptrs, len \in Lens : ConsoleWrite(5, x0, ptr, len)
    BY <1>2
  <2> DEFINE c == entry_context
             r == sys_console_write(tables[c.task], c.window, c.root, mem, x0, ptr, len)
  <2>2. last'.ret = r.ret /\ last'.out = r.out /\ a = Args(5, x0, ptr, len, 0) /\ decode(5) = "ConsoleWrite"
    BY <2>1 DEF ConsoleWrite, Resumed
  <2>3. a.x0 = x0 /\ a.ptr = ptr /\ a.len = len /\ DebugBuild
    BY <2>2, DecodeConsole DEF Args
  <2>4. ptr \in Nat /\ len \in Nat
    BY <2>1, SyscallSpecAssumption, PageSizes
  <2> HIDE DEF a, r
  <2>5. CASE ~Complete
    <3>1. r = sys_console_write(NewTable, c.window, c.root, mem, x0, ptr, len)
      BY <2>5, ContextTable DEF r
    <3>2. r.out = <<>> /\ r.ret.status # OK_STATUS
      BY <3>1, NoContextConsole
    <3> HIDE DEF authority, range, words
    <3>3. Goal
      BY <2>2, <2>5, <3>2
    <3>4. QED
      BY <3>3, Zenon DEF authority, range, words, a
  <2>6. CASE Complete
    <3> DEFINE root == get(as_arena, TaskAs[current])
               bytes == Readable(root, mem, Span[current], ptr, len)
               cap == ConsoleCap(tables[current], decode_required_cap_handle(x0))
    <3>1. current \in BoundTask /\ c.task = current
      BY <2>6, Context
    <3>2. c.window = Window[current] /\ c.root = root
      BY <2>6 DEF Complete, entry_context
    <3>3. tables[current] \in CapabilityTable
      BY <3>1 DEF IInv
    <3>4. /\ Span[current] \in [entry : 0 .. UsizeMax, sp : 0 .. UsizeMax]
          /\ Window[current] = SpanWindow(Span[current])
      BY <3>1, SpanFacts
    <3>5. r = sys_console_write(tables[current], SpanWindow(Span[current]), root, mem, x0, ptr, len)
      BY <3>1, <3>2, <3>4 DEF r
    <3>6. bytes <=> range
      <4>1. \A va : UserByte(current, va, {"USER"})
                      <=> /\ Span[current].entry <= va /\ va < Span[current].sp
                          /\ page_ok(root, mem, page_of(va), FALSE)
        BY UserBytes
      <4>2. QED
        BY <2>3, <4>1 DEF Readable, Accessible
    <3>7. WordsAt(root, mem, ptr, len) = words
      BY <2>3 DEF WordsAt, WordAt, WordOf, page_of
    <3>8. cap <=> authority
      BY <2>3 DEF ConsoleCap
    <3> HIDE DEF root, authority, range, words
    <3>9. /\ r.ret.status = OK_STATUS <=> (cap /\ bytes)
          /\ (cap /\ bytes) => r.ret.x1 = len /\ r.out = WordsAt(root, mem, ptr, len)
          /\ ~(cap /\ bytes) => r.out = <<>>
      <4> DEFINE s == sys_console_write(tables[current], SpanWindow(Span[current]), root, mem, x0, ptr, len)
      <4>1. /\ s.ret.status = OK_STATUS <=> (cap /\ bytes)
            /\ (cap /\ bytes) => s.ret.x1 = len /\ s.out = WordsAt(root, mem, ptr, len)
            /\ ~(cap /\ bytes) => s.out = <<>>
        BY <2>4, <3>3, <3>4, SysConsoleWrite
      <4> HIDE DEF s, cap, bytes
      <4>2. QED
        BY <3>5, <4>1 DEF s
    <3> HIDE DEF bytes, cap
    <3>10. Goal
      BY <2>2, <2>3, <2>6, <3>6, <3>7, <3>8, <3>9
    <3>11. QED
      BY <3>10, Zenon DEF authority, range, words, a
  <2>7. QED
    BY <2>5, <2>6
<1>3. QED
  BY <1>1, <1>2, ConsoleSteps

\* sys_console_write: a task gets the console to print exactly what it could have
\* read itself, and only a holder of CONSOLE_WRITE gets anything printed, for every
\* page size, chunk size, address width, range and page table.
THEOREM ConsoleCorrect == Spec => ConsoleExact
<1> DEFINE a == last'.args
           h == decode_required_cap_handle(a.x0)
           allowed == /\ DebugBuild /\ Complete
                      /\ resolves(tables[current], h)
                      /\ lookup(tables[current], h).object = [kind |-> "DebugConsole"]
                      /\ "CONSOLE_WRITE" \in lookup(tables[current], h).rights
                      /\ \A va \in a.ptr .. (a.ptr + a.len - 1) : UserByte(current, va, {"USER"})
<1>1. ASSUME IInv, [Next]_vars
      PROVE  (Called /\ last'.args.nr = 5) =>
               /\ last'.ret.status = OK_STATUS <=> allowed
               /\ allowed => last'.ret.x1 = a.len
               /\ last'.out = IF allowed THEN [n \in 1 .. a.len |-> WordOf(current, a.ptr + n - 1)]
                              ELSE <<>>
  BY <1>1, ConsoleStep, Zenon
<1>2. QED
  BY <1>1, SyscallInvariant, PTL DEF Spec, ConsoleExact

-----------------------------------------------------------------------------
(* copy_to_user.                                                           *)

\* The address spaces the tasks were registered with: a slot keeps its root as
\* long as it keeps the generation of the task's handle.
BootSpaces ==
  /\ as_arena \in ArenaOf(Nat) /\ Threaded(as_arena)
  /\ \A t \in BoundTask :
       LET h == TaskAs[t]
       IN /\ as_arena.generation[h.index] >= h.generation
          /\ as_arena.generation[h.index] = h.generation =>
               as_arena.entry[h.index] = InitAsArena.entry[h.index]

CopyInv == IInv /\ BootSpaces /\ Private(mem)

LEMMA Handles ==
  ASSUME NEW t \in BoundTask
  PROVE  /\ TaskAs[t].index \in SlotIndex /\ TaskAs[t].generation \in Nat
         /\ RootOf(t) = InitAsArena.entry[TaskAs[t].index]
<1>1. TaskAs[t] \in SlotId
  BY SyscallSpecAssumption DEF BoundTask
<1>2. QED
  BY <1>1, ArenaAssumption DEF SlotId, SlotGeneration, RootOf, get

\* An address space in the arena under the task's handle is the task's own.
LEMMA OwnRoot ==
  ASSUME BootSpaces, NEW t \in BoundTask, contains(as_arena, TaskAs[t])
  PROVE  get(as_arena, TaskAs[t]) = RootOf(t)
  BY Handles DEF BootSpaces, contains, get

LEMMA InitSpaces == Init => BootSpaces
<1> SUFFICES ASSUME Init PROVE BootSpaces
  OBVIOUS
<1>1. as_arena = InitAsArena /\ InitAsArena \in ArenaOf(Nat) /\ Threaded(InitAsArena)
  BY BootAssumption DEF Init
<1>2. \A t \in BoundTask : InitAsArena.generation[TaskAs[t].index] = TaskAs[t].generation
                            /\ TaskAs[t].generation \in Nat
  BY BootAssumption, Handles DEF contains
<1>3. QED
  BY <1>1, <1>2 DEF BootSpaces

LEMMA DestroySpaces ==
  ASSUME BootSpaces, NEW t \in Revocable, DestroyAddressSpace(TaskAs[t])
  PROVE  BootSpaces'
<1> DEFINE h == TaskAs[t]
           i == h.index
           a == as_arena
           b == as_arena'
           Free == {j \in SlotIndex : a.entry[j] = None}
           FreeNow == {j \in SlotIndex : b.entry[j] = None}
<1>1. t \in BoundTask
  BY SyscallSpecAssumption DEF BoundTask
<1>2. i \in SlotIndex /\ h.generation \in Nat
  BY <1>1, Handles
<1>3. /\ a \in ArenaOf(Nat) /\ Threaded(a)
      /\ a.entry[i] # None /\ a.generation[i] = h.generation
      /\ h.generation < ArenaGenModulus - 1
      /\ b = free(a, h)
  BY DEF BootSpaces, DestroyAddressSpace, contains
<1>4. ArenaGenModulus \in Nat /\ ArenaGenModulus > 0 /\ None \notin Nat
  BY ArenaAssumption, PageSizes
<1>5. (a.generation[i] + 1) % ArenaGenModulus = h.generation + 1
  <2>1. h.generation + 1 \in 0 .. (ArenaGenModulus - 1)
    BY <1>2, <1>3, <1>4
  <2>2. (ArenaGenModulus * 0 + (h.generation + 1)) % ArenaGenModulus = h.generation + 1
    BY <1>4, <2>1, DivUnique
  <2>3. ArenaGenModulus * 0 + (h.generation + 1) = h.generation + 1
    BY <1>2, <1>4
  <2>4. QED
    BY <1>3, <2>2, <2>3
<1>6. /\ b.entry = [a.entry EXCEPT ![i] = None]
      /\ b.generation = [a.generation EXCEPT ![i] = h.generation + 1]
      /\ b.next_free = [a.next_free EXCEPT ![i] = a.free_head]
      /\ b.free_head = i
  BY <1>3, <1>5 DEF free
<1>7. /\ a.entry \in [SlotIndex -> Nat \union {None}] /\ a.generation \in [SlotIndex -> SlotGeneration]
      /\ a.next_free \in [SlotIndex -> SlotIndex \union {None}]
      /\ a.free_head \in SlotIndex \union {None}
  BY <1>3 DEF ArenaOf
<1>8. h.generation + 1 \in SlotGeneration /\ SlotGeneration \subseteq Nat
  BY <1>2, <1>3, <1>4 DEF SlotGeneration
<1> HIDE DEF i, h, a, b
<1>9. b \in ArenaOf(Nat)
  <2>1. b = [entry |-> b.entry, generation |-> b.generation, next_free |-> b.next_free, free_head |-> b.free_head]
    BY <1>3 DEF free
  <2>2. /\ b.entry \in [SlotIndex -> Nat \union {None}] /\ b.generation \in [SlotIndex -> SlotGeneration]
        /\ b.next_free \in [SlotIndex -> SlotIndex \union {None}]
        /\ b.free_head \in SlotIndex \union {None}
    BY <1>2, <1>6, <1>7, <1>8
  <2>3. QED
    BY <2>1, <2>2 DEF ArenaOf
<1>10. Threaded(b)
  <2>1. /\ a.free_head \in Free \union {None}
        /\ \A j \in Free : a.next_free[j] \in (Free \ {a.free_head}) \union {None}
        /\ \A j, k \in Free : a.next_free[j] = a.next_free[k] => j = k \/ a.next_free[j] = None
    BY <1>3, Zenon DEF Threaded
  <2>2. FreeNow = Free \union {i} /\ i \notin Free
    BY <1>2, <1>3, <1>6, <1>7
  <2>3. b.next_free[i] = a.free_head /\ \A j \in Free : b.next_free[j] = a.next_free[j]
    BY <1>2, <1>6, <1>7, <2>2
  <2>4. i # None
    BY <1>2, <1>4 DEF SlotIndex
  <2>5. b.free_head \in FreeNow \union {None}
    BY <1>6, <2>2
  <2>6. \A j \in FreeNow : b.next_free[j] \in (FreeNow \ {b.free_head}) \union {None}
    <3>1. ASSUME NEW j \in Free PROVE b.next_free[j] \in (FreeNow \ {b.free_head}) \union {None}
      BY <1>6, <2>1, <2>2, <2>3
    <3>2. b.next_free[i] \in (FreeNow \ {b.free_head}) \union {None}
      BY <1>6, <2>1, <2>2, <2>3
    <3>3. QED
      BY <2>2, <3>1, <3>2
  <2>7. \A j, k \in FreeNow : b.next_free[j] = b.next_free[k] => j = k \/ b.next_free[j] = None
    <3>1. \A j \in Free : a.next_free[j] = a.free_head => a.free_head = None
      BY <2>1
    <3>2. ASSUME NEW j \in FreeNow, NEW k \in FreeNow, b.next_free[j] = b.next_free[k], j # k
          PROVE  b.next_free[j] = None
      <4>1. CASE j \in Free /\ k \in Free
        BY <2>1, <2>3, <3>2, <4>1
      <4>2. CASE j = i
        BY <2>2, <2>3, <3>1, <3>2, <4>2
      <4>3. CASE k = i
        BY <2>2, <2>3, <3>1, <3>2, <4>3
      <4>4. QED
        BY <2>2, <3>2, <4>1, <4>2, <4>3
    <3>3. QED
      BY <3>2
  <2> HIDE DEF FreeNow
  <2>8. QED
    BY <2>5, <2>6, <2>7, Zenon DEF Threaded, FreeNow
<1>11. ASSUME NEW u \in BoundTask
       PROVE  LET g == TaskAs[u]
              IN /\ b.generation[g.index] >= g.generation
                 /\ b.generation[g.index] = g.generation => b.entry[g.index] = InitAsArena.entry[g.index]
  <2> DEFINE g == TaskAs[u]
  <2>1. g.index \in SlotIndex /\ g.generation \in Nat
    BY Handles
  <2>2. /\ a.generation[g.index] >= g.generation
        /\ a.generation[g.index] = g.generation => a.entry[g.index] = InitAsArena.entry[g.index]
    BY DEF BootSpaces, a
  <2> HIDE DEF g
  <2>3. CASE g.index = i
    <3>1. b.generation[g.index] = h.generation + 1 /\ a.generation[g.index] = h.generation
      BY <1>2, <1>3, <1>6, <1>7, <2>3
    <3>2. QED
      BY <1>2, <2>1, <2>2, <3>1 DEF g
  <2>4. CASE g.index # i
    <3>1. b.generation[g.index] = a.generation[g.index] /\ b.entry[g.index] = a.entry[g.index]
      BY <1>6, <1>7, <2>1, <2>4
    <3>2. QED
      BY <2>2, <3>1 DEF g
  <2>5. QED
    BY <2>3, <2>4
<1>12. QED
  BY <1>9, <1>10, <1>11 DEF BootSpaces, b

LEMMA CreateSpaces ==
  ASSUME BootSpaces, CreateAddressSpace
  PROVE  BootSpaces'
<1> DEFINE a == as_arena
           b == as_arena'
           i == a.free_head
           Free == {j \in SlotIndex : a.entry[j] = None}
           FreeNow == {j \in SlotIndex : b.entry[j] = None}
<1>1. a \in ArenaOf(Nat) /\ Threaded(a) /\ i # None /\ b = allocate(a, FreshRoot)
  BY DEF BootSpaces, CreateAddressSpace, arena_is_full
<1>2. None \notin Nat /\ FreshRoot \in Nat
  BY PageSizes, BootAssumption
<1>3. /\ a.entry \in [SlotIndex -> Nat \union {None}] /\ a.generation \in [SlotIndex -> SlotGeneration]
      /\ a.next_free \in [SlotIndex -> SlotIndex \union {None}]
      /\ i \in SlotIndex
  BY <1>1 DEF ArenaOf
<1>4. /\ b.entry = [a.entry EXCEPT ![i] = FreshRoot]
      /\ b.generation = a.generation
      /\ b.next_free = [a.next_free EXCEPT ![i] = None]
      /\ b.free_head = a.next_free[i]
  BY <1>1 DEF allocate
<1>5. /\ i \in Free
      /\ \A j \in Free : a.next_free[j] \in (Free \ {i}) \union {None}
      /\ \A j, k \in Free : a.next_free[j] = a.next_free[k] => j = k \/ a.next_free[j] = None
  BY <1>1, Zenon DEF Threaded
<1> HIDE DEF a, b, i
<1>6. b \in ArenaOf(Nat)
  <2>1. b = [entry |-> b.entry, generation |-> b.generation, next_free |-> b.next_free, free_head |-> b.free_head]
    BY <1>1 DEF allocate
  <2>2. /\ b.entry \in [SlotIndex -> Nat \union {None}] /\ b.generation \in [SlotIndex -> SlotGeneration]
        /\ b.next_free \in [SlotIndex -> SlotIndex \union {None}]
        /\ b.free_head \in SlotIndex \union {None}
    BY <1>2, <1>3, <1>4
  <2>3. QED
    BY <2>1, <2>2 DEF ArenaOf
<1>7. Threaded(b)
  <2>1. FreeNow = Free \ {i}
    BY <1>2, <1>3, <1>4
  <2>2. \A j \in FreeNow : b.next_free[j] = a.next_free[j]
    BY <1>3, <1>4, <2>1
  <2>3. b.free_head \in FreeNow \union {None}
    BY <1>4, <1>5, <2>1
  <2>4. \A j \in FreeNow : b.next_free[j] \in (FreeNow \ {b.free_head}) \union {None}
    <3>1. ASSUME NEW j \in FreeNow PROVE b.next_free[j] \in (FreeNow \ {b.free_head}) \union {None}
      <4>1. j \in Free /\ j # i
        BY <2>1
      <4>2. a.next_free[j] = a.next_free[i] => a.next_free[j] = None
        BY <1>5, <4>1
      <4>3. a.next_free[j] \in (Free \ {i}) \union {None}
        BY <1>5, <4>1
      <4>4. QED
        BY <1>4, <2>1, <2>2, <4>2, <4>3
    <3>2. QED
      BY <3>1
  <2>5. \A j, k \in FreeNow : b.next_free[j] = b.next_free[k] => j = k \/ b.next_free[j] = None
    BY <1>5, <2>1, <2>2
  <2> HIDE DEF FreeNow
  <2>6. QED
    BY <2>3, <2>4, <2>5, Zenon DEF Threaded, FreeNow
<1>8. ASSUME NEW u \in BoundTask
      PROVE  LET g == TaskAs[u]
             IN /\ b.generation[g.index] >= g.generation
                /\ b.generation[g.index] = g.generation => b.entry[g.index] = InitAsArena.entry[g.index]
  <2> DEFINE g == TaskAs[u]
  <2>1. g.index \in SlotIndex
    BY Handles
  <2>2. /\ a.generation[g.index] >= g.generation
        /\ a.generation[g.index] = g.generation => a.entry[g.index] = InitAsArena.entry[g.index]
    BY DEF BootSpaces, a
  <2>3. InitAsArena.entry[g.index] # None
    BY BootAssumption DEF contains
  <2> HIDE DEF g
  <2>4. a.generation[g.index] = g.generation => g.index # i
    BY <1>5, <2>2, <2>3
  <2>5. g.index # i => b.entry[g.index] = a.entry[g.index]
    BY <1>3, <1>4, <2>1
  <2>6. QED
    BY <1>4, <2>2, <2>4, <2>5 DEF g
<1>9. QED
  BY <1>6, <1>7, <1>8 DEF BootSpaces, b

\* Two memories agree on the tables a walk reads; the walk depends on nothing else.
Agree(root, m, u, va) == \A f \in tables_read(root, m, va) : u[f] = m[f]

LEMMA WalkTables ==
  ASSUME NEW root, NEW m, NEW u, NEW va, Agree(root, m, u, va)
  PROVE  /\ translate(root, u, va) = translate(root, m, va)
         /\ tables_read(root, u, va) = tables_read(root, m, va)
<1> DEFINE l0 == [result |-> "Ok", table |-> root]
           l1 == read_table(m, l0, va_index(va, 4))
           l2 == read_table(m, l1, va_index(va, 3))
           l3 == read_table(m, l2, va_index(va, 2))
<1>1. tables_read(root, m, va) = {root, l1.table, l2.table, l3.table}
  BY DEF tables_read
<1>2. u[l0.table] = m[l0.table] /\ u[l1.table] = m[l1.table] /\ u[l2.table] = m[l2.table] /\ u[l3.table] = m[l3.table]
  <2>1. l0.table = root
    OBVIOUS
  <2> HIDE DEF l0, l1, l2, l3
  <2>2. QED
    BY <1>1, <2>1 DEF Agree
<1>3. \A w, idx : u[w.table] = m[w.table] => read_table(u, w, idx) = read_table(m, w, idx)
  BY DEF read_table
<1>4. /\ read_table(u, l0, va_index(va, 4)) = l1
      /\ read_table(u, l1, va_index(va, 3)) = l2
      /\ read_table(u, l2, va_index(va, 2)) = l3
  <2> HIDE DEF l0
  <2>1. read_table(u, l0, va_index(va, 4)) = l1
    BY <1>2, <1>3
  <2>2. read_table(u, l1, va_index(va, 3)) = l2
    <3> HIDE DEF l1
    <3>1. QED
      BY <1>2, <1>3
  <2>3. read_table(u, l2, va_index(va, 2)) = l3
    <3> HIDE DEF l2
    <3>1. QED
      BY <1>2, <1>3
  <2>4. QED
    BY <2>1, <2>2, <2>3
<1>5. read_walk(root, u, va) = l3 /\ read_walk(root, m, va) = l3
  BY <1>4, Zenon DEF read_walk
<1>6. tables_read(root, u, va) = {root, l1.table, l2.table, l3.table}
  BY <1>4, Zenon DEF tables_read
<1> HIDE DEF l3
<1>7. leaf_of(root, u, va) = leaf_of(root, m, va)
  BY <1>2, <1>5 DEF leaf_of
<1>8. translate(root, u, va) = translate(root, m, va)
  BY <1>7, Zenon DEF translate
<1>9. QED
  BY <1>1, <1>6, <1>8 DEF l3

LEMMA SpanAddresses ==
  ASSUME NEW t \in BoundTask, NEW va \in SpanOf(t)
  PROVE  va \in Nat /\ Span[t].entry <= va /\ va < Span[t].sp
  BY SpanFacts, PageSizes DEF SpanOf

\* A range task t may write lies in its span, on pages it may write.
LEMMA WritableRange ==
  ASSUME NEW t \in BoundTask, NEW m, NEW ptr \in Nat, NEW len \in Nat,
         Writable(RootOf(t), m, Span[t], ptr, len), NEW va \in ptr .. (ptr + len - 1)
  PROVE  va \in SpanOf(t) /\ va \in Nat /\ WritableAt(t, m, va)
<1>1. va \in Nat
  OBVIOUS
<1>2. Span[t].entry <= va /\ va < Span[t].sp /\ page_ok(RootOf(t), m, page_of(va), TRUE)
  BY Zenon DEF Writable, Accessible
<1>3. Span[t].entry \in Nat /\ Span[t].sp \in Nat
  BY SpanFacts, PageSizes
<1>4. va \in SpanOf(t)
  BY <1>1, <1>2, <1>3 DEF SpanOf
<1>5. PICK p \in {translate(RootOf(t), m, page_of(va))} \ {None} : "USER" \in p.flags /\ (TRUE => "WRITE" \in p.flags)
  BY <1>2, Zenon DEF page_ok
<1>6. {"USER", "WRITE"} \subseteq p.flags
  BY <1>5
<1>7. QED
  BY <1>1, <1>4, <1>5, <1>6 DEF WritableAt

\* Different addresses of a writable range have different places.
LEMMA PlacesDiffer ==
  ASSUME NEW m, Private(m), NEW t \in BoundTask, NEW ptr \in Nat, NEW len \in Nat,
         Writable(RootOf(t), m, Span[t], ptr, len),
         NEW va \in ptr .. (ptr + len - 1), NEW vb \in ptr .. (ptr + len - 1),
         Place(RootOf(t), m, va) = Place(RootOf(t), m, vb)
  PROVE  va = vb
<1>1. /\ va \in SpanOf(t) /\ va \in Nat /\ WritableAt(t, m, va)
      /\ vb \in SpanOf(t) /\ vb \in Nat /\ WritableAt(t, m, vb)
  BY WritableRange
<1>2. translate(RootOf(t), m, page_of(va)).frame = translate(RootOf(t), m, page_of(vb)).frame
      /\ va % PageSize = vb % PageSize
  BY DEF Place
<1>3. page_of(va) = page_of(vb)
  BY <1>1, <1>2 DEF Private
<1>4. va = page_of(va) + (va % PageSize) /\ vb = page_of(vb) + (vb % PageSize)
  BY <1>1, PageOf
<1>5. QED
  BY <1>2, <1>3, <1>4

\* In u each word of the range has the value src gives it, and no other word of m
\* has changed.
Written(root, m, u, ptr, src, len) ==
  /\ \A va \in ptr .. (ptr + len - 1) : u[Place(root, m, va).frame][va % PageSize] = src[va - ptr + 1]
  /\ \A f \in DOMAIN m, i \in WordIndex :
       u[f][i] # m[f][i] => \E va \in ptr .. (ptr + len - 1) : Place(root, m, va) = [frame |-> f, at |-> i]

\* What the copy of a writable range does to memory: each word of the range takes
\* its new value, no other word changes, and no walk of any task reads a changed
\* frame.
LEMMA CopyEffect ==
  ASSUME NEW m, m = [f \in DOMAIN m |-> [i \in WordIndex |-> m[f][i]]], Private(m),
         NEW t \in BoundTask, NEW ptr \in Nat, NEW len \in Nat,
         Writable(RootOf(t), m, Span[t], ptr, len),
         NEW src, src = [n \in 1 .. len |-> src[n]]
  PROVE  LET u == copy_to_user(RootOf(t), m, ptr, src)
         IN /\ DOMAIN u = DOMAIN m
            /\ Written(RootOf(t), m, u, ptr, src, len)
            /\ \A s \in BoundTask : \A vb \in SpanOf(s) : Agree(RootOf(s), m, u, page_of(vb))
<1> DEFINE root == RootOf(t)
           u == copy_to_user(root, m, ptr, src)
           to == places(root, m, ptr, ptr + Len(src))
           hit(f, i) == \E n \in DOMAIN src : to[n] = [frame |-> f, at |-> i]
           fresh(f, i) == src[CHOOSE n \in DOMAIN src : to[n] = [frame |-> f, at |-> i]]
           Addresses == ptr .. (ptr + len - 1)
           P(va) == Place(root, m, va)
<1>1. u = [f \in DOMAIN m |-> [i \in WordIndex |-> IF hit(f, i) THEN fresh(f, i) ELSE m[f][i]]]
  BY DEF copy_to_user
<1>2. DOMAIN src = 1 .. len /\ Len(src) = len
  <2> DEFINE S == {src[n] : n \in 1 .. len}
  <2>1. DOMAIN src = 1 .. len
    OBVIOUS
  <2>2. src \in [1 .. len -> S]
    OBVIOUS
  <2> HIDE DEF S
  <2>3. QED
    BY <2>1, <2>2, Finite
<1>3. to = [n \in 1 .. len |-> P(ptr + n - 1)]
  <2>1. places(root, m, ptr, ptr + len) = PlacesOn(root, m, ptr, len)
    BY PlacesOf
  <2>2. QED
    BY <1>2, <2>1 DEF PlacesOn
<1> HIDE DEF to, u, root, P
<1>4. \A n \in 1 .. len : to[n] = P(ptr + n - 1) /\ ptr + n - 1 \in Addresses
  BY <1>3
<1>5. \A va \in Addresses : va - ptr + 1 \in 1 .. len /\ to[va - ptr + 1] = P(va)
  BY <1>3
<1>6. \A f, i : hit(f, i) <=> \E va \in Addresses : P(va) = [frame |-> f, at |-> i]
  <2>1. ASSUME NEW f, NEW i, hit(f, i) PROVE \E va \in Addresses : P(va) = [frame |-> f, at |-> i]
    <3>1. PICK n \in 1 .. len : to[n] = [frame |-> f, at |-> i]
      BY <1>2, <2>1
    <3> WITNESS ptr + n - 1 \in Addresses
    <3>2. QED
      BY <1>4, <3>1
  <2>2. ASSUME NEW f, NEW i, NEW va \in Addresses, P(va) = [frame |-> f, at |-> i] PROVE hit(f, i)
    BY <1>2, <1>5, <2>2
  <2>3. QED
    BY <2>1, <2>2
<1>7. \A va \in Addresses : fresh(P(va).frame, P(va).at) = src[va - ptr + 1]
  <2>1. SUFFICES ASSUME NEW va \in Addresses PROVE fresh(P(va).frame, P(va).at) = src[va - ptr + 1]
    OBVIOUS
  <2> DEFINE k == va - ptr + 1
             c == CHOOSE n \in DOMAIN src : to[n] = [frame |-> P(va).frame, at |-> P(va).at]
  <2>2. P(va) = [frame |-> P(va).frame, at |-> P(va).at]
    BY DEF P, Place
  <2>3. k \in DOMAIN src /\ to[k] = P(va)
    BY <1>2, <1>5, <2>1
  <2>4. c \in DOMAIN src /\ to[c] = P(va)
    BY <2>2, <2>3, Zenon
  <2> HIDE DEF c
  <2>5. c \in 1 .. len /\ ptr + c - 1 \in Addresses /\ P(ptr + c - 1) = P(va)
    BY <1>2, <1>4, <2>4
  <2>6. ptr + c - 1 = va
    BY <2>1, <2>5, PlacesDiffer DEF P, root
  <2>7. c = k
    BY <2>5, <2>6
  <2>8. QED
    BY <2>7 DEF c
<1> HIDE DEF hit, fresh
<1>8. DOMAIN u = DOMAIN m /\ \A f \in DOMAIN m : u[f] = [i \in WordIndex |-> IF hit(f, i) THEN fresh(f, i) ELSE m[f][i]]
  BY <1>1
<1>9. \A f \in DOMAIN m, i \in WordIndex : u[f][i] = IF hit(f, i) THEN fresh(f, i) ELSE m[f][i]
  BY <1>8
<1>10. ASSUME NEW va \in Addresses
       PROVE  /\ P(va).frame = translate(root, m, page_of(va)).frame /\ P(va).at = va % PageSize
              /\ P(va).frame \in DOMAIN m /\ va % PageSize \in WordIndex
              /\ \A s \in BoundTask : \A vb \in SpanOf(s) : P(va).frame \notin tables_read(RootOf(s), m, page_of(vb))
  <2>1. va \in SpanOf(t) /\ va \in Nat /\ WritableAt(t, m, va)
    BY WritableRange
  <2>2. P(va).frame = translate(root, m, page_of(va)).frame /\ P(va).at = va % PageSize
    BY DEF P, Place
  <2>3. va % PageSize \in WordIndex
    BY <2>1, PageOf DEF WordIndex
  <2>4. /\ translate(RootOf(t), m, page_of(va)).frame \in DOMAIN m
        /\ \A s \in BoundTask : \A vb \in SpanOf(s) :
             translate(RootOf(t), m, page_of(va)).frame \notin tables_read(RootOf(s), m, page_of(vb))
    BY <2>1, Zenon DEF Private
  <2>5. QED
    BY <2>2, <2>3, <2>4 DEF root
<1>11. ASSUME NEW va \in Addresses
       PROVE  u[P(va).frame][va % PageSize] = src[va - ptr + 1]
  <2>1. P(va).frame \in DOMAIN m /\ va % PageSize \in WordIndex /\ P(va).at = va % PageSize
    BY <1>10
  <2>2. hit(P(va).frame, va % PageSize)
    <3>1. P(va) = [frame |-> P(va).frame, at |-> va % PageSize]
      BY DEF P, Place
    <3>2. QED
      BY <1>6, <3>1
  <2>3. u[P(va).frame][va % PageSize] = fresh(P(va).frame, va % PageSize)
    BY <1>9, <2>1, <2>2
  <2>4. QED
    BY <1>7, <2>1, <2>3
<1>12. ASSUME NEW f \in DOMAIN m, NEW i \in WordIndex, u[f][i] # m[f][i]
       PROVE  \E va \in Addresses : P(va) = [frame |-> f, at |-> i]
  BY <1>6, <1>9, <1>12
<1>13. ASSUME NEW s \in BoundTask, NEW vb \in SpanOf(s), NEW f \in tables_read(RootOf(s), m, page_of(vb))
       PROVE  u[f] = m[f]
  <2>1. f \in DOMAIN m
    BY DEF Private
  <2>2. \A i \in WordIndex : ~hit(f, i)
    <3>1. SUFFICES ASSUME NEW i \in WordIndex, hit(f, i) PROVE FALSE
      OBVIOUS
    <3>2. PICK va \in Addresses : P(va) = [frame |-> f, at |-> i]
      BY <1>6, <3>1
    <3>3. P(va).frame = f
      BY <3>2
    <3>4. QED
      BY <1>10, <3>3
  <2>3. u[f] = [i \in WordIndex |-> m[f][i]]
    BY <1>8, <2>1, <2>2
  <2>4. m[f] = [i \in WordIndex |-> m[f][i]]
    BY <2>1
  <2>5. QED
    BY <2>3, <2>4
<1> HIDE DEF Addresses
<1>14. QED
  <2>1. \A s \in BoundTask : \A vb \in SpanOf(s) : Agree(RootOf(s), m, u, page_of(vb))
    BY <1>13, Zenon DEF Agree
  <2>2. Written(root, m, u, ptr, src, len)
    BY <1>11, <1>12, Zenon DEF P, Addresses, Written
  <2>3. QED
    BY <1>8, <2>1, <2>2, Zenon DEF u, root

\* Memory stays as the loader left it: each writable page has a frame of its own.
LEMMA PrivateKept ==
  ASSUME NEW m, NEW u, Private(m), DOMAIN u = DOMAIN m,
         \A s \in BoundTask : \A vb \in SpanOf(s) : Agree(RootOf(s), m, u, page_of(vb))
  PROVE  Private(u)
<1>1. \A s \in BoundTask : \A vb \in SpanOf(s) :
        /\ translate(RootOf(s), u, page_of(vb)) = translate(RootOf(s), m, page_of(vb))
        /\ tables_read(RootOf(s), u, page_of(vb)) = tables_read(RootOf(s), m, page_of(vb))
  BY WalkTables
<1>2. \A s \in BoundTask : \A vb \in SpanOf(s) : WritableAt(s, u, vb) <=> WritableAt(s, m, vb)
  BY <1>1, Zenon DEF WritableAt
<1>3. ASSUME NEW t \in BoundTask, NEW va \in SpanOf(t)
      PROVE  /\ tables_read(RootOf(t), u, page_of(va)) \subseteq DOMAIN u
             /\ WritableAt(t, u, va) =>
                  LET f == translate(RootOf(t), u, page_of(va)).frame
                  IN /\ f \in DOMAIN u
                     /\ \A s \in BoundTask : \A vb \in SpanOf(s) : f \notin tables_read(RootOf(s), u, page_of(vb))
                     /\ \A vb \in SpanOf(t) :
                          WritableAt(t, u, vb) /\ translate(RootOf(t), u, page_of(vb)).frame = f =>
                            page_of(vb) = page_of(va)
  <2> DEFINE f == translate(RootOf(t), m, page_of(va)).frame
  <2>1. tables_read(RootOf(t), m, page_of(va)) \subseteq DOMAIN m
    BY DEF Private
  <2>2. WritableAt(t, m, va) =>
          /\ f \in DOMAIN m
          /\ \A s \in BoundTask : \A vb \in SpanOf(s) : f \notin tables_read(RootOf(s), m, page_of(vb))
          /\ \A vb \in SpanOf(t) :
               WritableAt(t, m, vb) /\ translate(RootOf(t), m, page_of(vb)).frame = f =>
                 page_of(vb) = page_of(va)
    BY Zenon DEF Private
  <2>3. translate(RootOf(t), u, page_of(va)).frame = f
    BY <1>1
  <2> HIDE DEF f
  <2>4. QED
    BY <1>1, <1>2, <2>1, <2>2, <2>3
<1>4. QED
  BY <1>3, Zenon DEF Private

Source(len) == [n \in 1 .. len |-> Data(<<None, n>>)]

\* The three outcomes of copy_to_user: in an incomplete context only the empty
\* copy succeeds, and in a complete one exactly the copy to a writable range.
LEMMA CopyCall ==
  ASSUME CopyInv, NEW ptr \in Ptrs, NEW len \in Lens, CopyToUser(ptr, len)
  PROVE  LET success == last'.ret.status = OK_STATUS
             writable == Writable(RootOf(current), mem, Span[current], ptr, len)
         IN /\ ptr \in Nat /\ len \in Nat
            /\ last'.args = Args(None, 0, ptr, len, 0)
            /\ UNCHANGED <<as_arena, current>>
            /\ \/ /\ Complete /\ current \in BoundTask /\ writable /\ success
                  /\ mem' = copy_to_user(RootOf(current), mem, ptr, Source(len))
               \/ Complete /\ current \in BoundTask /\ ~writable /\ ~success /\ mem' = mem
               \/ ~Complete /\ (success <=> len = 0) /\ mem' = mem
<1> DEFINE c == entry_context
           passed == copy_to_user_ok(c.root, mem, c.window, ptr, len)
           success == last'.ret.status = OK_STATUS
           writable == Writable(RootOf(current), mem, Span[current], ptr, len)
<1>1. ptr \in Nat /\ len \in Nat
  BY SyscallSpecAssumption, PageSizes
<1>2. /\ last'.args = Args(None, 0, ptr, len, 0)
      /\ UNCHANGED <<as_arena, current>>
      /\ last'.ret = IF passed THEN ok(0) ELSE error(FaultAddress)
      /\ mem' = IF passed THEN copy_to_user(c.root, mem, ptr, Source(len)) ELSE mem
  BY DEF CopyToUser, Resumed, Source
<1>3. passed <=> validate(c.window, ptr, len) /\ (len > 0 => probe_user_pages(c.root, mem, ptr, len, TRUE))
  BY Zenon DEF copy_to_user_ok
<1> HIDE DEF passed
<1>4. success <=> passed
  BY <1>2, ErrorStatus DEF ok, error
<1> HIDE DEF success
<1>5. CASE Complete
  <2>1. current \in BoundTask /\ c.window = Window[current] /\ c.root = get(as_arena, TaskAs[current])
    BY <1>5, Context DEF Complete, entry_context
  <2>2. c.root = RootOf(current)
    BY <1>5, <2>1, OwnRoot DEF CopyInv, Complete
  <2>3. c.window = SpanWindow(Span[current]) /\ Span[current] \in [entry : 0 .. UsizeMax, sp : 0 .. UsizeMax]
    BY <2>1, SpanFacts
  <2>4. validate(SpanWindow(Span[current]), ptr, len)
          /\ (len > 0 => probe_user_pages(RootOf(current), mem, ptr, len, TRUE))
          <=> writable
    BY <1>1, <2>3, RangePasses, Zenon DEF Writable
  <2> HIDE DEF writable
  <2>5. passed <=> writable
    BY <1>3, <2>2, <2>3, <2>4
  <2>6. QED
    BY <1>1, <1>2, <1>4, <1>5, <2>1, <2>2, <2>5 DEF writable, success
<1>6. CASE ~Complete
  <2>1. c.window = EmptyWindow
    BY <1>6, Context
  <2>2. passed => len = 0
    BY <1>1, <2>1, NoContextCopy DEF passed
  <2>3. len = 0 => passed
    BY <1>1, <1>3 DEF validate
  <2>4. mem' = mem
    <3>1. len = 0 => DOMAIN Source(len) = {}
      BY DEF Source
    <3>2. len = 0 => copy_to_user(c.root, mem, ptr, Source(len)) = mem
      BY <3>1, EmptyCopy DEF CopyInv, IInv
    <3>3. QED
      BY <1>2, <2>2, <3>2
  <2>5. QED
    BY <1>1, <1>2, <1>4, <1>6, <2>2, <2>3, <2>4 DEF success
<1>7. QED
  BY <1>5, <1>6

LEMMA CopyStepInv ==
  ASSUME CopyInv, [Next]_vars
  PROVE  CopyInv'
<1>1. IInv'
  BY NextInv DEF CopyInv
<1>2. BootSpaces'
  <2>1. CASE UNCHANGED as_arena
    BY <2>1 DEF CopyInv, BootSpaces, Threaded
  <2>2. CASE \E t \in Revocable : DestroyAddressSpace(TaskAs[t])
    BY <2>2, DestroySpaces DEF CopyInv
  <2>3. CASE CreateAddressSpace
    BY <2>3, CreateSpaces DEF CopyInv
  <2>4. QED
    BY <2>1, <2>2, <2>3
       DEF Next, vars, BadNumber, Send, Recv, Commit, ConsoleWrite, TaskYield, TaskExit, Return, Dispatch,
           CopyToUser
<1>3. Private(mem)'
  <2>1. ASSUME mem' = mem PROVE Private(mem')
    BY <2>1 DEF CopyInv
  <2>2. ASSUME NEW ptr \in Ptrs, NEW len \in Lens, CopyToUser(ptr, len)
        PROVE  Private(mem')
    <3>1. CASE mem' = mem
      BY <2>1, <3>1
    <3>2. CASE mem' # mem
      <4>1. /\ current \in BoundTask /\ ptr \in Nat /\ len \in Nat
            /\ Writable(RootOf(current), mem, Span[current], ptr, len)
            /\ mem' = copy_to_user(RootOf(current), mem, ptr, Source(len))
        BY <2>2, <3>2, CopyCall
      <4>2. Source(len) = [n \in 1 .. len |-> Source(len)[n]]
        BY DEF Source
      <4>3. /\ mem = [f \in DOMAIN mem |-> [i \in WordIndex |-> mem[f][i]]]
            /\ Private(mem)
        BY DEF CopyInv, IInv
      <4>4. /\ DOMAIN mem' = DOMAIN mem
            /\ \A s \in BoundTask : \A vb \in SpanOf(s) : Agree(RootOf(s), mem, mem', page_of(vb))
        BY <4>1, <4>2, <4>3, CopyEffect
      <4>5. QED
        BY <4>3, <4>4, PrivateKept
    <3>3. QED
      BY <3>1, <3>2
  <2>3. Private(mem')
    BY <2>1, <2>2
       DEF Next, vars, BadNumber, Send, Recv, Commit, ConsoleWrite, TaskYield, TaskExit, Return, Dispatch,
           DestroyAddressSpace, CreateAddressSpace
  <2>4. QED
    BY <2>3 DEF Private, WritableAt, RootOf, SpanOf, BoundTask
<1>4. QED
  BY <1>1, <1>2, <1>3 DEF CopyInv

\* Only copy_to_user leaves None in the frame.
LEMMA CopySteps ==
  ASSUME [Next]_vars, Called, last'.args.nr = None
  PROVE  \E ptr \in Ptrs, len \in Lens : CopyToUser(ptr, len)
<1>1. \/ \E nr \in Numbers :
           \/ BadNumber(nr) \/ TaskYield(nr) \/ TaskExit(nr)
           \/ \E x0 \in Words, msg \in Message, x5 \in Words : Send(nr, x0, msg, x5)
           \/ \E x0 \in Words : Recv(nr, x0)
           \/ \E x0 \in Words, ptr \in Ptrs, len \in Lens : ConsoleWrite(nr, x0, ptr, len)
      \/ \E ptr \in Ptrs, len \in Lens : CopyToUser(ptr, len)
  BY DEF Next, vars, Called, Return, Dispatch, DestroyAddressSpace, CreateAddressSpace
<1>2. None \notin Numbers
  BY SyscallSpecAssumption, PageSizes
<1>3. ASSUME NEW nr \in Numbers, BadNumber(nr) \/ TaskYield(nr) \/ TaskExit(nr) PROVE FALSE
  BY <1>2, <1>3 DEF BadNumber, TaskYield, TaskExit, Resumed, Args, Called
<1>4. ASSUME NEW nr \in Numbers, NEW x0, NEW msg, NEW x5, Send(nr, x0, msg, x5) PROVE FALSE
  BY <1>2, <1>4 DEF Send, Commit, Resumed, Args
<1>5. ASSUME NEW nr \in Numbers, NEW x0, Recv(nr, x0) PROVE FALSE
  BY <1>2, <1>5 DEF Recv, Commit, Resumed, Args
<1>6. ASSUME NEW nr \in Numbers, NEW x0, NEW ptr, NEW len, ConsoleWrite(nr, x0, ptr, len) PROVE FALSE
  BY <1>2, <1>6 DEF ConsoleWrite, Resumed, Args
<1>7. QED
  BY <1>1, <1>3, <1>4, <1>5, <1>6

LEMMA CopyInitInv == Init => CopyInv
<1> SUFFICES ASSUME Init PROVE CopyInv
  OBVIOUS
<1>1. mem \in InitMemories
  BY DEF Init
<1>2. Private(mem)
  BY <1>1, BootAssumption
<1>3. QED
  BY <1>2, InitInv, InitSpaces DEF CopyInv

LEMMA WritableBytes ==
  ASSUME CopyInv, Complete, NEW ptr, NEW len
  PROVE  Writable(RootOf(current), mem, Span[current], ptr, len)
           <=> \A va \in ptr .. (ptr + len - 1) : UserByte(current, va, {"USER", "WRITE"})
<1>1. get(as_arena, TaskAs[current]) = RootOf(current)
  BY OwnRoot DEF CopyInv, Complete
<1>2. \A va : UserByte(current, va, IF TRUE THEN {"USER", "WRITE"} ELSE {"USER"})
                <=> /\ Span[current].entry <= va /\ va < Span[current].sp
                    /\ page_ok(get(as_arena, TaskAs[current]), mem, page_of(va), TRUE)
  <2> SUFFICES ASSUME NEW va
               PROVE  UserByte(current, va, IF TRUE THEN {"USER", "WRITE"} ELSE {"USER"})
                        <=> /\ Span[current].entry <= va /\ va < Span[current].sp
                            /\ page_ok(get(as_arena, TaskAs[current]), mem, page_of(va), TRUE)
    OBVIOUS
  <2>1. TRUE \in BOOLEAN
    OBVIOUS
  <2>2. QED
    BY <2>1, UserBytes, Zenon
<1>3. (IF TRUE THEN {"USER", "WRITE"} ELSE {"USER"}) = {"USER", "WRITE"}
  OBVIOUS
<1>4. \A va : UserByte(current, va, {"USER", "WRITE"})
                <=> /\ Span[current].entry <= va /\ va < Span[current].sp
                    /\ page_ok(RootOf(current), mem, page_of(va), TRUE)
  BY <1>1, <1>2, <1>3, Zenon
<1>5. QED
  BY <1>4, Zenon DEF Writable, Accessible

\* A copy to a writable range: the task reads back what was copied, and every word
\* that changed is one of the range.
LEMMA CopyWords ==
  ASSUME CopyInv, Complete, NEW ptr \in Nat, NEW len \in Nat,
         Writable(RootOf(current), mem, Span[current], ptr, len),
         UNCHANGED <<as_arena, current>>,
         mem' = copy_to_user(RootOf(current), mem, ptr, Source(len))
  PROVE  /\ \A va \in ptr .. (ptr + len - 1) : WordOf(current, va)' = Data(<<None, va - ptr + 1>>)
         /\ \A f \in DOMAIN mem, i \in WordIndex :
              mem'[f][i] # mem[f][i] =>
                \E va \in ptr .. (ptr + len - 1) :
                  /\ va % PageSize = i
                  /\ translate(get(as_arena, TaskAs[current]), mem, va - i).frame = f
<1> DEFINE root == RootOf(current)
           Addresses == ptr .. (ptr + len - 1)
<1>1. current \in BoundTask /\ get(as_arena, TaskAs[current]) = root
  BY OwnRoot DEF CopyInv, Complete
<1>2. Source(len) = [n \in 1 .. len |-> Source(len)[n]]
  BY DEF Source
<1>3. mem = [f \in DOMAIN mem |-> [i \in WordIndex |-> mem[f][i]]] /\ Private(mem)
  BY DEF CopyInv, IInv
<1>4. /\ Written(root, mem, mem', ptr, Source(len), len)
      /\ \A s \in BoundTask : \A vb \in SpanOf(s) : Agree(RootOf(s), mem, mem', page_of(vb))
  BY <1>1, <1>2, <1>3, CopyEffect
<1>5. ASSUME NEW va \in Addresses
      PROVE  WordOf(current, va)' = Data(<<None, va - ptr + 1>>)
  <2>1. va \in SpanOf(current)
    BY <1>1, WritableRange
  <2>2. Agree(root, mem, mem', page_of(va))
    BY <1>1, <1>4, <2>1
  <2>3. translate(root, mem', page_of(va)) = translate(root, mem, page_of(va))
    BY <2>2, WalkTables
  <2>4. WordOf(current, va)' = mem'[translate(root, mem', page_of(va)).frame][va % PageSize]
    BY <1>1 DEF WordOf, page_of, root, RootOf, get
  <2>5. Place(root, mem, va).frame = translate(root, mem, page_of(va)).frame
    BY DEF Place
  <2>6. Source(len)[va - ptr + 1] = Data(<<None, va - ptr + 1>>)
    <3>1. va - ptr + 1 \in 1 .. len
      OBVIOUS
    <3>2. QED
      BY <3>1 DEF Source
  <2>7. mem'[Place(root, mem, va).frame][va % PageSize] = Source(len)[va - ptr + 1]
    BY <1>4 DEF Written
  <2> HIDE DEF root
  <2>8. QED
    BY <2>3, <2>4, <2>5, <2>6, <2>7
<1>6. ASSUME NEW f \in DOMAIN mem, NEW i \in WordIndex, mem'[f][i] # mem[f][i]
      PROVE  \E va \in Addresses :
               va % PageSize = i /\ translate(get(as_arena, TaskAs[current]), mem, va - i).frame = f
  <2>1. PICK va \in Addresses : Place(root, mem, va) = [frame |-> f, at |-> i]
    BY <1>4, <1>6 DEF Written
  <2>2. translate(root, mem, page_of(va)).frame = f /\ va % PageSize = i
    BY <2>1 DEF Place
  <2>3. page_of(va) = va - i
    BY <2>2 DEF page_of
  <2>4. QED
    BY <1>1, <2>2, <2>3
<1>7. QED
  BY <1>5, <1>6

LEMMA CopyStep ==
  ASSUME CopyInv, [Next]_vars, Called, last'.args.nr = None
  PROVE  LET a == last'.args
             range == a.ptr .. (a.ptr + a.len - 1)
             writable == \A va \in range : Complete /\ UserByte(current, va, {"USER", "WRITE"})
         IN /\ (last'.ret.status = OK_STATUS) <=> writable
            /\ writable => \A va \in range : WordOf(current, va)' = Data(<<None, va - a.ptr + 1>>)
            /\ \A f \in DOMAIN mem, i \in WordIndex :
                 mem'[f][i] # mem[f][i] =>
                   writable /\ \E va \in range :
                     /\ va % PageSize = i
                     /\ translate(get(as_arena, TaskAs[current]), mem, va - i).frame = f
<1>1. PICK ptr \in Ptrs, len \in Lens : CopyToUser(ptr, len)
  BY CopySteps
<1> DEFINE range == ptr .. (ptr + len - 1)
           success == last'.ret.status = OK_STATUS
           writable == \A va \in range : Complete /\ UserByte(current, va, {"USER", "WRITE"})
           allowed == Writable(RootOf(current), mem, Span[current], ptr, len)
           Read == \A va \in range : WordOf(current, va)' = Data(<<None, va - ptr + 1>>)
           Hit(f, i) == \E va \in range :
                          /\ va % PageSize = i
                          /\ translate(get(as_arena, TaskAs[current]), mem, va - i).frame = f
           Goal == /\ success <=> writable
                   /\ writable => Read
                   /\ \A f \in DOMAIN mem, i \in WordIndex : mem'[f][i] # mem[f][i] => writable /\ Hit(f, i)
<1>2. /\ ptr \in Nat /\ len \in Nat
      /\ last'.args = Args(None, 0, ptr, len, 0)
      /\ UNCHANGED <<as_arena, current>>
      /\ \/ /\ Complete /\ current \in BoundTask /\ allowed /\ success
            /\ mem' = copy_to_user(RootOf(current), mem, ptr, Source(len))
         \/ Complete /\ current \in BoundTask /\ ~allowed /\ ~success /\ mem' = mem
         \/ ~Complete /\ (success <=> len = 0) /\ mem' = mem
  BY <1>1, CopyCall
<1>3. last'.args.ptr = ptr /\ last'.args.len = len
  BY <1>2 DEF Args
<1>4. Complete => (writable <=> allowed)
  BY WritableBytes, Zenon
<1>5. ASSUME Complete, allowed PROVE Goal
  <2>1. success /\ mem' = copy_to_user(RootOf(current), mem, ptr, Source(len))
    BY <1>2, <1>5
  <2>2. Read /\ \A f \in DOMAIN mem, i \in WordIndex : mem'[f][i] # mem[f][i] => Hit(f, i)
    BY <1>2, <1>5, <2>1, CopyWords
  <2> HIDE DEF Read, Hit, writable, allowed, success
  <2>3. QED
    BY <1>4, <1>5, <2>1, <2>2 DEF Goal
<1>6. ASSUME Complete, ~allowed PROVE Goal
  <2>1. ~success /\ mem' = mem
    BY <1>2, <1>6
  <2> HIDE DEF Read, Hit, writable, allowed, success
  <2>2. QED
    BY <1>4, <1>6, <2>1 DEF Goal
<1>7. ASSUME ~Complete PROVE Goal
  <2>1. (success <=> len = 0) /\ mem' = mem
    BY <1>2, <1>7
  <2>2. writable <=> range = {}
    BY <1>7
  <2>3. range = {} <=> len = 0
    BY <1>2
  <2>4. range = {} => Read
    OBVIOUS
  <2> HIDE DEF Read, Hit, writable, allowed, success, range
  <2>5. QED
    BY <2>1, <2>2, <2>3, <2>4 DEF Goal
<1> HIDE DEF allowed
<1>8. Goal
  BY <1>5, <1>6, <1>7, Zenon
<1>9. QED
  BY <1>3, <1>8

\* What copy_to_user relies on: a live handle reaches the root the task was
\* registered with, and no task may write a page table or one frame at two pages.
THEOREM CopyInvariant == Spec => []CopyInv
<1>1. QED
  BY CopyInitInv, CopyStepInv, PTL DEF Spec

\* copy_to_user: the words a task may write from end to end of the range take the
\* kernel's values as the task reads them, no other word of memory changes, and a
\* range with any other word is refused whole.
THEOREM CopyToUserCorrect == Spec => CopyToUserExact
<1> DEFINE a == last'.args
           range == a.ptr .. (a.ptr + a.len - 1)
           writable == \A va \in range : Complete /\ UserByte(current, va, {"USER", "WRITE"})
<1>1. ASSUME CopyInv, [Next]_vars
      PROVE  (Called /\ last'.args.nr = None) =>
               /\ (last'.ret.status = OK_STATUS) <=> writable
               /\ writable => \A va \in range : WordOf(current, va)' = Data(<<None, va - a.ptr + 1>>)
               /\ \A f \in DOMAIN mem, i \in WordIndex :
                    mem'[f][i] # mem[f][i] =>
                      writable /\ \E va \in range :
                        /\ va % PageSize = i
                        /\ translate(get(as_arena, TaskAs[current]), mem, va - i).frame = f
  BY <1>1, CopyStep, Zenon
<1>2. QED
  BY <1>1, CopyInvariant, PTL DEF Spec, CopyToUserExact
=============================================================================
