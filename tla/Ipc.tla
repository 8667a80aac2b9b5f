--------------------------------- MODULE Ipc ---------------------------------
(***************************************************************************)
(* kernel::ipc (kernel/src/ipc/mod.rs): rendezvous endpoints of depth one, *)
(* with optional transfer of one capability, and notification words.       *)
(*                                                                         *)
(* Each operation is an operator from the state it borrows (arena, queues, *)
(* caller's table) to a record of its Result and the state it leaves, so   *)
(* that the IPC machine (IpcSpec) and the scheduler bridge (SchedIpc) run  *)
(* the same code, as they do in the kernel.                                *)
(***************************************************************************)
EXTENDS CapTable, Arena

CONSTANTS
  Message,   \* message bodies: the kernel never inspects them
  Bits       \* the bits of a notification word

\* CapObject: a kind and, for arena-backed kinds, the object's SlotId.
EndpointObject(h) == [kind |-> "Endpoint", slot |-> h]
NotificationObject(h) == [kind |-> "Notification", slot |-> h]

ASSUME IpcAssumption ==
  /\ None \notin Message
  /\ \A h \in SlotId : {EndpointObject(h), NotificationObject(h)} \subseteq Objects
  /\ \A o \in Objects : /\ o.kind = "Endpoint" => \E h \in SlotId : o = EndpointObject(h)
                        /\ o.kind = "Notification" => \E h \in SlotId : o = NotificationObject(h)

-----------------------------------------------------------------------------
(* EndpointState and IpcQueues.                                            *)

Idle == [tag |-> "Idle", msg |-> None, cap |-> None]
RecvWaiting == [tag |-> "RecvWaiting", msg |-> None, cap |-> None]
SendPending(m, c) == [tag |-> "SendPending", msg |-> m, cap |-> c]
RecvComplete(m, c) == [tag |-> "RecvComplete", msg |-> m, cap |-> c]

\* The two states that hold a message, and possibly a capability in flight.
Holding(s) == s.tag \in {"SendPending", "RecvComplete"}

EndpointState ==
  {Idle, RecvWaiting}
  \union [tag : {"SendPending", "RecvComplete"}, msg : Message, cap : Capability \union {None}]

IpcQueues == [states : [SlotIndex -> EndpointState],
              slot_generations : [SlotIndex -> SlotGeneration]]

NewQueues == [states           |-> [i \in SlotIndex |-> Idle],
              slot_generations |-> [i \in SlotIndex |-> 0]]

\* Mutant: the waiter state of the slot's previous endpoint is kept.
ResetForgotten(q, h) ==
  [states           |-> q.states,
   slot_generations |-> [q.slot_generations EXCEPT ![h.index] = h.generation]]

\* The first access under another generation empties the slot.
reset_if_stale_generation(q, h) ==
  IF q.slot_generations[h.index] = h.generation THEN q
  ELSE [states           |-> [q.states EXCEPT ![h.index] = Idle],
        slot_generations |-> [q.slot_generations EXCEPT ![h.index] = h.generation]]

\* peek_state and the write through state_of.
peek_state(q, h) == reset_if_stale_generation(q, h).states[h.index]

set_state(q, h, s) ==
  LET r == reset_if_stale_generation(q, h)
  IN [states           |-> [r.states EXCEPT ![h.index] = s],
      slot_generations |-> r.slot_generations]

-----------------------------------------------------------------------------
(* Capability checks, in the order StaleHandle, WrongObjectKind, MissingRight. *)

validate_cap(t, h, kind, required) ==
  IF ~resolves(t, h) THEN "StaleHandle"
  ELSE IF entry_of(t, h).object.kind # kind THEN "WrongObjectKind"
  ELSE IF required \notin entry_of(t, h).rights THEN "MissingRight"
  ELSE "Ok"

validate_ep_cap(t, h, required) == validate_cap(t, h, "Endpoint", required)
validate_notif_cap(t, h) == validate_cap(t, h, "Notification", "NOTIFY")

\* The object handle behind a capability that resolved.
handle_of(t, h) == entry_of(t, h).object.slot

\* The pre-flight check of ipc_send on the capability to transfer.
transferable(t, xfer) == resolves(t, xfer) /\ "TRANSFER" \in entry_of(t, xfer).rights

\* take_cap_if_some and install_cap_if_some.
taken(t, xfer) == IF xfer = None THEN None ELSE lookup(t, xfer)
take_cap_if_some(t, xfer) == IF xfer = None THEN t ELSE cap_take(t, xfer)
install_cap_if_some(t, cap) == IF cap = None THEN t ELSE insert_root(t, cap)

-----------------------------------------------------------------------------
(* The operations.                                                         *)

\* What a call returns and the queues and table it leaves.
Outcome(result, queues, table) == [result |-> result, queues |-> queues, table |-> table]

\* Mutant: the arena is not consulted, so a destroyed endpoint takes messages.
SendSkipsArena(a, t, ep_cap, xfer) ==
  IF validate_ep_cap(t, ep_cap, "SEND") # "Ok" THEN validate_ep_cap(t, ep_cap, "SEND")
  ELSE IF xfer # None /\ ~transferable(t, xfer) THEN "InvalidTransferCap"
  ELSE "Ok"

\* The checks of ipc_send before the endpoint's queue is looked at.
send_preflight(a, t, ep_cap, xfer) ==
  IF validate_ep_cap(t, ep_cap, "SEND") # "Ok" THEN validate_ep_cap(t, ep_cap, "SEND")
  ELSE IF xfer # None /\ ~transferable(t, xfer) THEN "InvalidTransferCap"
  ELSE IF ~contains(a, handle_of(t, ep_cap)) THEN "StaleHandle"
  ELSE "Ok"

\* The rest of ipc_send: queue-full check, cap_take, state transition.
send_result(q, t, h, xfer) ==
  IF Holding(peek_state(q, h)) THEN "QueueFull"
  ELSE IF xfer # None /\ cap_drop_result(t, xfer) # "Ok" THEN "InvalidTransferCap"
  ELSE IF peek_state(q, h) = RecvWaiting THEN "Delivered"
  ELSE "Enqueued"

\* Mutant: the waiting receiver is consumed before cap_take can fail.
SendCommitsEarly(q, h, r, msg, cap) ==
  IF r = "Delivered" THEN set_state(q, h, RecvComplete(msg, cap))
  ELSE IF r = "Enqueued" THEN set_state(q, h, SendPending(msg, cap))
  ELSE IF r = "InvalidTransferCap" THEN set_state(q, h, Idle)
  ELSE reset_if_stale_generation(q, h)

send_queues(q, h, r, msg, cap) ==
  IF r = "Delivered" THEN set_state(q, h, RecvComplete(msg, cap))
  ELSE IF r = "Enqueued" THEN set_state(q, h, SendPending(msg, cap))
  ELSE reset_if_stale_generation(q, h)

ipc_send(a, q, t, ep_cap, msg, xfer) ==
  LET h == handle_of(t, ep_cap)
      r == send_result(q, t, h, xfer)
  IN IF send_preflight(a, t, ep_cap, xfer) # "Ok"
       THEN Outcome(send_preflight(a, t, ep_cap, xfer), q, t)
     ELSE Outcome(r, send_queues(q, h, r, msg, taken(t, xfer)),
                  IF r \in {"Delivered", "Enqueued"} THEN take_cap_if_some(t, xfer) ELSE t)

\* The checks that ipc_recv and ipc_cancel_recv share.
recv_preflight(a, t, ep_cap) ==
  IF validate_ep_cap(t, ep_cap, "RECV") # "Ok" THEN validate_ep_cap(t, ep_cap, "RECV")
  ELSE IF ~contains(a, handle_of(t, ep_cap)) THEN "StaleHandle"
  ELSE "Ok"

\* The rest of ipc_recv: room for the capability, then by endpoint state.
recv_result(q, t, h) ==
  LET s == peek_state(q, h)
  IN IF s.cap # None /\ is_full(t) THEN "ReceiverTableFull"
     ELSE IF Holding(s) THEN "Received"
     ELSE IF s = Idle THEN "Pending"
     ELSE "QueueFull"

\* Mutant: a full receiver table loses the message and its capability.
RecvDropsCap(q, h, r) ==
  IF r \in {"Received", "ReceiverTableFull"} THEN set_state(q, h, Idle)
  ELSE IF r = "Pending" THEN set_state(q, h, RecvWaiting)
  ELSE reset_if_stale_generation(q, h)

recv_queues(q, h, r) ==
  IF r = "Received" THEN set_state(q, h, Idle)
  ELSE IF r = "Pending" THEN set_state(q, h, RecvWaiting)
  ELSE reset_if_stale_generation(q, h)

ipc_recv(a, q, t, ep_cap) ==
  LET h == handle_of(t, ep_cap)
      r == recv_result(q, t, h)
  IN IF recv_preflight(a, t, ep_cap) # "Ok" THEN Outcome(recv_preflight(a, t, ep_cap), q, t)
     ELSE Outcome(r, recv_queues(q, h, r),
                  IF r = "Received" THEN install_cap_if_some(t, peek_state(q, h).cap) ELSE t)

\* Mutant: the cancel does nothing.
CancelForgotten(a, q, t, ep_cap) == Outcome("Ok", q, t)

\* ipc_cancel_recv undoes a registration; a parked message survives it.
ipc_cancel_recv(a, q, t, ep_cap) ==
  LET h == handle_of(t, ep_cap)
  IN IF recv_preflight(a, t, ep_cap) # "Ok" THEN Outcome(recv_preflight(a, t, ep_cap), q, t)
     ELSE IF peek_state(q, h) = RecvWaiting THEN Outcome("Ok", set_state(q, h, Idle), t)
     ELSE Outcome("Ok", reset_if_stale_generation(q, h), t)

\* ipc_notify: its Result, and the arena after Notification::set ORs the bits in.
ipc_notify_result(na, t, notif_cap) ==
  IF validate_notif_cap(t, notif_cap) # "Ok" THEN validate_notif_cap(t, notif_cap)
  ELSE IF ~contains(na, handle_of(t, notif_cap)) THEN "StaleHandle"
  ELSE "Ok"

ipc_notify(na, t, notif_cap, bits) ==
  LET h == handle_of(t, notif_cap)
  IN update(na, h, get(na, h) \union bits)
=============================================================================
