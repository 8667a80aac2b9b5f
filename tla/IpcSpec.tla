------------------------------- MODULE IpcSpec -------------------------------
(***************************************************************************)
(* The IPC primitives driven by arbitrary callers: each caller has its own *)
(* capability table and makes any call with any handle, endpoints come and *)
(* go, and their arena slots are reused.  Every action is one whole call,  *)
(* whatever its Result: the kernel is single-core and cooperative, so no   *)
(* call is interrupted.  Blocking and waking are SchedIpc's subject.       *)
(***************************************************************************)
EXTENDS Ipc

CONSTANTS
  Caller,        \* the tasks, one capability table each
  GrantRights    \* the rights sets in play: minted with, or asked for in a derive

\* Rights in play are rights, and an empty mailbox is not a full one.
ASSUME IpcSpecAssumption ==
  /\ GrantRights \subseteq SUBSET Rights
  /\ None \notin [msg : Message, cap : Capability \union {None}]

VARIABLES
  tables,       \* tables[p]: the CapabilityTable of caller p
  ep_arena,     \* the EndpointArena
  queues,       \* the IpcQueues
  notif_arena   \* the NotificationArena

vars == <<tables, ep_arena, queues, notif_arena>>

Init ==
  /\ tables = [p \in Caller |-> NewTable]
  /\ ep_arena = NewArena
  /\ queues = NewQueues
  /\ notif_arena = NewArena

Send(p, ep_cap, msg, xfer) ==
  LET r == ipc_send(ep_arena, queues, tables[p], ep_cap, msg, xfer)
  IN /\ tables' = [tables EXCEPT ![p] = r.table]
     /\ queues' = r.queues
     /\ UNCHANGED <<ep_arena, notif_arena>>

Recv(p, ep_cap) ==
  LET r == ipc_recv(ep_arena, queues, tables[p], ep_cap)
  IN /\ tables' = [tables EXCEPT ![p] = r.table]
     /\ queues' = r.queues
     /\ UNCHANGED <<ep_arena, notif_arena>>

CancelRecv(p, ep_cap) ==
  /\ queues' = ipc_cancel_recv(ep_arena, queues, tables[p], ep_cap).queues
  /\ UNCHANGED <<tables, ep_arena, notif_arena>>

Notify(p, notif_cap, bits) ==
  /\ ipc_notify_result(notif_arena, tables[p], notif_cap) = "Ok"
  /\ notif_arena' = ipc_notify(notif_arena, tables[p], notif_cap, bits)
  /\ UNCHANGED <<tables, ep_arena, queues>>

create_endpoint ==
  /\ ~arena_is_full(ep_arena)
  /\ ep_arena' = allocate(ep_arena, "endpoint")
  /\ UNCHANGED <<tables, queues, notif_arena>>

\* destroy_endpoint never looks at the queues.  Its callers destroy drained
\* endpoints only (the destruction invariant of reset_if_stale_generation) and,
\* as a bound, never until a slot's generation wraps.
Drained(h) == peek_state(queues, h).cap = None

destroy_endpoint(h) ==
  /\ contains(ep_arena, h)
  /\ Drained(h)
  /\ h.generation + 1 < ArenaGenModulus
  /\ ep_arena' = free(ep_arena, h)
  /\ UNCHANGED <<tables, queues, notif_arena>>

create_notification ==
  /\ ~arena_is_full(notif_arena)
  /\ notif_arena' = allocate(notif_arena, {})
  /\ UNCHANGED <<tables, ep_arena, queues>>

\* The kernel mints a root capability over a live object.
Grant(p, cap) ==
  /\ insert_root_result(tables[p]) = "Ok"
  /\ tables' = [tables EXCEPT ![p] = insert_root(tables[p], cap)]
  /\ UNCHANGED <<ep_arena, queues, notif_arena>>

\* A caller derives a child over the same object, or drops a capability.
Derive(p, src, r) ==
  /\ cap_derive_result(tables[p], src, r) = "Ok"
  /\ tables' = [tables EXCEPT ![p] =
                  cap_derive(tables[p], src, r, entry_of(tables[p], src).object)]
  /\ UNCHANGED <<ep_arena, queues, notif_arena>>

Drop(p, h) ==
  /\ cap_drop_result(tables[p], h) = "Ok"
  /\ tables' = [tables EXCEPT ![p] = cap_drop(tables[p], h)]
  /\ UNCHANGED <<ep_arena, queues, notif_arena>>

LiveObjects ==
  {EndpointObject(h) : h \in {id \in SlotId : contains(ep_arena, id)}}
  \union {NotificationObject(h) : h \in {id \in SlotId : contains(notif_arena, id)}}

Next ==
  \/ \E p \in Caller, h \in CapHandle, m \in Message, x \in CapHandle \union {None} : Send(p, h, m, x)
  \/ \E p \in Caller, h \in CapHandle : Recv(p, h)
  \/ \E p \in Caller, h \in CapHandle : CancelRecv(p, h)
  \/ \E p \in Caller, h \in CapHandle, b \in SUBSET Bits : Notify(p, h, b)
  \/ create_endpoint
  \/ create_notification
  \/ \E h \in SlotId : destroy_endpoint(h)
  \/ \E p \in Caller, r \in GrantRights, o \in LiveObjects : Grant(p, [rights |-> r, object |-> o])
  \/ \E p \in Caller, h \in CapHandle, r \in GrantRights : Derive(p, h, r)
  \/ \E p \in Caller, h \in CapHandle : Drop(p, h)

Spec == Init /\ [][Next]_vars

-----------------------------------------------------------------------------
(* Correctness.                                                            *)

\* The endpoints that exist now, and what they show to a caller.
LiveEndpoints == {h \in SlotId : contains(ep_arena, h)}

\* A capability in flight sits in the queue slot of a live endpoint and under
\* that endpoint's generation, so reset_if_stale_generation never drops one
\* and its debug_assert never fires.
InFlightReachable ==
  \A i \in SlotIndex : queues.states[i].cap # None =>
    [index |-> i, generation |-> queues.slot_generations[i]] \in LiveEndpoints

\* A new endpoint starts Idle: it inherits neither a waiting receiver nor a
\* message from the endpoint that used its slot before.
NothingInherited ==
  [][\A h \in LiveEndpoints' \ LiveEndpoints : peek_state(queues', h) = Idle]_vars

\* A registered receiver is forgotten only because a message was delivered to
\* it or the registration was cancelled: a send that fails on its transfer
\* (HasChildren in cap_take) leaves RecvWaiting in place.
ReceiverKept ==
  [][\A h \in LiveEndpoints \intersect LiveEndpoints' :
       peek_state(queues, h) = RecvWaiting =>
         \/ peek_state(queues', h).tag \in {"RecvWaiting", "RecvComplete"}
         \/ \E p \in Caller, c \in CapHandle : CancelRecv(p, c)]_vars

\* The abstract state the tables, queues and arena stand for.
Contents(h) ==
  IF h \in LiveEndpoints /\ Holding(peek_state(queues, h))
  THEN [msg |-> peek_state(queues, h).msg, cap |-> peek_state(queues, h).cap]
  ELSE None

CapAt(t, i) == [rights |-> t.entry[i].rights, object |-> t.entry[i].object]

Holdings(t) ==
  [c \in {CapAt(t, i) : i \in Live(t)} |-> Cardinality({i \in Live(t) : CapAt(t, i) = c})]

Grants(c, r, e) == r \in c.rights /\ (e # None => c.object = EndpointObject(e))

Box == INSTANCE Mailbox WITH
  Endpoint <- SlotId, Cap <- Capability, Allows <- Grants,
  box <- [h \in SlotId |-> Contents(h)],
  owned <- [p \in Caller |-> Holdings(tables[p])]

\* IPC implements Mailbox: messages and capabilities are neither lost, nor
\* duplicated, nor delivered to another endpoint than the one they were sent
\* to, and only callers that hold the right move them.
Mailboxes == Box!Spec
=============================================================================
