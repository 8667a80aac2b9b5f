------------------------------ MODULE IpcProofs ------------------------------
(***************************************************************************)
(* Proofs about the IPC machine, for every number of callers, endpoints    *)
(* and generations: what keeps the queues and the endpoint arena, two      *)
(* structures that are never updated together, in agreement.               *)
(***************************************************************************)
EXTENDS IpcSpec, KernelLemmas

-----------------------------------------------------------------------------
(* The inductive invariant.                                                *)

Typed ==
  /\ tables \in [Caller -> CapabilityTable]
  /\ \A p \in Caller : WellFormed(tables[p])
  /\ queues \in IpcQueues
  /\ ep_arena \in ArenaOf({"endpoint"})

\* A queue slot lags behind its arena slot, never ahead of it.  Where both are
\* at one generation and the arena slot is free, nobody has used the queue
\* slot, and a capability is in flight only under a live endpoint.
Agree(q, a) ==
  \A i \in SlotIndex :
    /\ q.slot_generations[i] <= a.generation[i]
    /\ (q.slot_generations[i] = a.generation[i] /\ a.entry[i] = None) => q.states[i] = Idle
    /\ q.states[i].cap # None => /\ q.slot_generations[i] = a.generation[i]
                                 /\ a.entry[i] # None

IInv == Typed /\ Agree(queues, ep_arena)

LEMMA InitIInv == Init => IInv
<1> SUFFICES ASSUME Init PROVE IInv
  OBVIOUS
<1>1. 0 \in SlotIndex /\ 0 \in SlotGeneration
  BY ArenaAssumption DEF SlotIndex, SlotGeneration
<1>2. queues \in IpcQueues
  BY <1>1, StateTypes DEF Init, NewQueues, IpcQueues
<1>3. ep_arena \in ArenaOf({"endpoint"})
  <2>1. \A i \in SlotIndex : i + 1 < ArenaCapacity => i + 1 \in SlotIndex
    BY ArenaAssumption DEF SlotIndex
  <2>2. QED
    BY <1>1, <2>1 DEF Init, NewArena, ArenaOf
<1>4. Typed
  BY <1>2, <1>3, NewTableType, NewTableWellFormed DEF Init, Typed
<1>5. Agree(queues, ep_arena)
  BY DEF Init, NewQueues, NewArena, Agree, Idle
<1>6. QED
  BY <1>4, <1>5 DEF IInv

\* A call through a live endpoint's capability keeps the agreement.
LEMMA AccessAgrees ==
  ASSUME NEW q \in IpcQueues, NEW a \in ArenaOf({"endpoint"}), Agree(q, a),
         NEW h \in SlotId, contains(a, h)
  PROVE  /\ Agree(reset_if_stale_generation(q, h), a)
         /\ \A s \in EndpointState : Agree(set_state(q, h, s), a)
<1>1. /\ h.index \in SlotIndex /\ a.generation[h.index] = h.generation /\ a.entry[h.index] # None
      /\ a.generation[h.index] \in Nat
      /\ q.slot_generations \in [SlotIndex -> SlotGeneration]
  BY ArenaAssumption DEF contains, SlotId, ArenaOf, IpcQueues, SlotGeneration
<1>2. ASSUME NEW u \in IpcQueues,
             u.slot_generations = [q.slot_generations EXCEPT ![h.index] = h.generation],
             \A i \in SlotIndex \ {h.index} : u.states[i] = q.states[i]
      PROVE  Agree(u, a)
  <2>1. u.slot_generations[h.index] = h.generation
    BY <1>1, <1>2
  <2>2. \A i \in SlotIndex \ {h.index} : u.slot_generations[i] = q.slot_generations[i]
    BY <1>1, <1>2
  <2>3. QED
    BY <1>1, <1>2, <2>1, <2>2 DEF Agree
<1>3. Agree(reset_if_stale_generation(q, h), a)
  BY <1>2, ResetFields
<1>4. \A s \in EndpointState : Agree(set_state(q, h, s), a)
  BY <1>2, SetFields
<1>5. QED
  BY <1>3, <1>4

\* What a call may do to the queues: nothing, or access one live endpoint.
Accessed(q, a, u) ==
  \/ u = q
  \/ \E h \in SlotId : /\ contains(a, h)
                       /\ \/ u = reset_if_stale_generation(q, h)
                          \/ \E s \in EndpointState : u = set_state(q, h, s)

LEMMA SendAccesses ==
  ASSUME NEW a, NEW q \in IpcQueues, NEW t, NEW c, NEW m \in Message, NEW x, NEW r,
         SendOutcome(a, q, t, c, m, x, r)
  PROVE  Accessed(q, a, r.queues)
<1>1. CASE Untouched(a, q, t, c, "SEND", r)
  BY <1>1 DEF Untouched, Grip, Accessed
<1>2. ASSUME Grip(a, t, c, "SEND"), NEW s \in EndpointState,
             r.queues = set_state(q, handle_of(t, c), s)
      PROVE  Accessed(q, a, r.queues)
  BY <1>2 DEF Grip, Accessed
<1>3. QED
  BY <1>1, <1>2, StateTypes DEF SendOutcome

LEMMA RecvAccesses ==
  ASSUME NEW a, NEW q \in IpcQueues, NEW t, NEW c, NEW r, RecvOutcome(a, q, t, c, r)
  PROVE  Accessed(q, a, r.queues)
<1>1. CASE Untouched(a, q, t, c, "RECV", r)
  BY <1>1 DEF Untouched, Grip, Accessed
<1>2. ASSUME Grip(a, t, c, "RECV"), NEW s \in EndpointState,
             r.queues = set_state(q, handle_of(t, c), s)
      PROVE  Accessed(q, a, r.queues)
  BY <1>2 DEF Grip, Accessed
<1>3. QED
  BY <1>1, <1>2, StateTypes DEF RecvOutcome

LEMMA CancelAccesses ==
  ASSUME NEW a, NEW q \in IpcQueues, NEW t, NEW c, NEW r, CancelOutcome(a, q, t, c, r)
  PROVE  Accessed(q, a, r.queues)
  BY StateTypes DEF CancelOutcome, Grip, Accessed

\* The calls that use the queues, and what they do to the caller's table.
LEMMA CallStep ==
  ASSUME IInv, NEW p \in Caller, NEW u \in CapabilityTable, WellFormed(u),
         tables' = [tables EXCEPT ![p] = u] \/ tables' = tables,
         queues' \in IpcQueues, Accessed(queues, ep_arena, queues'), UNCHANGED ep_arena
  PROVE  IInv'
<1>1. Typed'
  BY DEF IInv, Typed
<1>2. Agree(queues', ep_arena)
  BY AccessAgrees DEF IInv, Typed, Accessed
<1>3. QED
  BY <1>1, <1>2 DEF IInv

LEMMA SendStep ==
  ASSUME IInv, NEW p \in Caller, NEW c \in CapHandle, NEW m \in Message,
         NEW x \in CapHandle \union {None}, Send(p, c, m, x)
  PROVE  IInv'
<1> DEFINE r == ipc_send(ep_arena, queues, tables[p], c, m, x)
<1>1. /\ tables[p] \in CapabilityTable /\ WellFormed(tables[p]) /\ queues \in IpcQueues
  BY DEF IInv, Typed
<1>2. /\ r.table \in CapabilityTable /\ WellFormed(r.table) /\ r.queues \in IpcQueues
      /\ SendOutcome(ep_arena, queues, tables[p], c, m, x, r)
  BY <1>1, SendCases
<1>3. tables' = [tables EXCEPT ![p] = r.table] /\ queues' = r.queues /\ UNCHANGED ep_arena
  BY DEF Send
<1> HIDE DEF r
<1>4. QED
  BY <1>1, <1>2, <1>3, SendAccesses, CallStep

LEMMA RecvStep ==
  ASSUME IInv, NEW p \in Caller, NEW c \in CapHandle, Recv(p, c)
  PROVE  IInv'
<1> DEFINE r == ipc_recv(ep_arena, queues, tables[p], c)
<1>1. /\ tables[p] \in CapabilityTable /\ WellFormed(tables[p]) /\ queues \in IpcQueues
  BY DEF IInv, Typed
<1>2. /\ r.table \in CapabilityTable /\ WellFormed(r.table) /\ r.queues \in IpcQueues
      /\ RecvOutcome(ep_arena, queues, tables[p], c, r)
  BY <1>1, RecvCases
<1>3. tables' = [tables EXCEPT ![p] = r.table] /\ queues' = r.queues /\ UNCHANGED ep_arena
  BY DEF Recv
<1> HIDE DEF r
<1>4. QED
  BY <1>1, <1>2, <1>3, RecvAccesses, CallStep

LEMMA CancelStep ==
  ASSUME IInv, NEW p \in Caller, NEW c \in CapHandle, CancelRecv(p, c)
  PROVE  IInv'
<1> DEFINE r == ipc_cancel_recv(ep_arena, queues, tables[p], c)
<1>1. /\ tables[p] \in CapabilityTable /\ WellFormed(tables[p]) /\ queues \in IpcQueues
  BY DEF IInv, Typed
<1>2. r.queues \in IpcQueues /\ CancelOutcome(ep_arena, queues, tables[p], c, r)
  BY <1>1, CancelCases
<1>3. tables' = tables /\ queues' = r.queues /\ UNCHANGED ep_arena
  BY DEF CancelRecv
<1> HIDE DEF r
<1>4. QED
  BY <1>1, <1>2, <1>3, CancelAccesses, CallStep

-----------------------------------------------------------------------------
(* The endpoints that come and go.                                         *)

LEMMA ArenaFields ==
  ASSUME NEW a \in ArenaOf({"endpoint"})
  PROVE  /\ a.entry \in [SlotIndex -> {"endpoint", None}]
         /\ a.generation \in [SlotIndex -> SlotGeneration]
         /\ a.next_free \in [SlotIndex -> SlotIndex \union {None}]
         /\ a.free_head \in SlotIndex \union {None}
         /\ \A i \in SlotIndex : a.generation[i] \in Nat
  BY ArenaAssumption DEF ArenaOf, SlotGeneration

\* create_endpoint fills a slot and keeps its generation.
LEMMA CreateStep ==
  ASSUME IInv, create_endpoint
  PROVE  IInv'
<1> DEFINE n == ep_arena.free_head
<1>1. /\ ep_arena' = allocate(ep_arena, "endpoint")
      /\ tables' = tables /\ queues' = queues
      /\ n # None
  BY DEF create_endpoint, arena_is_full
<1>2. n \in SlotIndex
  BY <1>1, ArenaFields DEF IInv, Typed
<1>3. /\ ep_arena'.entry = [ep_arena.entry EXCEPT ![n] = "endpoint"]
      /\ ep_arena'.generation = ep_arena.generation
  BY <1>1 DEF allocate
<1>4. ep_arena' \in ArenaOf({"endpoint"})
  BY <1>1, <1>2, ArenaFields DEF IInv, Typed, allocate, ArenaOf
<1>5. Typed'
  BY <1>1, <1>4 DEF IInv, Typed
<1>6. \A i \in SlotIndex : ep_arena'.entry[i] = None => ep_arena.entry[i] = None
  BY <1>2, <1>3, ArenaFields DEF IInv, Typed
<1>7. \A i \in SlotIndex : ep_arena.entry[i] # None => ep_arena'.entry[i] # None
  <2>1. ASSUME NEW i \in SlotIndex, ep_arena.entry[i] # None
        PROVE  ep_arena'.entry[i] # None
    <3>1. ep_arena.entry[i] = "endpoint"
      BY <2>1, ArenaFields DEF IInv, Typed
    <3>2. "endpoint" # None
      BY <2>1, <3>1
    <3>3. QED
      BY <1>2, <1>3, <2>1, <3>2, ArenaFields DEF IInv, Typed
  <2>2. QED
    BY <2>1
<1>8. Agree(queues', ep_arena')
  BY <1>1, <1>3, <1>6, <1>7 DEF IInv, Agree
<1>9. QED
  BY <1>5, <1>8 DEF IInv

\* destroy_endpoint empties a slot no capability is parked in, and the
\* generation moves on: the queue slot is left behind.
LEMMA DestroyStep ==
  ASSUME IInv, NEW h \in SlotId, destroy_endpoint(h)
  PROVE  IInv'
<1> DEFINE i == h.index
<1>1. /\ ep_arena' = free(ep_arena, h)
      /\ tables' = tables /\ queues' = queues
      /\ contains(ep_arena, h) /\ peek_state(queues, h).cap = None
      /\ h.generation + 1 < ArenaGenModulus
  BY DEF destroy_endpoint, Drained
<1>2. i \in SlotIndex /\ ep_arena.generation[i] = h.generation /\ h.generation \in Nat
  BY <1>1, ArenaAssumption DEF contains, SlotId, SlotGeneration
<1>3. (ep_arena.generation[i] + 1) % ArenaGenModulus = h.generation + 1
  BY <1>1, <1>2, ArenaAssumption
<1>4. /\ ep_arena'.entry = [ep_arena.entry EXCEPT ![i] = None]
      /\ ep_arena'.generation = [ep_arena.generation EXCEPT ![i] = h.generation + 1]
      /\ ep_arena'.next_free = [ep_arena.next_free EXCEPT ![i] = ep_arena.free_head]
      /\ ep_arena'.free_head = i
      /\ ep_arena' = [entry |-> ep_arena'.entry, generation |-> ep_arena'.generation,
                      next_free |-> ep_arena'.next_free, free_head |-> ep_arena'.free_head]
  BY <1>1, <1>3 DEF free
<1>5. h.generation + 1 \in SlotGeneration
  BY <1>1, <1>2, ArenaAssumption DEF SlotGeneration
<1>6. ep_arena' \in ArenaOf({"endpoint"})
  <2>1. /\ ep_arena'.entry \in [SlotIndex -> {"endpoint"} \union {None}]
        /\ ep_arena'.generation \in [SlotIndex -> SlotGeneration]
        /\ ep_arena'.next_free \in [SlotIndex -> SlotIndex \union {None}]
        /\ ep_arena'.free_head \in SlotIndex \union {None}
    BY <1>2, <1>4, <1>5, ArenaFields DEF IInv, Typed
  <2>2. QED
    BY <1>4, <2>1 DEF ArenaOf
<1>7. Typed'
  BY <1>1, <1>6 DEF IInv, Typed
<1>8. queues \in IpcQueues /\ queues.slot_generations[i] \in Nat
  BY <1>2, ArenaAssumption DEF IInv, Typed, IpcQueues, SlotGeneration
<1>9. /\ queues.slot_generations[i] <= h.generation
      /\ queues.states[i].cap = None
  <2>1. /\ queues.slot_generations[i] <= h.generation
        /\ queues.states[i].cap # None => queues.slot_generations[i] = h.generation
    BY <1>2 DEF IInv, Agree
  <2>2. QED
    BY <1>1, <1>8, <2>1, PeekType
<1>10. /\ ep_arena'.generation[i] = h.generation + 1
       /\ \A j \in SlotIndex \ {i} : /\ ep_arena'.generation[j] = ep_arena.generation[j]
                                     /\ ep_arena'.entry[j] = ep_arena.entry[j]
  BY <1>2, <1>4, ArenaFields DEF IInv, Typed
<1>11. Agree(queues, ep_arena')
  <2>1. SUFFICES ASSUME NEW j \in SlotIndex
                 PROVE  /\ queues.slot_generations[j] <= ep_arena'.generation[j]
                        /\ (queues.slot_generations[j] = ep_arena'.generation[j]
                              /\ ep_arena'.entry[j] = None) => queues.states[j] = Idle
                        /\ queues.states[j].cap # None =>
                             /\ queues.slot_generations[j] = ep_arena'.generation[j]
                             /\ ep_arena'.entry[j] # None
    BY DEF Agree
  <2>2. CASE j = i
    BY <1>2, <1>8, <1>9, <1>10, <2>2
  <2>3. CASE j # i
    BY <1>10, <2>3 DEF IInv, Agree
  <2>4. QED
    BY <2>2, <2>3
<1>12. QED
  BY <1>1, <1>7, <1>11 DEF IInv

-----------------------------------------------------------------------------
(* The table operations.                                                   *)

\* A call that replaces one caller's table by a well-formed one.
LEMMA TableStep ==
  ASSUME IInv, NEW p \in Caller, NEW u \in CapabilityTable, WellFormed(u),
         tables' = [tables EXCEPT ![p] = u], UNCHANGED <<ep_arena, queues>>
  PROVE  IInv'
  BY DEF IInv, Typed

\* What Grant mints.
LEMMA GrantedType ==
  ASSUME NEW r \in GrantRights, NEW o \in LiveObjects
  PROVE  [rights |-> r, object |-> o] \in Capability
<1>1. r \in SUBSET Rights
  BY IpcSpecAssumption
<1>2. o \in Objects
  BY IpcAssumption DEF LiveObjects
<1>3. QED
  BY <1>1, <1>2 DEF Capability

\* What Grant, Derive and Drop do to the caller's table.
LEMMA GrantEffect ==
  ASSUME IInv, NEW p \in Caller, NEW cap \in Capability, Grant(p, cap)
  PROVE  \E u \in CapabilityTable :
           /\ WellFormed(u)
           /\ tables' = [tables EXCEPT ![p] = u]
           /\ NewLinks(tables[p], cap, None, 0, u, tables[p].free_head)
<1>1. tables[p] \in CapabilityTable /\ WellFormed(tables[p]) /\ ~is_full(tables[p])
  BY DEF IInv, Typed, Grant, insert_root_result
<1>2. QED
  BY <1>1, InsertRootPreserves DEF Grant

LEMMA DeriveEffect ==
  ASSUME IInv, NEW p \in Caller, NEW src \in CapHandle, NEW r \in GrantRights,
         Derive(p, src, r)
  PROVE  \E u \in CapabilityTable, cap \in Capability, d \in Nat :
           /\ WellFormed(u)
           /\ tables' = [tables EXCEPT ![p] = u]
           /\ NewLinks(tables[p], cap, src.index, d, u, tables[p].free_head)
<1> DEFINE t == tables[p]
           e == t.entry[src.index]
           cap == [rights |-> r, object |-> e.object]
<1>1. resolves(t, src) /\ r \subseteq e.rights /\ ~is_full(t) /\ ~(e.depth + 1 > MaxDepth)
  BY DEF Derive, cap_derive_result, entry_of
<1>2. t \in CapabilityTable /\ WellFormed(t)
  BY DEF IInv, Typed
<1>3. src.index \in Live(t) /\ e \in Entry /\ src.index # None
  BY <1>1, <1>2, ResolvedIsLive, TableFields, LinkFacts
<1>4. cap \in Capability
  BY <1>3, IpcSpecAssumption DEF Capability, Entry
<1>5. e.depth + 1 \in 0 .. MaxDepth
  <2>1. e.depth \in 0 .. MaxDepth
    BY <1>3 DEF Entry
  <2> HIDE DEF e
  <2>2. QED
    BY <1>1, <2>1, CapTableAssumption
<1>6. FitsUnder(t, cap, src.index, e.depth + 1)
  BY <1>1, <1>3 DEF FitsUnder
<1>7. tables' = [tables EXCEPT ![p] = install(t, cap, src.index, e.depth + 1)]
  BY DEF Derive, cap_derive, entry_of
<1>8. src.index \in Live(t) \union {None} /\ e.depth + 1 \in Nat
  BY <1>3, <1>5
<1> HIDE DEF t, e, cap
<1>9. LET u == install(t, cap, src.index, e.depth + 1)
      IN /\ u \in CapabilityTable /\ WellFormed(u)
         /\ NewLinks(t, cap, src.index, e.depth + 1, u, t.free_head)
  BY <1>1, <1>2, <1>4, <1>5, <1>6, <1>8, InstallPreserves
<1>10. QED
  BY <1>4, <1>7, <1>8, <1>9 DEF t

LEMMA DropEffect ==
  ASSUME IInv, NEW p \in Caller, NEW h \in CapHandle, Drop(p, h)
  PROVE  \E u \in CapabilityTable :
           /\ WellFormed(u)
           /\ tables' = [tables EXCEPT ![p] = u]
           /\ h.index \in Live(tables[p])
           /\ Dropped(tables[p], u, h.index)
<1>1. /\ tables[p] \in CapabilityTable /\ WellFormed(tables[p])
      /\ cap_drop_result(tables[p], h) = "Ok"
      /\ tables' = [tables EXCEPT ![p] = cap_take(tables[p], h)]
  BY DEF IInv, Typed, Drop, cap_take
<1>2. QED
  BY <1>1, TakePreserves

LEMMA NextIInv ==
  ASSUME IInv, [Next]_vars
  PROVE  IInv'
<1>1. ASSUME NEW p \in Caller, NEW h \in CapHandle, NEW m \in Message,
             NEW x \in CapHandle \union {None}, Send(p, h, m, x)
      PROVE  IInv'
  BY <1>1, SendStep
<1>2. ASSUME NEW p \in Caller, NEW h \in CapHandle, Recv(p, h)
      PROVE  IInv'
  BY <1>2, RecvStep
<1>3. ASSUME NEW p \in Caller, NEW h \in CapHandle, CancelRecv(p, h)
      PROVE  IInv'
  BY <1>3, CancelStep
<1>4. ASSUME NEW p \in Caller, NEW h \in CapHandle, NEW b, Notify(p, h, b)
      PROVE  IInv'
  BY <1>4 DEF Notify, IInv, Typed
<1>5. CASE create_endpoint
  BY <1>5, CreateStep
<1>6. CASE create_notification
  BY <1>6 DEF create_notification, IInv, Typed
<1>7. ASSUME NEW h \in SlotId, destroy_endpoint(h)
      PROVE  IInv'
  BY <1>7, DestroyStep
<1>8. ASSUME NEW p \in Caller, NEW r \in GrantRights, NEW o \in LiveObjects,
             Grant(p, [rights |-> r, object |-> o])
      PROVE  IInv'
  <2>1. UNCHANGED <<ep_arena, queues>>
    BY <1>8 DEF Grant
  <2>2. QED
    BY <1>8, <2>1, GrantedType, GrantEffect, TableStep
<1>9. ASSUME NEW p \in Caller, NEW h \in CapHandle, NEW r \in GrantRights, Derive(p, h, r)
      PROVE  IInv'
  <2>1. UNCHANGED <<ep_arena, queues>>
    BY <1>9 DEF Derive
  <2>2. QED
    BY <1>9, <2>1, DeriveEffect, TableStep
<1>10. ASSUME NEW p \in Caller, NEW h \in CapHandle, Drop(p, h)
       PROVE  IInv'
  <2>1. UNCHANGED <<ep_arena, queues>>
    BY <1>10 DEF Drop
  <2>2. QED
    BY <1>10, <2>1, DropEffect, TableStep
<1>11. CASE UNCHANGED vars
  BY <1>11 DEF vars, IInv, Typed
<1>12. QED
  BY <1>1, <1>2, <1>3, <1>4, <1>5, <1>6, <1>7, <1>8, <1>9, <1>10, <1>11 DEF Next

\* The queues and the endpoint arena stay in agreement and every caller's table
\* stays well formed, whatever calls are made in whatever order.
THEOREM IpcInvariant == Spec => []IInv
<1>1. IInv /\ [Next]_vars => IInv'
  BY NextIInv
<1>2. QED
  BY <1>1, InitIInv, PTL DEF Spec

-----------------------------------------------------------------------------
(* What the invariant gives.                                               *)

\* No capability in flight is ever stranded: it sits under a live endpoint, so
\* reset_if_stale_generation never drops one.
THEOREM InFlightCorrect == Spec => []InFlightReachable
<1>1. IInv => InFlightReachable
  <2>1. SUFFICES ASSUME IInv, NEW i \in SlotIndex, queues.states[i].cap # None
                 PROVE  [index |-> i, generation |-> queues.slot_generations[i]] \in LiveEndpoints
    BY DEF InFlightReachable
  <2>2. /\ queues.slot_generations[i] = ep_arena.generation[i]
        /\ ep_arena.entry[i] # None
    BY <2>1 DEF IInv, Agree
  <2>3. queues.slot_generations[i] \in SlotGeneration
    BY <2>1 DEF IInv, Typed, IpcQueues
  <2>4. QED
    BY <2>2, <2>3 DEF LiveEndpoints, SlotId, contains
<1>2. QED
  BY <1>1, IpcInvariant, PTL

\* Two live handles on one slot are the same handle.
LEMMA LiveUnique ==
  ASSUME NEW g \in SlotId, NEW h \in SlotId, NEW a, contains(a, g), contains(a, h),
         g.index = h.index
  PROVE  g = h
  BY DEF SlotId, contains

\* Only create_endpoint and destroy_endpoint change the arena.
LEMMA ArenaSteps ==
  ASSUME [Next]_vars
  PROVE  \/ ep_arena' = ep_arena
         \/ create_endpoint
         \/ \E h \in SlotId : destroy_endpoint(h)
  BY DEF Next, Send, Recv, CancelRecv, Notify, create_notification, Grant, Derive, Drop, vars

\* A new endpoint starts Idle, whatever the slot's last endpoint left in the
\* queues: destroy_endpoint never looks at them.
THEOREM NothingInheritedCorrect == Spec => NothingInherited
<1> DEFINE A == \A h \in LiveEndpoints' \ LiveEndpoints : peek_state(queues', h) = Idle
<1>1. IInv /\ [Next]_vars => A
  <2>1. SUFFICES ASSUME IInv, [Next]_vars, NEW h \in SlotId,
                        contains(ep_arena', h), ~contains(ep_arena, h)
                 PROVE  peek_state(queues', h) = Idle
    BY DEF LiveEndpoints
  <2>2. h.index \in SlotIndex
    BY DEF SlotId
  <2>3. CASE ep_arena' = ep_arena
    BY <2>1, <2>3
  <2>4. CASE create_endpoint
    <3>1. /\ queues' = queues /\ ep_arena'.generation = ep_arena.generation
      BY <2>4 DEF create_endpoint, allocate
    <3>2. ep_arena.generation[h.index] = h.generation /\ ep_arena.entry[h.index] = None
      BY <2>1, <3>1 DEF contains
    <3>3. queues.slot_generations[h.index] = h.generation => queues.states[h.index] = Idle
      BY <2>1, <2>2, <3>2 DEF IInv, Agree
    <3>4. QED
      BY <2>1, <3>1, <3>3, PeekType DEF IInv, Typed
  <2>5. ASSUME NEW g \in SlotId, destroy_endpoint(g)
        PROVE  FALSE
    <3>1. /\ g.index \in SlotIndex
          /\ ep_arena'.entry = [ep_arena.entry EXCEPT ![g.index] = None]
          /\ ep_arena'.generation = [ep_arena.generation EXCEPT ![g.index] =
               (ep_arena.generation[g.index] + 1) % ArenaGenModulus]
      BY <2>5 DEF destroy_endpoint, free, SlotId
    <3>2. h.index # g.index
      BY <2>1, <2>2, <3>1, ArenaFields DEF contains, IInv, Typed
    <3>3. contains(ep_arena, h)
      BY <2>1, <2>2, <3>1, <3>2, ArenaFields DEF contains, IInv, Typed
    <3>4. QED
      BY <2>1, <3>3
  <2>6. QED
    BY <2>1, <2>3, <2>4, <2>5, ArenaSteps
<1>2. QED
  BY <1>1, IpcInvariant, PTL DEF Spec, NothingInherited

\* An access that leaves a registration alone, seen from a live endpoint.
LEMMA WaiterSurvives ==
  ASSUME NEW q \in IpcQueues, NEW a, NEW g \in SlotId, contains(a, g),
         peek_state(q, g) = RecvWaiting, NEW h \in SlotId, contains(a, h)
  PROVE  /\ peek_state(reset_if_stale_generation(q, h), g) = RecvWaiting
         /\ \A s \in EndpointState :
              peek_state(set_state(q, h, s), g) = IF g = h THEN s ELSE RecvWaiting
<1>1. g.index = h.index => g = h
  BY LiveUnique
<1>2. QED
  BY <1>1, PeekAfterReset, PeekAfterSet

\* A registered receiver is never forgotten: a message comes or the
\* registration is cancelled.
THEOREM ReceiverKeptCorrect == Spec => ReceiverKept
<1> DEFINE A == \A h \in LiveEndpoints \intersect LiveEndpoints' :
                  peek_state(queues, h) = RecvWaiting =>
                    \/ peek_state(queues', h).tag \in {"RecvWaiting", "RecvComplete"}
                    \/ \E p \in Caller, c \in CapHandle : CancelRecv(p, c)
<1>1. IInv /\ [Next]_vars => A
  <2>1. SUFFICES ASSUME IInv, [Next]_vars, NEW g \in SlotId, contains(ep_arena, g),
                        peek_state(queues, g) = RecvWaiting,
                        ~ \E p \in Caller, c \in CapHandle : CancelRecv(p, c)
                 PROVE  peek_state(queues', g).tag \in {"RecvWaiting", "RecvComplete"}
    BY DEF LiveEndpoints
  <2>2. queues \in IpcQueues /\ \A p \in Caller : tables[p] \in CapabilityTable /\ WellFormed(tables[p])
    BY <2>1 DEF IInv, Typed
  <2>3. CASE queues' = queues
    BY <2>1, <2>3 DEF RecvWaiting
  <2>4. ASSUME NEW p \in Caller, NEW c \in CapHandle, NEW m \in Message,
               NEW x \in CapHandle \union {None}, Send(p, c, m, x)
        PROVE  peek_state(queues', g).tag \in {"RecvWaiting", "RecvComplete"}
    <3> DEFINE r == ipc_send(ep_arena, queues, tables[p], c, m, x)
               h == handle_of(tables[p], c)
    <3>1. queues' = r.queues /\ SendOutcome(ep_arena, queues, tables[p], c, m, x, r)
      BY <2>2, <2>4, SendCases DEF Send
    <3> HIDE DEF r
    <3>2. CASE Untouched(ep_arena, queues, tables[p], c, "SEND", r)
      <4>1. CASE r.queues = queues
        BY <2>3, <3>1, <4>1
      <4>2. CASE Grip(ep_arena, tables[p], c, "SEND") /\ r.queues = reset_if_stale_generation(queues, h)
        BY <2>1, <2>2, <3>1, <4>2, WaiterSurvives DEF Grip, RecvWaiting
      <4>3. QED
        BY <3>2, <4>1, <4>2 DEF Untouched
    <3>3. ASSUME Grip(ep_arena, tables[p], c, "SEND"), NEW cap \in Capability \union {None},
                 \/ /\ peek_state(queues, h) = RecvWaiting
                    /\ r.queues = set_state(queues, h, RecvComplete(m, cap))
                 \/ /\ peek_state(queues, h) = Idle
                    /\ r.queues = set_state(queues, h, SendPending(m, cap))
          PROVE  peek_state(queues', g).tag \in {"RecvWaiting", "RecvComplete"}
      <4>1. h \in SlotId /\ contains(ep_arena, h)
        BY <3>3 DEF Grip
      <4>2. \A s \in EndpointState :
              peek_state(set_state(queues, h, s), g) = IF g = h THEN s ELSE RecvWaiting
        BY <2>1, <2>2, <4>1, WaiterSurvives
      <4>3. RecvComplete(m, cap) \in EndpointState /\ SendPending(m, cap) \in EndpointState
        BY StateTypes
      <4>4. peek_state(queues, h) = Idle => g # h
        BY <2>1 DEF Idle, RecvWaiting
      <4>5. peek_state(r.queues, g) \in {RecvWaiting, RecvComplete(m, cap)}
        BY <3>3, <4>2, <4>3, <4>4
      <4>6. QED
        BY <3>1, <4>5 DEF RecvWaiting, RecvComplete
    <3>4. QED
      BY <3>1, <3>2, <3>3 DEF SendOutcome
  <2>5. ASSUME NEW p \in Caller, NEW c \in CapHandle, Recv(p, c)
        PROVE  peek_state(queues', g).tag \in {"RecvWaiting", "RecvComplete"}
    <3> DEFINE r == ipc_recv(ep_arena, queues, tables[p], c)
               h == handle_of(tables[p], c)
    <3>1. queues' = r.queues /\ RecvOutcome(ep_arena, queues, tables[p], c, r)
      BY <2>2, <2>5, RecvCases DEF Recv
    <3> HIDE DEF r
    <3>2. CASE Untouched(ep_arena, queues, tables[p], c, "RECV", r)
      <4>1. CASE r.queues = queues
        BY <2>3, <3>1, <4>1
      <4>2. CASE Grip(ep_arena, tables[p], c, "RECV") /\ r.queues = reset_if_stale_generation(queues, h)
        BY <2>1, <2>2, <3>1, <4>2, WaiterSurvives DEF Grip, RecvWaiting
      <4>3. QED
        BY <3>2, <4>1, <4>2 DEF Untouched
    <3>3. ASSUME Grip(ep_arena, tables[p], c, "RECV"), NEW s \in EndpointState,
                 Holding(peek_state(queues, h)) \/ peek_state(queues, h) = Idle,
                 r.queues = set_state(queues, h, s)
          PROVE  peek_state(queues', g).tag \in {"RecvWaiting", "RecvComplete"}
      <4>1. h \in SlotId /\ contains(ep_arena, h)
        BY <3>3 DEF Grip
      <4>2. peek_state(r.queues, g) = IF g = h THEN s ELSE RecvWaiting
        BY <2>1, <2>2, <3>3, <4>1, WaiterSurvives
      <4>3. g # h
        BY <2>1, <3>3 DEF Idle, RecvWaiting, Holding
      <4>4. QED
        BY <3>1, <4>2, <4>3 DEF RecvWaiting
    <3>4. QED
      BY <3>1, <3>2, <3>3, StateTypes DEF RecvOutcome
  <2>6. \/ queues' = queues
        \/ \E p \in Caller, c \in CapHandle, m \in Message, x \in CapHandle \union {None} : Send(p, c, m, x)
        \/ \E p \in Caller, c \in CapHandle : Recv(p, c)
    BY <2>1 DEF Next, Notify, create_endpoint, create_notification, destroy_endpoint,
                Grant, Derive, Drop, vars
  <2>7. QED
    BY <2>3, <2>4, <2>5, <2>6
<1>2. QED
  BY <1>1, IpcInvariant, PTL DEF Spec, ReceiverKept

-----------------------------------------------------------------------------
(* Refinement of Mailbox: the bag of capabilities in a table.              *)

\* How many slots of t hold capability c.
Count(t, c) == Cardinality({i \in Live(t) : CapAt(t, i) = c})

\* Holdings is the bag with these counts.
LEMMA HoldingsCount ==
  ASSUME NEW t \in CapabilityTable
  PROVE  /\ \A c : Count(t, c) \in Nat
         /\ \A c : c \in DOMAIN Holdings(t) <=> Count(t, c) > 0
         /\ \A c \in DOMAIN Holdings(t) : Holdings(t)[c] = Count(t, c)
         /\ Holdings(t) = [c \in DOMAIN Holdings(t) |-> Count(t, c)]
<1>1. Live(t) \in SUBSET Index
  BY TableFields
<1>2. ASSUME NEW c
      PROVE  /\ Count(t, c) \in Nat
             /\ c \in {CapAt(t, i) : i \in Live(t)} <=> Count(t, c) > 0
  <2> DEFINE S == {i \in Live(t) : CapAt(t, i) = c}
  <2>1. S \in SUBSET Index
    BY <1>1
  <2>2. Cardinality(S) \in Nat /\ (Cardinality(S) = 0 <=> S = {})
    BY <2>1, LinkFacts, FS_EmptySet
  <2>3. c \in {CapAt(t, i) : i \in Live(t)} <=> S # {}
    OBVIOUS
  <2> HIDE DEF S
  <2>4. Count(t, c) = Cardinality(S)
    BY DEF Count, S
  <2>5. QED
    BY <2>2, <2>3, <2>4
<1>3. DOMAIN Holdings(t) = {CapAt(t, i) : i \in Live(t)}
  BY DEF Holdings
<1>4. Holdings(t) = [c \in {CapAt(t, i) : i \in Live(t)} |-> Count(t, c)]
  BY DEF Holdings, Count
<1>5. QED
  BY <1>2, <1>3, <1>4

\* Installing a capability adds one copy of it.
LEMMA CountGain ==
  ASSUME NEW t \in CapabilityTable, NEW u \in CapabilityTable, NEW cap \in Capability,
         NEW q, NEW d, NEW n, NewLinks(t, cap, q, d, u, n), NEW c
  PROVE  Count(u, c) = Count(t, c) + (IF c = cap THEN 1 ELSE 0)
<1> DEFINE S == {i \in Live(t) : CapAt(t, i) = c}
           T == {i \in Live(u) : CapAt(u, i) = c}
<1>1. /\ Live(u) = Live(t) \union {n} /\ n \notin Live(t)
      /\ \A i \in Live(t) : CapAt(u, i) = CapAt(t, i)
  BY DEF NewLinks, SameCapability, CapAt
<1>2. CapAt(u, n) = cap
  BY DEF NewLinks, CapAt, Capability
<1>3. S \in SUBSET Index
  BY TableFields
<1>4. IsFiniteSet(S) /\ Cardinality(S) \in Nat /\ n \notin S
  BY <1>1, <1>3, LinkFacts
<1>5. T = IF c = cap THEN S \union {n} ELSE S
  BY <1>1, <1>2
<1> HIDE DEF S, T
<1>6. Cardinality(T) = Cardinality(S) + (IF c = cap THEN 1 ELSE 0)
  BY <1>4, <1>5, FS_AddElement
<1>7. QED
  BY <1>6 DEF Count, S, T

\* Freeing a slot removes one copy of what it held.
LEMMA CountLoss ==
  ASSUME NEW t \in CapabilityTable, NEW u \in CapabilityTable, NEW n \in Live(t),
         Dropped(t, u, n), NEW c
  PROVE  Count(t, c) = Count(u, c) + (IF c = CapAt(t, n) THEN 1 ELSE 0)
<1> DEFINE S == {i \in Live(t) : CapAt(t, i) = c}
           T == {i \in Live(u) : CapAt(u, i) = c}
<1>1. /\ Live(u) = Live(t) \ {n}
      /\ \A i \in Live(u) : CapAt(u, i) = CapAt(t, i)
  BY DEF Dropped, SameCapability, CapAt
<1>2. T \in SUBSET Index
  BY TableFields
<1>3. IsFiniteSet(T) /\ Cardinality(T) \in Nat /\ n \notin T
  BY <1>1, <1>2, LinkFacts
<1>4. S = IF c = CapAt(t, n) THEN T \union {n} ELSE T
  BY <1>1
<1> HIDE DEF S, T
<1>5. Cardinality(S) = Cardinality(T) + (IF c = CapAt(t, n) THEN 1 ELSE 0)
  <2>1. Cardinality(T \union {n}) = Cardinality(T) + 1
    BY <1>3, FS_AddElement
  <2>2. QED
    BY <1>3, <1>4, <2>1
<1>6. QED
  BY <1>5 DEF Count, S, T

\* The bag operators on one copy, and on none.
LEMMA GainBag ==
  ASSUME NEW t \in CapabilityTable, NEW u \in CapabilityTable, NEW cap, cap # None,
         \A c : Count(u, c) = Count(t, c) + (IF c = cap THEN 1 ELSE 0)
  PROVE  /\ Holdings(u) = Box!(+)(Holdings(t), Box!Copy(cap))
         /\ cap \in DOMAIN Holdings(u)
         /\ Holdings(u) # Holdings(t)
<1> DEFINE B == Holdings(t)
           D == Holdings(u)
<1>1. /\ \A c : Count(t, c) \in Nat /\ (c \in DOMAIN B <=> Count(t, c) > 0)
      /\ \A c \in DOMAIN B : B[c] = Count(t, c)
  BY HoldingsCount
<1>2. /\ \A c : c \in DOMAIN D <=> Count(u, c) > 0
      /\ \A c \in DOMAIN D : D[c] = Count(u, c)
      /\ D = [c \in DOMAIN D |-> Count(u, c)]
  BY HoldingsCount
<1> HIDE DEF B, D
<1>3. Box!Copy(cap) = [e \in {cap} |-> 1]
  BY DEF Box!Copy, Box!SetToBag
<1>4. Box!(+)(B, Box!Copy(cap)) =
        [e \in DOMAIN B \union {cap} |-> (IF e \in DOMAIN B THEN B[e] ELSE 0)
                                         + (IF e \in {cap} THEN 1 ELSE 0)]
  BY <1>3 DEF Box!(+)
<1>5. DOMAIN D = DOMAIN B \union {cap}
  BY <1>1, <1>2
<1>6. \A e \in DOMAIN D : Count(u, e) = (IF e \in DOMAIN B THEN B[e] ELSE 0)
                                        + (IF e \in {cap} THEN 1 ELSE 0)
  BY <1>1
<1>7. D = Box!(+)(B, Box!Copy(cap))
  BY <1>2, <1>4, <1>5, <1>6
<1>8. D # B
  <2>1. SUFFICES ASSUME D = B PROVE FALSE
    OBVIOUS
  <2>2. cap \in DOMAIN B /\ D[cap] = Count(t, cap) + 1
    BY <1>1, <1>2, <2>1
  <2>3. QED
    BY <1>1, <2>1, <2>2
<1>9. cap \in DOMAIN D
  BY <1>5
<1>10. QED
  BY <1>7, <1>8, <1>9 DEF B, D

LEMMA LossBag ==
  ASSUME NEW t \in CapabilityTable, NEW u \in CapabilityTable, NEW cap, cap # None,
         \A c : Count(t, c) = Count(u, c) + (IF c = cap THEN 1 ELSE 0)
  PROVE  /\ Holdings(u) = Box!(-)(Holdings(t), Box!Copy(cap))
         /\ cap \in DOMAIN Holdings(t)
         /\ Holdings(u) # Holdings(t)
<1> DEFINE B == Holdings(t)
           D == Holdings(u)
<1>1. /\ \A c : c \in DOMAIN B <=> Count(t, c) > 0
      /\ \A c \in DOMAIN B : B[c] = Count(t, c)
  BY HoldingsCount
<1>2. /\ \A c : Count(u, c) \in Nat /\ (c \in DOMAIN D <=> Count(u, c) > 0)
      /\ \A c \in DOMAIN D : D[c] = Count(u, c)
      /\ D = [c \in DOMAIN D |-> Count(u, c)]
  BY HoldingsCount
<1> HIDE DEF B, D
<1> DEFINE F == [e \in DOMAIN B |-> IF e \in {cap} THEN B[e] - 1 ELSE B[e]]
<1>3. Box!Copy(cap) = [e \in {cap} |-> 1]
  BY DEF Box!Copy, Box!SetToBag
<1>4. Box!(-)(B, Box!Copy(cap)) = [e \in {d \in DOMAIN F : F[d] > 0} |-> F[e]]
  <2>1. F = [e \in DOMAIN B |-> IF e \in DOMAIN Box!Copy(cap) THEN B[e] - Box!Copy(cap)[e]
                                ELSE B[e]]
    BY <1>3
  <2>2. QED
    BY <2>1 DEF Box!(-)
<1>5. \A e \in DOMAIN B : F[e] = Count(u, e)
  BY <1>1, <1>2
<1>6. DOMAIN D = {d \in DOMAIN F : F[d] > 0}
  <2>1. DOMAIN F = DOMAIN B
    OBVIOUS
  <2>2. \A e : e \in DOMAIN D => e \in DOMAIN B
    BY <1>1, <1>2
  <2> HIDE DEF F
  <2>3. QED
    BY <1>2, <1>5, <2>1, <2>2
<1>7. \A e \in DOMAIN D : F[e] = Count(u, e)
  BY <1>5, <1>6
<1> HIDE DEF F
<1>8. D = Box!(-)(B, Box!Copy(cap))
  BY <1>2, <1>4, <1>6, <1>7
<1>9. cap \in DOMAIN B
  BY <1>1, <1>2
<1>10. D # B
  BY <1>1, <1>2, <1>9
<1>11. QED
  BY <1>8, <1>9, <1>10 DEF B, D

LEMMA SameBag ==
  ASSUME NEW t \in CapabilityTable
  PROVE  /\ Holdings(t) = Box!(+)(Holdings(t), Box!Copy(None))
         /\ Holdings(t) = Box!(-)(Holdings(t), Box!Copy(None))
<1> DEFINE B == Holdings(t)
<1>1. /\ \A c \in DOMAIN B : B[c] \in Nat /\ B[c] > 0
      /\ B = [c \in DOMAIN B |-> B[c]]
  BY HoldingsCount
<1> HIDE DEF B
<1>2. Box!Copy(None) = [e \in {} |-> 1]
  BY DEF Box!Copy, Box!EmptyBag, Box!SetToBag
<1>3. Box!(+)(B, Box!Copy(None)) = [e \in DOMAIN B |-> B[e] + 0]
  BY <1>2 DEF Box!(+)
<1>4. Box!(-)(B, Box!Copy(None)) = B
  <2> DEFINE F == [e \in DOMAIN B |-> IF e \in DOMAIN Box!Copy(None) THEN B[e] - Box!Copy(None)[e]
                                      ELSE B[e]]
  <2>1. Box!(-)(B, Box!Copy(None)) = [e \in {d \in DOMAIN F : F[d] > 0} |-> F[e]]
    BY DEF Box!(-)
  <2>2. F = B
    BY <1>1, <1>2
  <2> HIDE DEF F
  <2>3. {d \in DOMAIN B : B[d] > 0} = DOMAIN B
    BY <1>1
  <2>4. QED
    BY <1>1, <2>1, <2>2, <2>3
<1>5. QED
  BY <1>1, <1>3, <1>4 DEF B

-----------------------------------------------------------------------------
(* Refinement of Mailbox: the boxes.                                       *)

\* The abstract state, as the refinement mapping defines it.
Mail == [h \in SlotId |-> Contents(h)]
Owned == [p \in Caller |-> Holdings(tables[p])]

\* What a queue state shows to a caller.
Boxed(s) == IF Holding(s) THEN [msg |-> s.msg, cap |-> s.cap] ELSE None

LEMMA MailAt ==
  ASSUME NEW h \in SlotId
  PROVE  /\ Mail[h] = IF contains(ep_arena, h) THEN Boxed(peek_state(queues, h)) ELSE None
         /\ Mail'[h] = IF contains(ep_arena', h) THEN Boxed(peek_state(queues', h)) ELSE None
  BY DEF Mail, Contents, LiveEndpoints, Boxed

LEMMA MailFunction ==
  /\ Mail = [h \in SlotId |-> Mail[h]]
  /\ Mail' = [h \in SlotId |-> Mail'[h]]
  BY DEF Mail

\* A full box is not None, an idle or waiting endpoint's box is.
LEMMA BoxedFacts ==
  ASSUME NEW s \in EndpointState
  PROVE  /\ Holding(s) => /\ Boxed(s) \in [msg : Message, cap : Capability \union {None}]
                          /\ Boxed(s) # None
                          /\ Boxed(s).cap = s.cap
         /\ s \in {Idle, RecvWaiting} => Boxed(s) = None
<1>1. Holding(s) => /\ Boxed(s) \in [msg : Message, cap : Capability \union {None}]
                    /\ Boxed(s).cap = s.cap
  BY StateFacts DEF Boxed
<1>2. s \in {Idle, RecvWaiting} => Boxed(s) = None
  BY DEF Idle, RecvWaiting, Holding, Boxed
<1>3. QED
  BY <1>1, <1>2, IpcSpecAssumption

\* A call that only accesses the queue of h leaves the boxes alone.
LEMMA MailAfterReset ==
  ASSUME IInv, UNCHANGED ep_arena,
         \/ queues' = queues
         \/ \E h \in SlotId : /\ contains(ep_arena, h)
                              /\ queues' = reset_if_stale_generation(queues, h)
  PROVE  Mail' = Mail
<1>1. ASSUME NEW g \in SlotId
      PROVE  Mail'[g] = Mail[g]
  <2>1. CASE queues' = queues
    BY <2>1, MailAt
  <2>2. ASSUME NEW h \in SlotId, contains(ep_arena, h),
               queues' = reset_if_stale_generation(queues, h)
        PROVE  Mail'[g] = Mail[g]
    <3>1. contains(ep_arena, g) => peek_state(queues', g) = peek_state(queues, g)
      BY <2>2, PeekAfterReset, LiveUnique DEF IInv, Typed
    <3>2. QED
      BY <3>1, MailAt
  <2>3. QED
    BY <2>1, <2>2
<1>2. QED
  BY <1>1, MailFunction

\* A call that writes state s through h changes the box of h alone.
LEMMA MailAfterSet ==
  ASSUME IInv, UNCHANGED ep_arena, NEW h \in SlotId, contains(ep_arena, h),
         NEW s \in EndpointState, queues' = set_state(queues, h, s)
  PROVE  /\ Mail' = [Mail EXCEPT ![h] = Boxed(s)]
         /\ Mail'[h] = Boxed(s)
         /\ Mail[h] = Boxed(peek_state(queues, h))
<1>1. ASSUME NEW g \in SlotId
      PROVE  Mail'[g] = IF g = h THEN Boxed(s) ELSE Mail[g]
  <2>1. contains(ep_arena, g) =>
          peek_state(queues', g) = IF g = h THEN s ELSE peek_state(queues, g)
    BY PeekAfterSet, LiveUnique DEF IInv, Typed
  <2>2. QED
    BY <2>1, MailAt
<1>2. Mail' = [Mail EXCEPT ![h] = Boxed(s)]
  <2>1. Mail' = [g \in SlotId |-> IF g = h THEN Boxed(s) ELSE Mail[g]]
    BY <1>1, MailFunction
  <2>2. Mail = [g \in SlotId |-> Mail[g]]
    BY MailFunction
  <2> HIDE DEF Mail
  <2>3. QED
    BY <2>1, <2>2
<1>3. QED
  BY <1>1, <1>2, MailAt

\* The holdings after one caller's table changes.
LEMMA OwnedAfter ==
  ASSUME NEW p \in Caller, NEW u, IInv, tables' = [tables EXCEPT ![p] = u]
  PROVE  Owned' = [Owned EXCEPT ![p] = Holdings(u)] /\ Owned'[p] = Holdings(u)
  BY DEF Owned, IInv, Typed

LEMMA OwnedSame ==
  ASSUME UNCHANGED tables
  PROVE  Owned' = Owned
  BY DEF Owned

\* The abstract steps, in terms of Mail and Owned.
LEMMA StutterStep ==
  ASSUME Mail' = Mail, Owned' = Owned
  PROVE  UNCHANGED Box!vars
  BY DEF Box!vars, Mail, Owned

\* A caller that passed validate_ep_cap holds the right, abstractly too.
LEMMA MayCall ==
  ASSUME IInv, NEW p \in Caller, NEW c \in CapHandle, NEW right,
         Grip(ep_arena, tables[p], c, right)
  PROVE  Box!May(p, right, handle_of(tables[p], c))
<1> DEFINE t == tables[p]
           h == handle_of(t, c)
           held == CapAt(t, c.index)
<1>1. t \in CapabilityTable
  BY DEF IInv, Typed
<1>2. /\ c.index \in Live(t)
      /\ t.entry[c.index].object = EndpointObject(h)
      /\ right \in t.entry[c.index].rights
  BY <1>1, ValidEndpoint DEF Grip
<1>3. held \in DOMAIN Holdings(t)
  BY <1>2 DEF Holdings
<1>4. Grants(held, right, h)
  BY <1>2 DEF Grants, CapAt
<1>5. QED
  BY <1>3, <1>4 DEF Box!May, Box!BagToSet

\* A send that succeeds puts one message, and its capability, in a box.
LEMMA PutStep ==
  ASSUME IInv, NEW p \in Caller, NEW h \in SlotId, UNCHANGED ep_arena,
         contains(ep_arena, h), Box!May(p, "SEND", h),
         peek_state(queues, h) \in {Idle, RecvWaiting},
         NEW m \in Message, NEW cap \in Capability \union {None},
         NEW s \in {SendPending(m, cap), RecvComplete(m, cap)},
         queues' = set_state(queues, h, s),
         NEW x \in CapHandle \union {None}, NEW u \in CapabilityTable,
         Sent(tables[p], x, cap, u), tables' = [tables EXCEPT ![p] = u]
  PROVE  Box!Put(p, h)
<1> DEFINE t == tables[p]
           full == [msg |-> m, cap |-> cap]
<1>1. t \in CapabilityTable /\ queues \in IpcQueues
  BY DEF IInv, Typed
<1>2. s \in EndpointState /\ Boxed(s) = full
  <2>1. s \in EndpointState
    BY StateTypes
  <2>2. Boxed(s) = full
    BY DEF Boxed, Holding, SendPending, RecvComplete
  <2>3. QED
    BY <2>1, <2>2
<1>3. Mail' = [Mail EXCEPT ![h] = full] /\ Mail'[h] = full /\ Mail[h] = None
  BY <1>1, <1>2, MailAfterSet, BoxedFacts, PeekType
<1>4. full \in [msg : Message, cap : Capability \union {None}] /\ full.cap = cap
  OBVIOUS
<1>5. Owned' = [Owned EXCEPT ![p] = Holdings(u)] /\ Owned[p] = Holdings(t)
  BY OwnedAfter DEF Owned
<1>6. CASE cap = None
  <2>1. u = t
    BY <1>6, NoneAssumption DEF Sent
  <2>2. Holdings(u) = Box!(-)(Holdings(t), Box!Copy(cap))
    BY <1>1, <1>6, <2>1, SameBag
  <2> HIDE DEF t, full
  <2>3. Owned' = Box!Lost(p, cap)
    BY <1>5, <2>2 DEF Box!Lost, Owned
  <2>4. QED
    BY <1>3, <1>4, <1>6, <2>3 DEF Box!Put, Mail, Owned
<1>7. CASE cap # None
  <2>1. /\ x \in CapHandle /\ x.index \in Live(t) /\ Dropped(t, u, x.index)
        /\ "TRANSFER" \in t.entry[x.index].rights
        /\ cap = CapAt(t, x.index)
    BY <1>7 DEF Sent, lookup, entry_of, CapAt
  <2>2. /\ Holdings(u) = Box!(-)(Holdings(t), Box!Copy(cap))
        /\ cap \in DOMAIN Holdings(t)
    BY <1>1, <1>7, <2>1, CountLoss, LossBag
  <2>3. Grants(cap, "TRANSFER", None)
    BY <2>1 DEF Grants, CapAt
  <2> HIDE DEF t, full
  <2>4. Owned' = Box!Lost(p, cap)
    BY <1>5, <2>2 DEF Box!Lost, Owned
  <2>5. Box!BagIn(cap, Owned[p])
    BY <1>5, <2>2 DEF Box!BagIn, Box!BagToSet
  <2>6. QED
    BY <1>3, <1>4, <2>3, <2>4, <2>5 DEF Box!Put, Mail, Owned
<1>8. QED
  BY <1>6, <1>7

\* A receive that collects empties a box into the receiver's holdings.
LEMMA TakeStep ==
  ASSUME IInv, NEW p \in Caller, NEW h \in SlotId, UNCHANGED ep_arena,
         contains(ep_arena, h), Box!May(p, "RECV", h),
         Holding(peek_state(queues, h)), queues' = set_state(queues, h, Idle),
         NEW u \in CapabilityTable, Got(tables[p], peek_state(queues, h).cap, u),
         tables' = [tables EXCEPT ![p] = u]
  PROVE  Box!Take(p, h)
<1> DEFINE t == tables[p]
           s == peek_state(queues, h)
           cap == s.cap
<1>1. t \in CapabilityTable /\ s \in EndpointState
  BY PeekType DEF IInv, Typed
<1>2. /\ Mail' = [Mail EXCEPT ![h] = None] /\ Mail'[h] = None
      /\ Mail[h] # None /\ Mail[h].cap = cap
  BY <1>1, MailAfterSet, BoxedFacts, StateTypes
<1>3. Owned' = [Owned EXCEPT ![p] = Holdings(u)] /\ Owned[p] = Holdings(t)
  BY OwnedAfter DEF Owned
<1>4. Holdings(u) = Box!(+)(Holdings(t), Box!Copy(cap))
  <2>1. CASE cap = None
    BY <1>1, <2>1, SameBag DEF Got
  <2>2. CASE cap # None
    BY <1>1, <2>2, CountGain, GainBag DEF Got
  <2>3. QED
    BY <2>1, <2>2
<1> HIDE DEF t, s
<1>5. Owned' = Box!Gained(p, Mail[h].cap)
  BY <1>2, <1>3, <1>4 DEF Box!Gained, Owned
<1>6. QED
  BY <1>2, <1>5 DEF Box!Take, Mail, Owned

\* The table operations outside IPC.
LEMMA AdjustStep ==
  ASSUME IInv, NEW p \in Caller, NEW u \in CapabilityTable, NEW cap \in Capability,
         \/ \A c : Count(u, c) = Count(tables[p], c) + (IF c = cap THEN 1 ELSE 0)
         \/ \A c : Count(tables[p], c) = Count(u, c) + (IF c = cap THEN 1 ELSE 0),
         tables' = [tables EXCEPT ![p] = u], UNCHANGED <<ep_arena, queues>>
  PROVE  Box!Adjust
<1> DEFINE t == tables[p]
<1>1. t \in CapabilityTable /\ cap # None
  BY NoneAssumption DEF IInv, Typed
<1>2. Mail' = Mail
  BY MailAfterReset
<1>3. /\ Owned' = [Owned EXCEPT ![p] = Holdings(u)]
      /\ Owned[p] = Holdings(t) /\ Owned'[p] = Holdings(u)
  BY OwnedAfter DEF Owned
<1>4. \/ /\ Holdings(u) = Box!(+)(Holdings(t), Box!Copy(cap))
         /\ cap \in DOMAIN Holdings(u)
         /\ Holdings(u) # Holdings(t)
      \/ /\ Holdings(u) = Box!(-)(Holdings(t), Box!Copy(cap))
         /\ cap \in DOMAIN Holdings(t)
         /\ Holdings(u) # Holdings(t)
  BY <1>1, GainBag, LossBag
<1> HIDE DEF t
<1>5. \/ cap \in Box!BagToSet(Owned'[p]) /\ Owned' = Box!Gained(p, cap)
      \/ cap \in Box!BagToSet(Owned[p]) /\ Owned' = Box!Lost(p, cap)
  BY <1>3, <1>4 DEF Box!Gained, Box!Lost, Box!BagToSet, Owned
<1>6. Owned'[p] # Owned[p]
  BY <1>3, <1>4
<1>7. QED
  BY <1>2, <1>5, <1>6 DEF Box!Adjust, Mail, Owned

-----------------------------------------------------------------------------
(* Refinement of Mailbox: every step of IPC is a step of it or a stutter.  *)

LEMMA InitMailbox == Init => Box!Init
<1> SUFFICES ASSUME Init PROVE Box!Init
  OBVIOUS
<1>1. \A h \in SlotId : ~contains(ep_arena, h)
  BY DEF Init, NewArena, SlotId, contains
<1>2. Mail = [h \in SlotId |-> None]
  BY <1>1 DEF Mail, Contents, LiveEndpoints
<1>3. \A p \in Caller : Holdings(tables[p]) = [e \in {} |-> 1]
  <2>1. \A p \in Caller : Live(tables[p]) = {}
    BY DEF Init, NewTable, Live
  <2>2. QED
    BY <2>1 DEF Holdings
<1>4. Owned = [p \in Caller |-> Box!EmptyBag]
  BY <1>3 DEF Owned, Box!EmptyBag, Box!SetToBag
<1>5. QED
  BY <1>2, <1>4 DEF Box!Init, Mail, Owned

LEMMA SendMailbox ==
  ASSUME IInv, NEW p \in Caller, NEW c \in CapHandle, NEW m \in Message,
         NEW x \in CapHandle \union {None}, Send(p, c, m, x)
  PROVE  UNCHANGED Box!vars \/ \E h \in SlotId : Box!Put(p, h)
<1> DEFINE r == ipc_send(ep_arena, queues, tables[p], c, m, x)
           h == handle_of(tables[p], c)
<1>1. tables[p] \in CapabilityTable /\ WellFormed(tables[p]) /\ queues \in IpcQueues
  BY DEF IInv, Typed
<1>2. r.table \in CapabilityTable /\ SendOutcome(ep_arena, queues, tables[p], c, m, x, r)
  BY <1>1, SendCases
<1>3. tables' = [tables EXCEPT ![p] = r.table] /\ queues' = r.queues /\ UNCHANGED ep_arena
  BY DEF Send
<1> HIDE DEF r
<1>4. CASE Untouched(ep_arena, queues, tables[p], c, "SEND", r)
  <2>1. tables' = tables
    BY <1>3, <1>4 DEF Untouched, IInv, Typed
  <2>2. Mail' = Mail
    BY <1>3, <1>4, MailAfterReset DEF Untouched, Grip
  <2>3. QED
    BY <2>1, <2>2, OwnedSame, StutterStep
<1>5. ASSUME Grip(ep_arena, tables[p], c, "SEND"), NEW cap \in Capability \union {None},
             Sent(tables[p], x, cap, r.table), peek_state(queues, h) \in {Idle, RecvWaiting},
             \/ r.queues = set_state(queues, h, RecvComplete(m, cap))
             \/ r.queues = set_state(queues, h, SendPending(m, cap))
      PROVE  \E g \in SlotId : Box!Put(p, g)
  <2>1. Box!May(p, "SEND", h) /\ h \in SlotId /\ contains(ep_arena, h)
    BY <1>5, MayCall DEF Grip
  <2> HIDE DEF h
  <2>2. Box!Put(p, h)
    BY <1>2, <1>3, <1>5, <2>1, PutStep
  <2>3. QED
    BY <2>1, <2>2
<1>6. QED
  BY <1>2, <1>4, <1>5 DEF SendOutcome

LEMMA RecvMailbox ==
  ASSUME IInv, NEW p \in Caller, NEW c \in CapHandle, Recv(p, c)
  PROVE  UNCHANGED Box!vars \/ \E h \in SlotId : Box!Take(p, h)
<1> DEFINE r == ipc_recv(ep_arena, queues, tables[p], c)
           h == handle_of(tables[p], c)
<1>1. tables[p] \in CapabilityTable /\ WellFormed(tables[p]) /\ queues \in IpcQueues
  BY DEF IInv, Typed
<1>2. r.table \in CapabilityTable /\ RecvOutcome(ep_arena, queues, tables[p], c, r)
  BY <1>1, RecvCases
<1>3. tables' = [tables EXCEPT ![p] = r.table] /\ queues' = r.queues /\ UNCHANGED ep_arena
  BY DEF Recv
<1> HIDE DEF r
<1>4. CASE Untouched(ep_arena, queues, tables[p], c, "RECV", r)
  <2>1. tables' = tables
    BY <1>3, <1>4 DEF Untouched, IInv, Typed
  <2>2. Mail' = Mail
    BY <1>3, <1>4, MailAfterReset DEF Untouched, Grip
  <2>3. QED
    BY <2>1, <2>2, OwnedSame, StutterStep
<1>5. ASSUME Grip(ep_arena, tables[p], c, "RECV"), Holding(peek_state(queues, h)),
             r.queues = set_state(queues, h, Idle),
             Got(tables[p], peek_state(queues, h).cap, r.table)
      PROVE  \E g \in SlotId : Box!Take(p, g)
  <2>1. Box!May(p, "RECV", h) /\ h \in SlotId /\ contains(ep_arena, h)
    BY <1>5, MayCall DEF Grip
  <2> HIDE DEF h
  <2>2. Box!Take(p, h)
    BY <1>2, <1>3, <1>5, <2>1, TakeStep
  <2>3. QED
    BY <2>1, <2>2
<1>6. ASSUME Grip(ep_arena, tables[p], c, "RECV"), peek_state(queues, h) = Idle,
             r.queues = set_state(queues, h, RecvWaiting), r.table = tables[p]
      PROVE  UNCHANGED Box!vars
  <2>1. h \in SlotId /\ contains(ep_arena, h)
    BY <1>6 DEF Grip
  <2>2. Mail' = [Mail EXCEPT ![h] = None] /\ Mail[h] = None
    BY <1>3, <1>6, <2>1, MailAfterSet, BoxedFacts, StateTypes
  <2>3. Mail' = Mail
    BY <2>1, <2>2, MailFunction
  <2>4. tables' = tables
    BY <1>3, <1>6 DEF IInv, Typed
  <2>5. QED
    BY <2>3, <2>4, OwnedSame, StutterStep
<1>7. QED
  BY <1>2, <1>4, <1>5, <1>6 DEF RecvOutcome

LEMMA CancelMailbox ==
  ASSUME IInv, NEW p \in Caller, NEW c \in CapHandle, CancelRecv(p, c)
  PROVE  UNCHANGED Box!vars
<1> DEFINE r == ipc_cancel_recv(ep_arena, queues, tables[p], c)
           h == handle_of(tables[p], c)
<1>1. tables[p] \in CapabilityTable /\ queues \in IpcQueues
  BY DEF IInv, Typed
<1>2. CancelOutcome(ep_arena, queues, tables[p], c, r)
  BY <1>1, CancelCases
<1>3. tables' = tables /\ queues' = r.queues /\ UNCHANGED ep_arena
  BY DEF CancelRecv
<1> HIDE DEF r
<1>4. CASE \/ r.queues = queues
           \/ Grip(ep_arena, tables[p], c, "RECV") /\ r.queues = reset_if_stale_generation(queues, h)
  <2>1. Mail' = Mail
    BY <1>3, <1>4, MailAfterReset DEF Grip
  <2>2. QED
    BY <1>3, <2>1, OwnedSame, StutterStep
<1>5. CASE /\ Grip(ep_arena, tables[p], c, "RECV") /\ peek_state(queues, h) = RecvWaiting
           /\ r.queues = set_state(queues, h, Idle)
  <2>1. h \in SlotId /\ contains(ep_arena, h)
    BY <1>5 DEF Grip
  <2>2. Mail' = [Mail EXCEPT ![h] = None] /\ Mail[h] = None
    BY <1>3, <1>5, <2>1, MailAfterSet, BoxedFacts, StateTypes
  <2>3. Mail' = Mail
    BY <2>1, <2>2, MailFunction
  <2>4. QED
    BY <1>3, <2>3, OwnedSame, StutterStep
<1>6. QED
  BY <1>2, <1>4, <1>5 DEF CancelOutcome

\* A new endpoint's box is empty.
LEMMA CreateMailbox ==
  ASSUME IInv, [Next]_vars, create_endpoint
  PROVE  UNCHANGED Box!vars
<1>1. /\ queues' = queues /\ tables' = tables
      /\ ep_arena'.generation = ep_arena.generation
      /\ ep_arena'.entry = [ep_arena.entry EXCEPT ![ep_arena.free_head] = "endpoint"]
      /\ ep_arena.free_head # None
  BY DEF create_endpoint, allocate, arena_is_full
<1>2. ep_arena.free_head \in SlotIndex
  BY <1>1, ArenaFields DEF IInv, Typed
<1>3. ASSUME NEW h \in SlotId
      PROVE  Mail'[h] = Mail[h]
  <2>1. h.index \in SlotIndex
    BY DEF SlotId
  <2>2. contains(ep_arena, h) => contains(ep_arena', h)
    <3>1. SUFFICES ASSUME contains(ep_arena, h) PROVE ep_arena'.entry[h.index] # None
      BY <1>1 DEF contains
    <3>2. ep_arena.entry[h.index] # None /\ ep_arena.entry[h.index] = "endpoint"
      BY <2>1, <3>1, ArenaFields DEF contains, IInv, Typed
    <3>3. QED
      BY <1>1, <1>2, <2>1, <3>2, ArenaFields DEF IInv, Typed
  <2>3. ASSUME contains(ep_arena', h), ~contains(ep_arena, h)
        PROVE  peek_state(queues', h) = Idle
    <3>1. ep_arena.generation[h.index] = h.generation /\ ep_arena.entry[h.index] = None
      BY <1>1, <2>3 DEF contains
    <3>2. queues.slot_generations[h.index] = h.generation => queues.states[h.index] = Idle
      BY <2>1, <3>1 DEF IInv, Agree
    <3>3. QED
      BY <1>1, <3>2, PeekType DEF IInv, Typed
  <2>4. QED
    BY <1>1, <2>2, <2>3, MailAt, BoxedFacts, StateTypes
<1>4. Mail' = Mail
  BY <1>3, MailFunction
<1>5. QED
  BY <1>1, <1>4, OwnedSame, StutterStep

\* A destroyed endpoint's box goes with the message in it, never with a
\* capability.
LEMMA DestroyMailbox ==
  ASSUME IInv, NEW h \in SlotId, destroy_endpoint(h)
  PROVE  UNCHANGED Box!vars \/ Box!Discard(h)
<1>1. /\ queues' = queues /\ tables' = tables
      /\ contains(ep_arena, h) /\ peek_state(queues, h).cap = None
      /\ ep_arena'.entry = [ep_arena.entry EXCEPT ![h.index] = None]
      /\ ep_arena'.generation = [ep_arena.generation EXCEPT ![h.index] =
           (ep_arena.generation[h.index] + 1) % ArenaGenModulus]
  BY DEF destroy_endpoint, Drained, free
<1>2. h.index \in SlotIndex
  BY DEF SlotId
<1>3. ASSUME NEW g \in SlotId
      PROVE  Mail'[g] = IF g = h THEN None ELSE Mail[g]
  <2>1. g.index \in SlotIndex
    BY DEF SlotId
  <2>2. g.index = h.index => ~contains(ep_arena', g)
    BY <1>1, <1>2, ArenaFields DEF contains, IInv, Typed
  <2>3. g.index = h.index /\ g # h => ~contains(ep_arena, g)
    BY <1>1, LiveUnique
  <2>4. g.index # h.index => (contains(ep_arena', g) <=> contains(ep_arena, g))
    BY <1>1, <1>2, <2>1, ArenaFields DEF contains, IInv, Typed
  <2>5. QED
    BY <1>1, <2>2, <2>3, <2>4, MailAt
<1>4. Mail' = [Mail EXCEPT ![h] = None]
  <2>1. Mail' = [g \in SlotId |-> IF g = h THEN None ELSE Mail[g]]
    BY <1>3, MailFunction
  <2>2. Mail = [g \in SlotId |-> Mail[g]]
    BY MailFunction
  <2>3. QED
    BY <2>1, <2>2
<1>5. Owned' = Owned
  BY <1>1, OwnedSame
<1>6. CASE Mail[h] = None
  <2>1. Mail' = Mail
    BY <1>4, <1>6, MailFunction
  <2>2. QED
    BY <1>5, <2>1, StutterStep
<1>7. CASE Mail[h] # None
  <2>1. Mail[h].cap = None
    <3>1. Mail[h] = Boxed(peek_state(queues, h))
      BY <1>1, MailAt
    <3>2. Holding(peek_state(queues, h))
      BY <1>7, <3>1 DEF Boxed
    <3>3. QED
      BY <1>1, <3>1, <3>2, PeekType, BoxedFacts DEF IInv, Typed
  <2>2. QED
    BY <1>4, <1>5, <1>7, <2>1 DEF Box!Discard, Mail, Owned
<1>8. QED
  BY <1>6, <1>7

LEMMA TableMailbox ==
  ASSUME IInv, NEW p \in Caller,
         \/ \E r \in GrantRights, o \in LiveObjects : Grant(p, [rights |-> r, object |-> o])
         \/ \E h \in CapHandle, r \in GrantRights : Derive(p, h, r)
         \/ \E h \in CapHandle : Drop(p, h)
  PROVE  Box!Adjust
<1>1. tables[p] \in CapabilityTable
  BY DEF IInv, Typed
<1>2. UNCHANGED <<ep_arena, queues>>
  BY DEF Grant, Derive, Drop
<1>3. ASSUME NEW u \in CapabilityTable, NEW cap \in Capability, NEW q, NEW d,
             NewLinks(tables[p], cap, q, d, u, tables[p].free_head),
             tables' = [tables EXCEPT ![p] = u]
      PROVE  Box!Adjust
  BY <1>1, <1>2, <1>3, CountGain, AdjustStep
<1>4. ASSUME NEW r \in GrantRights, NEW o \in LiveObjects, Grant(p, [rights |-> r, object |-> o])
      PROVE  Box!Adjust
  <2> DEFINE cap == [rights |-> r, object |-> o]
  <2>1. cap \in Capability
    BY GrantedType
  <2> HIDE DEF cap
  <2>2. Grant(p, cap)
    BY <1>4 DEF cap
  <2>3. QED
    BY <1>3, <2>1, <2>2, GrantEffect
<1>5. ASSUME NEW h \in CapHandle, NEW r \in GrantRights, Derive(p, h, r)
      PROVE  Box!Adjust
  BY <1>3, <1>5, DeriveEffect
<1>6. ASSUME NEW h \in CapHandle, Drop(p, h)
      PROVE  Box!Adjust
  <2>1. PICK u \in CapabilityTable :
          /\ tables' = [tables EXCEPT ![p] = u]
          /\ h.index \in Live(tables[p])
          /\ Dropped(tables[p], u, h.index)
    BY <1>6, DropEffect
  <2>2. CapAt(tables[p], h.index) \in Capability
    BY <1>1, <2>1, TableFields DEF CapAt, Entry, Capability
  <2>3. QED
    BY <1>1, <1>2, <2>1, <2>2, CountLoss, AdjustStep
<1>7. QED
  BY <1>4, <1>5, <1>6

\* IPC implements Mailbox: messages and capabilities are neither lost nor
\* duplicated nor delivered elsewhere, for every number of callers, tables,
\* endpoints and generations.
THEOREM MailboxesCorrect == Spec => Mailboxes
<1>1. IInv /\ [Next]_vars => [Box!Next]_(Box!vars)
  <2>1. SUFFICES ASSUME IInv, [Next]_vars
                 PROVE  Box!Next \/ UNCHANGED Box!vars
    OBVIOUS
  <2>2. ASSUME NEW p \in Caller, NEW h \in CapHandle, NEW m \in Message,
               NEW x \in CapHandle \union {None}, Send(p, h, m, x)
        PROVE  Box!Next \/ UNCHANGED Box!vars
    BY <2>1, <2>2, SendMailbox DEF Box!Next
  <2>3. ASSUME NEW p \in Caller, NEW h \in CapHandle, Recv(p, h)
        PROVE  Box!Next \/ UNCHANGED Box!vars
    BY <2>1, <2>3, RecvMailbox DEF Box!Next
  <2>4. ASSUME NEW p \in Caller, NEW h \in CapHandle, CancelRecv(p, h)
        PROVE  UNCHANGED Box!vars
    BY <2>1, <2>4, CancelMailbox
  <2>5. CASE UNCHANGED <<tables, ep_arena, queues>>
    <3>1. Mail' = Mail /\ Owned' = Owned
      BY <2>1, <2>5, MailAfterReset, OwnedSame
    <3>2. QED
      BY <3>1, StutterStep
  <2>6. CASE create_endpoint
    BY <2>1, <2>6, CreateMailbox
  <2>7. ASSUME NEW h \in SlotId, destroy_endpoint(h)
        PROVE  Box!Next \/ UNCHANGED Box!vars
    BY <2>1, <2>7, DestroyMailbox DEF Box!Next
  <2>8. ASSUME NEW p \in Caller,
               \/ \E r \in GrantRights, o \in LiveObjects : Grant(p, [rights |-> r, object |-> o])
               \/ \E h \in CapHandle, r \in GrantRights : Derive(p, h, r)
               \/ \E h \in CapHandle : Drop(p, h)
        PROVE  Box!Next
    BY <2>1, <2>8, TableMailbox DEF Box!Next
  <2>9. \/ UNCHANGED <<tables, ep_arena, queues>>
        \/ \E p \in Caller, h \in CapHandle, m \in Message, x \in CapHandle \union {None} : Send(p, h, m, x)
        \/ \E p \in Caller, h \in CapHandle : Recv(p, h)
        \/ \E p \in Caller, h \in CapHandle : CancelRecv(p, h)
        \/ create_endpoint
        \/ \E h \in SlotId : destroy_endpoint(h)
        \/ \E p \in Caller :
             \/ \E r \in GrantRights, o \in LiveObjects : Grant(p, [rights |-> r, object |-> o])
             \/ \E h \in CapHandle, r \in GrantRights : Derive(p, h, r)
             \/ \E h \in CapHandle : Drop(p, h)
    BY <2>1 DEF Next, vars, Notify, create_notification
  <2>10. QED
    BY <2>2, <2>3, <2>4, <2>5, <2>6, <2>7, <2>8, <2>9
<1>2. QED
  BY <1>1, InitMailbox, IpcInvariant, PTL DEF Spec, Mailboxes, Box!Spec
=============================================================================
