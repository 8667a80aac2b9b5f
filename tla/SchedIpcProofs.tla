--------------------------- MODULE SchedIpcProofs ---------------------------
(***************************************************************************)
(* Proofs about the scheduler/IPC bridge, for every number of tasks, every *)
(* set of endpoints and every assignment of capability tables.             *)
(*                                                                         *)
(* The first part is about scheduler values: what each helper of Scheduler *)
(* does to a ready queue that holds every runnable task once.  The second  *)
(* lifts it to the machine of SchedIpc.                                    *)
(***************************************************************************)
EXTENDS SchedIpc, KernelLemmas, SequenceTheorems

-----------------------------------------------------------------------------
(* Ready queues as sequences without repetition.                           *)

Elems(s) == {s[i] : i \in 1 .. Len(s)}
Distinct(s) == \A i, j \in 1 .. Len(s) : s[i] = s[j] => i = j

\* Appending a task that is not queued.
LEMMA AppendDistinct ==
  ASSUME NEW s \in Seq(Task), Distinct(s), NEW t \in Task, t \notin Elems(s)
  PROVE  /\ Append(s, t) \in Seq(Task)
         /\ Append(s, t) # <<>>
         /\ Distinct(Append(s, t))
         /\ Elems(Append(s, t)) = Elems(s) \union {t}
         /\ Head(Append(s, t)) = IF s = <<>> THEN t ELSE Head(s)
<1> DEFINE u == Append(s, t)
           n == Len(s)
<1>1. /\ u \in Seq(Task) /\ u # <<>>
      /\ Len(u) = n + 1
      /\ \A i \in 1 .. n : u[i] = s[i]
      /\ u[n + 1] = t
  BY AppendProperties
<1>2. Head(u) = IF s = <<>> THEN t ELSE Head(s)
  BY HeadTailAppend
<1>3. n \in Nat
  BY LenProperties
<1>4. \A i \in 1 .. n : s[i] # t
  BY DEF Elems
<1> HIDE DEF u, n
<1>5. \A i, j \in 1 .. n : s[i] = s[j] => i = j
  BY DEF Distinct, n
<1>6. \A i \in 1 .. n + 1 : i \in 1 .. n \/ i = n + 1
  BY <1>3
<1>7. Distinct(u)
  BY <1>1, <1>4, <1>5, <1>6 DEF Distinct
<1>8. Elems(s) = {s[i] : i \in 1 .. n}
  BY DEF Elems, n
<1>9. Elems(u) = Elems(s) \union {t}
  <2>1. n + 1 \in 1 .. n + 1 /\ 1 .. n \subseteq 1 .. n + 1
    BY <1>3
  <2>2. QED
    BY <1>1, <1>6, <1>8, <2>1 DEF Elems
<1>10. QED
  BY <1>1, <1>2, <1>7, <1>9 DEF u

\* Dequeueing the head.
LEMMA TailDistinct ==
  ASSUME NEW s \in Seq(Task), Distinct(s), s # <<>>
  PROVE  /\ Head(s) \in Task /\ Head(s) \in Elems(s)
         /\ Tail(s) \in Seq(Task)
         /\ Distinct(Tail(s))
         /\ Elems(Tail(s)) = Elems(s) \ {Head(s)}
<1> DEFINE u == Tail(s)
           n == Len(s)
<1>1. /\ Head(s) \in Task /\ u \in Seq(Task)
      /\ Len(u) = n - 1
      /\ \A i \in 1 .. n - 1 : u[i] = s[i + 1]
  BY HeadTailProperties
<1>2. n \in Nat \ {0}
  BY EmptySeq
<1>3. Head(s) = s[1]
  OBVIOUS
<1> HIDE DEF u, n
<1>4. \A i, j \in 1 .. n : s[i] = s[j] => i = j
  BY DEF Distinct, n
<1>5. 1 \in 1 .. n /\ \A i \in 1 .. n - 1 : i + 1 \in 1 .. n /\ i + 1 # 1
  BY <1>2
<1>6. Distinct(u)
  <2>1. SUFFICES ASSUME NEW i \in 1 .. n - 1, NEW j \in 1 .. n - 1, u[i] = u[j]
                 PROVE  i = j
    BY <1>1 DEF Distinct
  <2>2. i + 1 = j + 1
    BY <1>1, <1>4, <1>5, <2>1
  <2>3. QED
    BY <1>2, <2>2
<1>7. Elems(s) = {s[i] : i \in 1 .. n} /\ Elems(u) = {u[i] : i \in 1 .. n - 1}
  BY <1>1 DEF Elems, n
<1>8. Elems(u) \subseteq Elems(s) \ {Head(s)}
  BY <1>1, <1>3, <1>4, <1>5, <1>7
<1>9. Elems(s) \ {Head(s)} \subseteq Elems(u)
  <2>1. SUFFICES ASSUME NEW k \in 1 .. n, s[k] # s[1]
                 PROVE  s[k] \in Elems(u)
    BY <1>3, <1>7
  <2>2. k - 1 \in 1 .. n - 1 /\ (k - 1) + 1 = k
    BY <1>2, <2>1
  <2>3. u[k - 1] = s[k]
    BY <1>1, <2>2
  <2>4. QED
    BY <1>7, <2>2, <2>3
<1>10. Head(s) \in Elems(s)
  BY <1>3, <1>5, <1>7
<1>11. QED
  BY <1>1, <1>6, <1>8, <1>9, <1>10 DEF u

\* enqueue_ready's panic is unreachable: a queue without repetition from which
\* one task is missing has room for it.
LEMMA RoomForOne ==
  ASSUME NEW s \in Seq(Task), Distinct(s), NEW t \in Task, t \notin Elems(s)
  PROVE  Len(s) # TaskCapacity
<1>1. SUFFICES ASSUME Len(s) = TaskCapacity PROVE FALSE
  OBVIOUS
<1> DEFINE n == TaskCapacity
<1>2. n \in Nat \ {0} /\ Task = 0 .. n - 1
  BY SchedulerAssumption DEF Task
<1>3. IsFiniteSet(Task) /\ Cardinality(Task) = n
  BY <1>2, FS_Interval
<1>4. IsFiniteSet(1 .. n) /\ Cardinality(1 .. n) = n
  BY <1>2, FS_Interval
<1>5. IsFiniteSet(Task \ {t}) /\ Cardinality(Task \ {t}) = n - 1
  BY <1>3, FS_RemoveElement
<1>6. s \in [1 .. n -> Task]
  BY <1>1, LenProperties
<1>7. \A i \in 1 .. n : s[i] # t
  BY <1>1 DEF Elems
<1>8. s \in [1 .. n -> Task \ {t}]
  BY <1>6, <1>7
<1>9. Cardinality(Task \ {t}) < Cardinality(1 .. n)
  BY <1>2, <1>4, <1>5
<1>10. \E i, j \in 1 .. n : i # j /\ s[i] = s[j]
  BY <1>4, <1>5, <1>8, <1>9, FS_PigeonHole
<1>11. QED
  BY <1>1, <1>10 DEF Distinct

-----------------------------------------------------------------------------
(* Scheduler values.                                                       *)

\* What holds of a scheduler whatever the current task is: X are the tasks
\* that exited, all of them in EL0 and left marked Ready by task_exit_current.
\* The idle task is never blocked, and not registered before it is idle.
Base(s, X) ==
  /\ s \in SchedulerState
  /\ Distinct(s.ready)
  /\ X \subseteq UserTask
  /\ \A t \in X : s.task_states[t] = Ready
  /\ s.idle \in {None, IdleTask}
  /\ s.idle # None => s.task_states[s.idle] = Ready
  /\ (s.idle = None /\ IdleTask # None) => s.task_states[IdleTask] = Unused
  /\ \A t \in Task : registered(s, t) => s.task_address_space_handles[t] = TaskAs[t]

\* A scheduler between two calls: the queue holds every Ready task but the
\* running, the idle and the exited ones.
Sound(s, X) ==
  /\ Base(s, X)
  /\ Elems(s.ready) = {t \in Task \ X : /\ s.task_states[t] = Ready
                                       /\ t \notin {s.current, s.idle}}
  /\ s.current # None => s.task_states[s.current] = Ready
  /\ (s.current # None /\ ~s.panicked) => s.current \notin X
  /\ s.panicked => s.idle = None

\* A scheduler about to dispatch: the queue holds every Ready task but idle.
Dispatching(s, X) ==
  /\ Base(s, X)
  /\ ~s.panicked
  /\ Elems(s.ready) = {t \in Task \ X : s.task_states[t] = Ready /\ t # s.idle}

\* What a dispatch leaves alone.
SameTasks(s, r) ==
  /\ r.task_states = s.task_states
  /\ r.task_address_space_handles = s.task_address_space_handles
  /\ r.idle = s.idle
  /\ ~r.panicked

LEMMA TaskFacts ==
  /\ None \notin Task
  /\ IdleTask \notin UserTask
  /\ UserTask \subseteq Task
  /\ Ready \in TaskState /\ Unused \in TaskState /\ Ready # Unused
  /\ \A ep \in SlotId : Blocked(ep) \in TaskState /\ Blocked(ep) # Ready /\ Blocked(ep) # Unused
<1>1. None \notin Task
  BY SchedulerAssumption DEF Task
<1>2. IdleTask \notin UserTask /\ UserTask \subseteq Task /\ WaitObject = SlotId
  BY SchedIpcAssumption
<1>3. QED
  BY <1>1, <1>2 DEF TaskState, Ready, Unused, Blocked

\* run_head, from a scheduler about to dispatch.
LEMMA RunHeadSound ==
  ASSUME NEW s, NEW X, Dispatching(s, X), s.ready # <<>>
  PROVE  LET r == run_head(s)
         IN /\ Sound(r, X)
            /\ SameTasks(s, r)
            /\ r.current = Head(s.ready) /\ r.current \in Task
<1> DEFINE r == run_head(s)
           n == Head(s.ready)
<1>1. s \in SchedulerState /\ s.ready \in Seq(Task) /\ Distinct(s.ready)
  BY DEF Dispatching, Base, SchedulerState
<1>2. /\ n \in Task /\ n \in Elems(s.ready)
      /\ Tail(s.ready) \in Seq(Task) /\ Distinct(Tail(s.ready))
      /\ Elems(Tail(s.ready)) = Elems(s.ready) \ {n}
  BY <1>1, TailDistinct
<1>3. s.task_states[n] = Ready /\ n \notin X /\ n # s.idle
  BY <1>2 DEF Dispatching
<1>4. [s.task_states EXCEPT ![n] = Ready] = s.task_states
  BY <1>1, <1>2, <1>3 DEF SchedulerState
<1>5. /\ r.ready = Tail(s.ready)
      /\ r.task_states = s.task_states
      /\ r.task_address_space_handles = s.task_address_space_handles
      /\ r.current = n /\ r.idle = s.idle /\ r.panicked = s.panicked
      /\ r \in SchedulerState
  BY <1>1, <1>2, <1>4, TaskFacts DEF run_head, run, SchedulerState
<1> HIDE DEF r, n
<1>6. Base(r, X)
  BY <1>2, <1>5 DEF Dispatching, Base, registered
<1>7. Elems(r.ready) = {t \in Task \ X : r.task_states[t] = Ready /\ t \notin {r.current, r.idle}}
  BY <1>2, <1>5 DEF Dispatching
<1>8. Sound(r, X)
  BY <1>3, <1>5, <1>6, <1>7 DEF Sound, Dispatching
<1>9. QED
  BY <1>2, <1>5, <1>8 DEF SameTasks, Dispatching, r, n

\* The fallback to the idle task when nothing is queued.
LEMMA RunIdleSound ==
  ASSUME NEW s, NEW X, Dispatching(s, X), s.ready = <<>>, s.idle # None
  PROVE  LET r == run(s, s.idle)
         IN /\ Sound(r, X)
            /\ SameTasks(s, r)
            /\ r.current = s.idle /\ r.current \in Task
<1> DEFINE r == run(s, s.idle)
<1>1. s \in SchedulerState /\ s.idle \in Task /\ s.task_states[s.idle] = Ready
  BY DEF Dispatching, Base, SchedulerState
<1>2. [s.task_states EXCEPT ![s.idle] = Ready] = s.task_states
  BY <1>1 DEF SchedulerState
<1>3. /\ r.ready = s.ready
      /\ r.task_states = s.task_states
      /\ r.task_address_space_handles = s.task_address_space_handles
      /\ r.current = s.idle /\ r.idle = s.idle /\ r.panicked = s.panicked
      /\ r \in SchedulerState
  BY <1>1, <1>2, TaskFacts DEF run, SchedulerState
<1> HIDE DEF r
<1>4. Base(r, X)
  BY <1>3 DEF Dispatching, Base, registered
<1>5. s.idle \notin X
  BY TaskFacts DEF Dispatching, Base
<1>6. Elems(r.ready) = {t \in Task \ X : r.task_states[t] = Ready /\ t \notin {r.current, r.idle}}
  BY <1>3 DEF Dispatching
<1>7. Sound(r, X)
  BY <1>1, <1>3, <1>4, <1>5, <1>6 DEF Sound, Dispatching
<1>8. QED
  BY <1>1, <1>3, <1>7 DEF SameTasks, Dispatching, r

\* start_prelude: a task runs, or nothing is queued, there is no idle task and
\* the kernel panics.
LEMMA StartSound ==
  ASSUME NEW s, NEW X, Dispatching(s, X),
         s.current # None => s.task_states[s.current] = Ready
  PROVE  LET r == start_prelude(s)
         IN /\ Sound(r, X)
            /\ \/ SameTasks(s, r) /\ r.current \in Task
               \/ r = [s EXCEPT !.panicked = TRUE]
<1> DEFINE r == start_prelude(s)
<1>1. CASE s.ready # <<>>
  <2>1. r = run_head(s)
    BY <1>1 DEF start_prelude
  <2>2. QED
    BY <1>1, <2>1, RunHeadSound
<1>2. CASE s.ready = <<>> /\ s.idle # None
  <2>1. r = run(s, s.idle)
    BY <1>2 DEF start_prelude
  <2>2. QED
    BY <1>2, <2>1, RunIdleSound
<1>3. CASE s.ready = <<>> /\ s.idle = None
  <2>1. r = [s EXCEPT !.panicked = TRUE]
    BY <1>3 DEF start_prelude
  <2>2. s \in SchedulerState /\ Elems(s.ready) = {}
    <3>1. Elems(s.ready) = {}
      BY <1>3 DEF Elems
    <3>2. QED
      BY <3>1 DEF Dispatching, Base
  <2>3. /\ r.ready = s.ready
        /\ r.task_states = s.task_states
        /\ r.task_address_space_handles = s.task_address_space_handles
        /\ r.current = s.current /\ r.idle = s.idle /\ r.panicked
        /\ r \in SchedulerState
    BY <2>1, <2>2 DEF SchedulerState
  <2> HIDE DEF r
  <2>4. Base(r, X)
    BY <2>3 DEF Dispatching, Base, registered
  <2>5. Elems(r.ready) = {t \in Task \ X : r.task_states[t] = Ready /\ t \notin {r.current, r.idle}}
    BY <1>3, <2>2, <2>3, TaskFacts DEF Dispatching
  <2>6. Sound(r, X)
    BY <1>3, <2>3, <2>4, <2>5 DEF Sound
  <2>7. QED
    BY <2>1, <2>6 DEF r
<1>4. QED
  BY <1>1, <1>2, <1>3

\* yield_now: requeueing never overflows, the queue stays exact, and some task
\* runs.
LEMMA YieldSound ==
  ASSUME NEW s, NEW X, Sound(s, X), ~s.panicked, s.current \in Task
  PROVE  LET r == yield_now(s)
         IN Sound(r, X) /\ SameTasks(s, r) /\ r.current \in Task
<1> DEFINE r == yield_now(s)
           c == s.current
           q == IF c = s.idle THEN s ELSE enqueue_ready(s, c)
<1>1. /\ s \in SchedulerState /\ s.ready \in Seq(Task) /\ Distinct(s.ready)
      /\ c \notin Elems(s.ready) /\ s.task_states[c] = Ready /\ c # None /\ c \notin X
  BY TaskFacts DEF Sound, Base, SchedulerState
<1>2. [s EXCEPT !.task_states[c] = Ready] = s
  BY <1>1 DEF SchedulerState
<1>3. r = IF q.panicked THEN q
          ELSE IF q.ready # <<>> /\ Head(q.ready) # c THEN run_head(q)
          ELSE IF q.ready # <<>> THEN [q EXCEPT !.ready = Tail(q.ready)]
          ELSE IF q.idle # None /\ q.idle # c THEN run(q, q.idle)
          ELSE q
  BY <1>2 DEF yield_now
<1>4. /\ q.task_states = s.task_states
      /\ q.task_address_space_handles = s.task_address_space_handles
      /\ q.current = c /\ q.idle = s.idle /\ ~q.panicked
      /\ q.ready = IF c = s.idle THEN s.ready ELSE Append(s.ready, c)
      /\ q.ready \in Seq(Task) /\ Distinct(q.ready)
      /\ Elems(q.ready) = Elems(s.ready) \union (IF c = s.idle THEN {} ELSE {c})
      /\ c # s.idle => q.ready # <<>>
      /\ q \in SchedulerState
  <2>1. CASE c = s.idle
    BY <1>1, <2>1
  <2>2. CASE c # s.idle
    <3>1. Len(s.ready) # TaskCapacity
      BY <1>1, RoomForOne
    <3>2. q = [s EXCEPT !.ready = Append(s.ready, c)]
      BY <2>2, <3>1 DEF enqueue_ready, queue_is_full
    <3>3. /\ Append(s.ready, c) \in Seq(Task) /\ Append(s.ready, c) # <<>>
          /\ Distinct(Append(s.ready, c))
          /\ Elems(Append(s.ready, c)) = Elems(s.ready) \union {c}
      BY <1>1, AppendDistinct
    <3> HIDE DEF q
    <3>4. /\ q.task_states = s.task_states
          /\ q.task_address_space_handles = s.task_address_space_handles
          /\ q.current = c /\ q.idle = s.idle /\ ~q.panicked
          /\ q.ready = Append(s.ready, c)
          /\ q \in SchedulerState
      BY <1>1, <3>2, <3>3 DEF SchedulerState
    <3>5. QED
      BY <2>2, <3>3, <3>4
  <2>3. QED
    BY <2>1, <2>2
<1> HIDE DEF q
<1>5. Dispatching(q, X)
  <2>1. Base(q, X)
    BY <1>4 DEF Sound, Base, registered
  <2>2. Elems(q.ready) = {t \in Task \ X : q.task_states[t] = Ready /\ t # q.idle}
    BY <1>1, <1>4 DEF Sound
  <2>3. QED
    BY <1>4, <2>1, <2>2 DEF Dispatching
<1>6. CASE q.ready # <<>> /\ Head(q.ready) # c
  <2>1. r = run_head(q)
    BY <1>3, <1>4, <1>6
  <2>2. QED
    BY <1>4, <1>5, <1>6, <2>1, RunHeadSound DEF SameTasks
<1>7. CASE q.ready # <<>> /\ Head(q.ready) = c
  <2>1. r = [q EXCEPT !.ready = Tail(q.ready)]
    BY <1>3, <1>4, <1>7
  <2>2. /\ c \in Elems(q.ready)
        /\ Tail(q.ready) \in Seq(Task) /\ Distinct(Tail(q.ready))
        /\ Elems(Tail(q.ready)) = Elems(q.ready) \ {c}
    BY <1>4, <1>7, TailDistinct
  <2> HIDE DEF r
  <2>3. /\ r.ready = Tail(q.ready)
        /\ r.task_states = q.task_states
        /\ r.task_address_space_handles = q.task_address_space_handles
        /\ r.current = c /\ r.idle = q.idle /\ ~r.panicked
        /\ r \in SchedulerState
    BY <1>4, <2>1, <2>2 DEF SchedulerState
  <2>4. Base(r, X)
    BY <2>2, <2>3, <1>5 DEF Base, Dispatching, registered
  <2>5. Elems(r.ready) = {t \in Task \ X : r.task_states[t] = Ready /\ t \notin {r.current, r.idle}}
    BY <1>5, <2>2, <2>3 DEF Dispatching
  <2>6. Sound(r, X)
    BY <1>1, <1>4, <2>3, <2>4, <2>5 DEF Sound
  <2>7. QED
    BY <1>4, <2>3, <2>6 DEF SameTasks, r
<1>8. CASE q.ready = <<>>
  <2>1. c = s.idle /\ r = q
    BY <1>3, <1>4, <1>8
  <2>2. q = s
    BY <2>1 DEF q
  <2>3. QED
    BY <2>1, <2>2 DEF SameTasks
<1>9. QED
  BY <1>6, <1>7, <1>8

\* unblock_receiver_on: one blocked task, if there is one, becomes Ready and
\* is queued; the queue has room for it.
LEMMA UnblockSound ==
  ASSUME NEW s, NEW X, Sound(s, X), ~s.panicked, NEW ep \in SlotId
  PROVE  LET r == unblock_receiver_on(s, ep)
         IN /\ Sound(r, X)
            /\ r.current = s.current /\ r.idle = s.idle /\ ~r.panicked
            /\ r.task_address_space_handles = s.task_address_space_handles
            /\ \/ waiting_on(s, ep) = {} /\ r.task_states = s.task_states
               \/ \E t \in waiting_on(s, ep) :
                    r.task_states = [s.task_states EXCEPT ![t] = Ready]
<1> DEFINE r == unblock_receiver_on(s, ep)
           W == waiting_on(s, ep)
<1>1. CASE W = {}
  <2>1. r = s
    BY <1>1 DEF unblock_receiver_on
  <2>2. QED
    BY <1>1, <2>1
<1>2. CASE W # {}
  <2> DEFINE t == CHOOSE i \in W : \A j \in W : i <= j
             m == [s EXCEPT !.task_states[t] = Ready]
  <2>1. t \in W
    <3>1. W \in SUBSET Nat
      BY SchedulerAssumption DEF waiting_on, Task
    <3>2. \E i \in W : \A j \in W : i <= j
      BY <1>2, <3>1, LeastNatural
    <3>3. QED
      BY <3>2
  <2>2. r = enqueue_ready(m, t)
    BY <1>2 DEF unblock_receiver_on
  <2> HIDE DEF t, W
  <2>3. t \in Task /\ s.task_states[t] = Blocked(ep)
    BY <2>1 DEF waiting_on, W
  <2>4. /\ s \in SchedulerState /\ s.ready \in Seq(Task) /\ Distinct(s.ready)
        /\ t \notin Elems(s.ready) /\ t \notin X /\ t # s.idle /\ t # s.current
        /\ ~registered(s, t) => FALSE
    BY <2>3, TaskFacts DEF Sound, Base, SchedulerState, registered
  <2>5. Len(s.ready) # TaskCapacity
    BY <2>3, <2>4, RoomForOne
  <2>6. /\ Append(s.ready, t) \in Seq(Task) /\ Distinct(Append(s.ready, t))
        /\ Elems(Append(s.ready, t)) = Elems(s.ready) \union {t}
    BY <2>3, <2>4, AppendDistinct
  <2>7. m.ready = s.ready /\ m \in SchedulerState
    BY <2>3, <2>4, TaskFacts DEF SchedulerState
  <2>8. r = [m EXCEPT !.ready = Append(s.ready, t)]
    BY <2>2, <2>5, <2>7 DEF enqueue_ready, queue_is_full
  <2> HIDE DEF r
  <2>9. /\ r.ready = Append(s.ready, t)
        /\ r.task_states = [s.task_states EXCEPT ![t] = Ready]
        /\ r.task_address_space_handles = s.task_address_space_handles
        /\ r.current = s.current /\ r.idle = s.idle /\ r.panicked = s.panicked
        /\ r \in SchedulerState
    BY <2>3, <2>4, <2>6, <2>8, TaskFacts DEF SchedulerState
  <2>10. /\ r.task_states[t] = Ready
         /\ \A u \in Task \ {t} : r.task_states[u] = s.task_states[u]
    BY <2>3, <2>4, <2>9 DEF SchedulerState
  <2>11. Base(r, X)
    <3>1. X \subseteq Task \ {t} /\ (s.idle # None => s.idle \in Task \ {t})
      BY <2>4, TaskFacts DEF Sound, Base, SchedulerState
    <3>2. (s.idle = None /\ IdleTask # None) => IdleTask \in Task /\ t # IdleTask
      BY <2>3, TaskFacts, SchedIpcAssumption DEF Sound, Base
    <3>3. \A u \in Task : registered(r, u) => r.task_address_space_handles[u] = TaskAs[u]
      BY <2>4, <2>9, <2>10 DEF Sound, Base, registered
    <3>4. QED
      BY <2>6, <2>9, <2>10, <3>1, <3>2, <3>3 DEF Sound, Base
  <2>12. Elems(r.ready) = {u \in Task \ X : r.task_states[u] = Ready /\ u \notin {r.current, r.idle}}
    BY <2>3, <2>4, <2>6, <2>9, <2>10 DEF Sound
  <2>13. s.current # None => s.current \in Task \ {t}
    BY <2>4 DEF SchedulerState
  <2>14. Sound(r, X)
    BY <2>9, <2>10, <2>11, <2>12, <2>13 DEF Sound
  <2>15. QED
    BY <2>1, <2>9, <2>14 DEF r, W
<1>3. QED
  BY <1>1, <1>2

\* The blocking half of ipc_recv_and_yield, with a candidate to run: the caller,
\* a kernel task, is Blocked and out of the queue, and another task runs.
LEMMA BlockSound ==
  ASSUME NEW s, NEW X, Sound(s, X), ~s.panicked, s.current \in KernelTask,
         can_block(s), NEW ep \in SlotId
  PROVE  LET r == block_current(s, ep)
         IN /\ Sound(r, X)
            /\ r.task_states = [s.task_states EXCEPT ![s.current] = Blocked(ep)]
            /\ r.task_address_space_handles = s.task_address_space_handles
            /\ r.idle = s.idle /\ ~r.panicked
            /\ r.current \in Task /\ r.current # s.current
<1> DEFINE r == block_current(s, ep)
           c == s.current
           b == [s EXCEPT !.task_states[c] = Blocked(ep), !.current = None]
<1>1. /\ s \in SchedulerState /\ c \in Task /\ c \notin UserTask /\ c # IdleTask
      /\ s.task_states[c] = Ready /\ c # None /\ c # s.idle /\ c \notin X
  BY TaskFacts DEF KernelTask, Sound, Base
<1>2. r = IF b.ready # <<>> THEN run_head(b) ELSE run(b, b.idle)
  BY DEF block_current
<1> HIDE DEF b
<1>3. /\ b.ready = s.ready
      /\ b.task_states = [s.task_states EXCEPT ![c] = Blocked(ep)]
      /\ b.task_address_space_handles = s.task_address_space_handles
      /\ b.current = None /\ b.idle = s.idle /\ b.panicked = s.panicked
      /\ b \in SchedulerState
  BY <1>1, TaskFacts DEF SchedulerState, b
<1>4. /\ b.task_states[c] # Ready /\ registered(s, c)
      /\ \A u \in Task \ {c} : b.task_states[u] = s.task_states[u]
  BY <1>1, <1>3, TaskFacts DEF SchedulerState, registered
<1>5. Base(b, X)
  <2>1. X \subseteq Task \ {c} /\ (s.idle # None => s.idle \in Task \ {c})
    BY <1>1, TaskFacts DEF Sound, Base, SchedulerState
  <2>2. (s.idle = None /\ IdleTask # None) => IdleTask \in Task \ {c}
    BY <1>1, SchedIpcAssumption
  <2>3. \A u \in Task : registered(b, u) => b.task_address_space_handles[u] = TaskAs[u]
    BY <1>3, <1>4 DEF Sound, Base, registered
  <2>4. QED
    BY <1>3, <1>4, <2>1, <2>2, <2>3 DEF Sound, Base
<1>6. Elems(b.ready) = {u \in Task \ X : b.task_states[u] = Ready /\ u # b.idle}
  BY <1>1, <1>3, <1>4 DEF Sound
<1>7. Dispatching(b, X)
  BY <1>3, <1>5, <1>6 DEF Dispatching
<1>8. b.ready # <<>> \/ (b.ready = <<>> /\ b.idle # None)
  BY <1>3 DEF can_block
<1>9. Sound(r, X) /\ SameTasks(b, r) /\ r.current \in Task
  <2>1. CASE b.ready # <<>>
    BY <1>2, <1>7, <2>1, RunHeadSound
  <2>2. CASE b.ready = <<>> /\ b.idle # None
    BY <1>2, <1>7, <2>2, RunIdleSound
  <2>3. QED
    BY <1>8, <2>1, <2>2
<1>10. r.current # c
  BY <1>4, <1>9, TaskFacts DEF Sound, SameTasks
<1>11. QED
  BY <1>3, <1>9, <1>10 DEF SameTasks

\* add_task and add_user_task, during boot, of a task not yet registered.
LEMMA AddSound ==
  ASSUME NEW s, NEW X, Sound(s, X), s.current = None, ~s.panicked,
         NEW t \in Task, t # IdleTask, ~registered(s, t)
  PROVE  LET r == add_task(s, t, TaskAs[t])
         IN Sound(r, X) /\ r.current = None
            /\ r.task_states = [s.task_states EXCEPT ![t] = Ready]
<1> DEFINE r == add_task(s, t, TaskAs[t])
<1>1. /\ s \in SchedulerState /\ s.ready \in Seq(Task) /\ Distinct(s.ready)
      /\ s.task_states[t] = Unused /\ t \notin X /\ t # s.idle /\ t \notin Elems(s.ready)
  BY TaskFacts DEF Sound, Base, SchedulerState, registered
<1>2. TaskAs[t] \in AddressSpace
  BY SchedIpcAssumption
<1>3. /\ Append(s.ready, t) \in Seq(Task) /\ Distinct(Append(s.ready, t))
      /\ Elems(Append(s.ready, t)) = Elems(s.ready) \union {t}
  BY <1>1, AppendDistinct
<1>4. /\ r.ready = Append(s.ready, t)
      /\ r.task_states = [s.task_states EXCEPT ![t] = Ready]
      /\ r.task_address_space_handles = [s.task_address_space_handles EXCEPT ![t] = TaskAs[t]]
      /\ r.current = s.current /\ r.idle = s.idle /\ r.panicked = s.panicked
      /\ r \in SchedulerState
  BY <1>1, <1>2, <1>3, TaskFacts DEF SchedulerState, add_task, register
<1> HIDE DEF r
<1>5. /\ r.task_states[t] = Ready /\ r.task_address_space_handles[t] = TaskAs[t]
      /\ \A u \in Task \ {t} : /\ r.task_states[u] = s.task_states[u]
                               /\ r.task_address_space_handles[u] = s.task_address_space_handles[u]
  BY <1>1, <1>4 DEF SchedulerState
<1>6. Base(r, X)
  <2>1. X \subseteq Task \ {t} /\ (s.idle # None => s.idle \in Task \ {t})
    BY <1>1, TaskFacts DEF Sound, Base, SchedulerState
  <2>2. (s.idle = None /\ IdleTask # None) => IdleTask \in Task \ {t}
    BY SchedIpcAssumption
  <2>3. \A u \in Task : registered(r, u) => r.task_address_space_handles[u] = TaskAs[u]
    BY <1>5 DEF Sound, Base, registered
  <2>4. QED
    BY <1>3, <1>4, <1>5, <2>1, <2>2, <2>3 DEF Sound, Base
<1>7. Elems(r.ready) = {u \in Task \ X : r.task_states[u] = Ready /\ u \notin {r.current, r.idle}}
  BY <1>1, <1>3, <1>4, <1>5, TaskFacts DEF Sound
<1>8. Sound(r, X)
  BY <1>4, <1>6, <1>7 DEF Sound
<1>9. QED
  BY <1>4, <1>8 DEF r

\* register_idle, during boot: the idle task is Ready and never queued.
LEMMA RegisterIdleSound ==
  ASSUME NEW s, NEW X, Sound(s, X), s.current = None, ~s.panicked,
         IdleTask # None, s.idle = None
  PROVE  LET r == register_idle(s, IdleTask, TaskAs[IdleTask])
         IN Sound(r, X) /\ r.current = None
            /\ r.task_states = [s.task_states EXCEPT ![IdleTask] = Ready]
<1> DEFINE r == register_idle(s, IdleTask, TaskAs[IdleTask])
           t == IdleTask
<1>1. /\ s \in SchedulerState /\ t \in Task
      /\ s.task_states[t] = Unused /\ t \notin X /\ t \notin Elems(s.ready)
  BY TaskFacts, SchedIpcAssumption DEF Sound, Base, SchedulerState
<1>2. TaskAs[t] \in AddressSpace
  BY <1>1, SchedIpcAssumption
<1>3. /\ r.ready = s.ready
      /\ r.task_states = [s.task_states EXCEPT ![t] = Ready]
      /\ r.task_address_space_handles = [s.task_address_space_handles EXCEPT ![t] = TaskAs[t]]
      /\ r.current = s.current /\ r.idle = t /\ r.panicked = s.panicked
      /\ r \in SchedulerState
  BY <1>1, <1>2, TaskFacts DEF SchedulerState, register_idle, register
<1> HIDE DEF r
<1>4. /\ r.task_states[t] = Ready /\ r.task_address_space_handles[t] = TaskAs[t]
      /\ \A u \in Task \ {t} : /\ r.task_states[u] = s.task_states[u]
                               /\ r.task_address_space_handles[u] = s.task_address_space_handles[u]
  BY <1>1, <1>3 DEF SchedulerState
<1>5. Base(r, X)
  <2>1. X \subseteq Task \ {t}
    BY <1>1, TaskFacts DEF Sound, Base
  <2>2. \A u \in Task : registered(r, u) => r.task_address_space_handles[u] = TaskAs[u]
    BY <1>4 DEF Sound, Base, registered
  <2>3. QED
    BY <1>3, <1>4, <2>1, <2>2 DEF Sound, Base
<1>6. Elems(r.ready) = {u \in Task \ X : r.task_states[u] = Ready /\ u \notin {r.current, r.idle}}
  BY <1>1, <1>3, <1>4, TaskFacts DEF Sound
<1>7. Sound(r, X)
  BY <1>3, <1>5, <1>6 DEF Sound
<1>8. QED
  BY <1>3, <1>7 DEF r

-----------------------------------------------------------------------------
(* The machine of SchedIpc.                                                *)

Typed ==
  /\ active_as \in AddressSpace
  /\ frame \in [Task -> CapHandle \union {None}]
  /\ tables \in [Task -> CapabilityTable]
  /\ \A t \in Task : WellFormed(tables[t])
  /\ queues \in IpcQueues

\* The inductive invariant.  ReadyQueueExact needs what Sound adds to it: idle
\* and the running task are Ready (or a task could be lost when it is
\* requeued), exited tasks are in EL0 and never Blocked (or a wake-up could
\* requeue one).  OwnAddressSpace needs the handles of registered tasks.  The
\* tables are well formed because a call rewrites the table of its caller.
IInv ==
  /\ Typed
  /\ Sound(sched, exited)
  /\ OwnAddressSpace

LEMMA InitIInv == Init => IInv
<1> SUFFICES ASSUME Init PROVE IInv
  OBVIOUS
<1>1. NewQueues \in IpcQueues
  BY StateTypes, ArenaAssumption DEF NewQueues, IpcQueues, SlotGeneration
<1>2. Typed
  BY <1>1, SchedIpcAssumption DEF Init, Typed
<1>3. /\ sched.ready = <<>> /\ sched.task_states = [t \in Task |-> Unused]
      /\ sched.current = None /\ sched.idle = None /\ ~sched.panicked /\ exited = {}
      /\ sched \in SchedulerState
  BY TaskFacts, EmptySeq DEF Init, NewScheduler, SchedulerState
<1>4. Distinct(sched.ready) /\ Elems(sched.ready) = {}
  BY <1>3 DEF Distinct, Elems
<1>5. Base(sched, exited)
  BY <1>3, <1>4, SchedIpcAssumption DEF Base, registered
<1>6. Elems(sched.ready) = {t \in Task \ exited : /\ sched.task_states[t] = Ready
                                                 /\ t \notin {sched.current, sched.idle}}
  BY <1>3, <1>4, TaskFacts
<1>7. QED
  BY <1>2, <1>3, <1>5, <1>6 DEF IInv, Sound, OwnAddressSpace

\* The hook of a switch leaves the next task under its own address space.
LEMMA SwitchActivates ==
  ASSUME IInv, sched.current \in Task, NEW s, NEW X, Sound(s, X), s.current \in Task,
         registered(s, sched.current), Switched(s)
  PROVE  sched' = s /\ active_as' = TaskAs[s.current]
<1>1. /\ sched' = s
      /\ active_as' = activation_target(s.task_address_space_handles[sched.current],
                                        s.task_address_space_handles[s.current], active_as)
  BY DEF Switched
<1>2. registered(s, s.current)
  BY TaskFacts DEF Sound, registered
<1>3. /\ s.task_address_space_handles[sched.current] = TaskAs[sched.current]
      /\ s.task_address_space_handles[s.current] = TaskAs[s.current]
  BY <1>2 DEF Sound, Base
<1>4. TaskAs[sched.current] # None /\ TaskAs[s.current] # None
  BY SchedIpcAssumption, SchedulerAssumption
<1>5. active_as = TaskAs[sched.current]
  BY TaskFacts DEF IInv, OwnAddressSpace
<1>6. QED
  BY <1>1, <1>3, <1>4, <1>5 DEF activation_target

\* The same for the unconditional activation of run_dispatched.
LEMMA DispatchActivates ==
  ASSUME NEW s, NEW X, Sound(s, X), s.current \in Task, ~s.panicked, Dispatched(s)
  PROVE  sched' = s /\ active_as' = TaskAs[s.current]
<1>1. registered(s, s.current)
  BY TaskFacts DEF Sound, registered
<1>2. QED
  BY <1>1 DEF Sound, Base, Dispatched

\* The current task of a running scheduler is registered.
LEMMA RunningFacts ==
  ASSUME IInv, NEW t \in Task, sched.current = t, ~sched.panicked
  PROVE  /\ Sound(sched, exited) /\ sched.current \in Task
         /\ sched.task_states[t] = Ready /\ registered(sched, t) /\ t \notin exited
         /\ sched \in SchedulerState
         /\ tables[t] \in CapabilityTable /\ WellFormed(tables[t])
  BY TaskFacts DEF IInv, Sound, Base, registered, Typed

\* A call that rewrites the caller's table and the queues keeps them typed.
LEMMA TypedStep ==
  ASSUME IInv, NEW t \in Task, NEW u \in CapabilityTable, WellFormed(u),
         tables' = [tables EXCEPT ![t] = u], queues' \in IpcQueues,
         active_as' \in AddressSpace, frame' \in [Task -> CapHandle \union {None}]
  PROVE  Typed'
  BY DEF IInv, Typed

\* A step that leaves the scheduler and the address space alone.
LEMMA QuietStep ==
  ASSUME IInv, UNCHANGED <<sched, active_as, exited>>, Typed'
  PROVE  IInv'
  BY DEF IInv, Sound, Base, OwnAddressSpace

LEMMA AddTaskStep ==
  ASSUME IInv, NEW t \in Task, AddTask(t)
  PROVE  IInv'
<1>1. /\ sched.current = None /\ ~sched.panicked /\ t # IdleTask /\ ~registered(sched, t)
      /\ sched' = add_task(sched, t, TaskAs[t])
      /\ UNCHANGED <<active_as, frame, tables, queues, exited>>
  BY DEF AddTask, booting, add_user_task
<1>2. Sound(sched', exited) /\ sched'.current = None
  BY <1>1, AddSound DEF IInv
<1>3. QED
  BY <1>1, <1>2 DEF IInv, Typed, OwnAddressSpace

LEMMA RegisterIdleStep ==
  ASSUME IInv, RegisterIdle
  PROVE  IInv'
<1>1. /\ sched.current = None /\ ~sched.panicked /\ IdleTask # None /\ sched.idle = None
      /\ sched' = register_idle(sched, IdleTask, TaskAs[IdleTask])
      /\ UNCHANGED <<active_as, frame, tables, queues, exited>>
  BY DEF RegisterIdle, booting
<1>2. Sound(sched', exited) /\ sched'.current = None
  BY <1>1, RegisterIdleSound DEF IInv
<1>3. QED
  BY <1>1, <1>2 DEF IInv, Typed, OwnAddressSpace

\* start_prelude from a scheduler about to dispatch, and run_dispatched.
LEMMA PreludeStep ==
  ASSUME IInv, ~sched.panicked, NEW X, Dispatching(sched, X), exited' = X,
         Dispatched(start_prelude(sched)), UNCHANGED <<frame, tables, queues>>
  PROVE  IInv'
<1> DEFINE r == start_prelude(sched)
<1>1. sched.current # None => sched.task_states[sched.current] = Ready
  BY DEF IInv, Sound
<1>2. /\ Sound(r, X)
      /\ \/ SameTasks(sched, r) /\ r.current \in Task
         \/ r = [sched EXCEPT !.panicked = TRUE]
  BY <1>1, StartSound
<1>3. sched' = r /\ active_as' = IF r.panicked THEN active_as
                                 ELSE r.task_address_space_handles[r.current]
  BY DEF Dispatched
<1> HIDE DEF r
<1>4. active_as' \in AddressSpace /\ (r.current # None => active_as' = TaskAs[r.current])
  <2>1. CASE SameTasks(sched, r) /\ r.current \in Task
    <3>1. registered(r, r.current) /\ ~r.panicked
      BY <1>2, <2>1, TaskFacts DEF Sound, registered, SameTasks
    <3>2. active_as' = TaskAs[r.current]
      BY <1>2, <1>3, <2>1, <3>1 DEF Sound, Base
    <3>3. QED
      BY <2>1, <3>2, SchedIpcAssumption
  <2>2. CASE r = [sched EXCEPT !.panicked = TRUE]
    <3>1. r.current = sched.current /\ r.panicked
      BY <2>2 DEF IInv, Sound, Base, SchedulerState
    <3>2. QED
      BY <1>3, <3>1 DEF IInv, Typed, OwnAddressSpace
  <2>3. QED
    BY <1>2, <2>1, <2>2
<1>5. Typed'
  BY <1>4 DEF IInv, Typed
<1>6. QED
  BY <1>2, <1>3, <1>4, <1>5 DEF IInv, OwnAddressSpace

LEMMA StartStep ==
  ASSUME IInv, Start
  PROVE  IInv'
<1>1. /\ sched.current = None /\ ~sched.panicked
      /\ Dispatched(start_prelude(sched))
      /\ UNCHANGED <<frame, tables, queues, exited>>
  BY DEF Start, booting
<1>2. Dispatching(sched, exited)
  BY <1>1, TaskFacts DEF IInv, Sound, Dispatching
<1>3. QED
  BY <1>1, <1>2, PreludeStep

LEMMA TaskExitStep ==
  ASSUME IInv, NEW t \in Task, TaskExit(t)
  PROVE  IInv'
<1> DEFINE X == exited \union {t}
<1>1. /\ sched.current = t /\ ~sched.panicked /\ t \in UserTask
      /\ Dispatched(start_prelude(sched)) /\ exited' = X
      /\ UNCHANGED <<frame, tables, queues>>
  BY DEF TaskExit, Running
<1>2. Base(sched, X)
  BY <1>1, RunningFacts DEF IInv, Sound, Base
<1>3. Elems(sched.ready) = {u \in Task \ X : sched.task_states[u] = Ready /\ u # sched.idle}
  BY <1>1 DEF IInv, Sound
<1>4. Dispatching(sched, X)
  BY <1>1, <1>2, <1>3 DEF Dispatching
<1>5. QED
  BY <1>1, <1>4, PreludeStep

\* A switch to a scheduler whose queue is exact.
LEMMA SwitchStep ==
  ASSUME IInv, sched.current \in Task, NEW s, Sound(s, exited), s.current \in Task,
         registered(s, sched.current), Switched(s), UNCHANGED exited,
         NEW t \in Task, NEW u \in CapabilityTable, WellFormed(u),
         tables' = [tables EXCEPT ![t] = u], queues' \in IpcQueues,
         frame' \in [Task -> CapHandle \union {None}]
  PROVE  IInv'
<1>1. sched' = s /\ active_as' = TaskAs[s.current]
  BY SwitchActivates
<1>2. active_as' \in AddressSpace
  BY <1>1, SchedIpcAssumption
<1>3. Typed'
  BY <1>2, TypedStep
<1>4. QED
  BY <1>1, <1>3 DEF IInv, OwnAddressSpace

LEMMA YieldStep ==
  ASSUME IInv, NEW t \in Task, Yield(t)
  PROVE  IInv'
<1>1. /\ sched.current = t /\ ~sched.panicked
      /\ Switched(yield_now(sched)) /\ UNCHANGED <<frame, tables, queues, exited>>
  BY DEF Yield, Running
<1> DEFINE s == yield_now(sched)
<1>2. Sound(s, exited) /\ SameTasks(sched, s) /\ s.current \in Task
  BY <1>1, RunningFacts, YieldSound
<1>3. registered(s, sched.current)
  BY <1>1, <1>2, RunningFacts DEF SameTasks, registered
<1> HIDE DEF s
<1>4. tables' = [tables EXCEPT ![t] = tables[t]]
  BY <1>1 DEF IInv, Typed
<1>5. queues' \in IpcQueues /\ frame' \in [Task -> CapHandle \union {None}]
  BY <1>1 DEF IInv, Typed
<1>6. QED
  BY <1>1, <1>2, <1>3, <1>4, <1>5, RunningFacts, SwitchStep DEF s

LEMMA SendAndYieldStep ==
  ASSUME IInv, NEW t \in Task, NEW c \in CapHandle, NEW m \in Message,
         NEW x \in CapHandle \union {None}, SendAndYield(t, c, m, x)
  PROVE  IInv'
<1> DEFINE r == ipc_send(EpArena, queues, tables[t], c, m, x)
           ep == handle_of(tables[t], c)
           w == unblock_receiver_on(sched, ep)
           s == yield_now(w)
<1>1. /\ sched.current = t /\ ~sched.panicked
      /\ tables' = [tables EXCEPT ![t] = r.table] /\ queues' = r.queues
      /\ IF r.result = "Delivered" THEN Switched(s) ELSE UNCHANGED <<sched, active_as>>
      /\ UNCHANGED <<frame, exited>>
  BY DEF SendAndYield, Running
<1>2. /\ Sound(sched, exited) /\ sched.current \in Task /\ registered(sched, t)
      /\ tables[t] \in CapabilityTable /\ WellFormed(tables[t]) /\ queues \in IpcQueues
  BY <1>1, RunningFacts DEF IInv, Typed
<1>3. /\ r.table \in CapabilityTable /\ WellFormed(r.table) /\ r.queues \in IpcQueues
      /\ SendOutcome(EpArena, queues, tables[t], c, m, x, r)
  BY <1>2, SendCases
<1>4. frame' \in [Task -> CapHandle \union {None}]
  BY <1>1 DEF IInv, Typed
<1>5. CASE r.result # "Delivered"
  <2>1. UNCHANGED <<sched, active_as, exited>>
    BY <1>1, <1>5
  <2>2. active_as' \in AddressSpace
    BY <2>1 DEF IInv, Typed
  <2> HIDE DEF r
  <2>3. QED
    BY <1>1, <1>3, <1>4, <2>1, <2>2, TypedStep, QuietStep
<1>6. CASE r.result = "Delivered"
  <2>1. ep \in SlotId
    BY <1>3, <1>6 DEF SendOutcome, Grip
  <2>2. /\ Sound(w, exited) /\ w.current = t /\ ~w.panicked
    BY <1>1, <1>2, <2>1, UnblockSound
  <2> HIDE DEF r, ep, w
  <2>3. Sound(s, exited) /\ SameTasks(w, s) /\ s.current \in Task
    BY <2>2, YieldSound
  <2>4. registered(s, t)
    BY <2>2, <2>3, TaskFacts DEF SameTasks, registered, Sound
  <2> HIDE DEF s
  <2>5. Switched(s)
    BY <1>1, <1>6
  <2>6. QED
    BY <1>1, <1>2, <1>3, <1>4, <2>3, <2>4, <2>5, SwitchStep
<1>7. QED
  BY <1>5, <1>6

LEMMA RecvAndYieldStep ==
  ASSUME IInv, NEW t \in Task, NEW c \in CapHandle, RecvAndYield(t, c)
  PROVE  IInv'
<1> DEFINE r == ipc_recv(EpArena, queues, tables[t], c)
           ep == handle_of(tables[t], c)
           k == ipc_cancel_recv(EpArena, r.queues, tables[t], c)
           s == block_current(sched, ep)
<1>1. /\ sched.current = t /\ ~sched.panicked /\ t \in KernelTask
      /\ tables' = [tables EXCEPT ![t] = r.table]
      /\ IF r.result = "Pending" THEN BlockOrRollBack(t, c, r.queues)
         ELSE queues' = r.queues /\ UNCHANGED <<sched, active_as, frame>>
      /\ UNCHANGED exited
  BY DEF RecvAndYield, Running
<1>2. /\ Sound(sched, exited) /\ sched.current \in Task /\ registered(sched, t)
      /\ tables[t] \in CapabilityTable /\ WellFormed(tables[t]) /\ queues \in IpcQueues
      /\ sched \in SchedulerState
      /\ frame \in [Task -> CapHandle \union {None}] /\ active_as \in AddressSpace
  BY <1>1, RunningFacts DEF IInv, Typed
<1>3. /\ r.table \in CapabilityTable /\ WellFormed(r.table) /\ r.queues \in IpcQueues
      /\ RecvOutcome(EpArena, queues, tables[t], c, r)
  BY <1>2, RecvCases
<1>4. CASE r.result # "Pending"
  <2> HIDE DEF r
  <2>1. queues' \in IpcQueues /\ UNCHANGED <<sched, active_as, exited, frame>>
    BY <1>1, <1>3, <1>4
  <2>2. QED
    BY <1>1, <1>2, <1>3, <2>1, TypedStep, QuietStep
<1>5. CASE r.result = "Pending" /\ ~can_block(sched)
  <2>1. queues' = k.queues /\ UNCHANGED <<sched, active_as, exited, frame>>
    BY <1>1, <1>5 DEF BlockOrRollBack
  <2>2. k.queues \in IpcQueues
    BY <1>2, <1>3, CancelCases
  <2> HIDE DEF r, k
  <2>3. QED
    BY <1>1, <1>2, <1>3, <2>1, <2>2, TypedStep, QuietStep
<1>6. CASE r.result = "Pending" /\ can_block(sched)
  <2>1. /\ Switched(s) /\ queues' = r.queues
        /\ frame' = [frame EXCEPT ![t] = c]
    BY <1>1, <1>6 DEF BlockOrRollBack
  <2>2. ep \in SlotId
    BY <1>3, <1>6 DEF RecvOutcome, Grip
  <2>3. /\ Sound(s, exited) /\ s.current \in Task
        /\ s.task_states = [sched.task_states EXCEPT ![t] = Blocked(ep)]
    BY <1>1, <1>2, <1>6, <2>2, BlockSound
  <2>4. registered(s, t)
    BY <1>2, <2>2, <2>3, TaskFacts DEF registered, SchedulerState
  <2>5. frame' \in [Task -> CapHandle \union {None}]
    BY <1>2, <2>1
  <2> HIDE DEF s, r
  <2>6. QED
    BY <1>1, <1>2, <1>3, <2>1, <2>3, <2>4, <2>5, SwitchStep
<1>7. QED
  BY <1>4, <1>5, <1>6

LEMMA ResumeStep ==
  ASSUME IInv, NEW t \in Task, Resume(t)
  PROVE  IInv'
<1> DEFINE r == ipc_recv(EpArena, queues, tables[t], frame[t])
<1>1. /\ sched.current = t /\ ~sched.panicked /\ frame[t] # None
      /\ tables' = [tables EXCEPT ![t] = r.table] /\ queues' = r.queues
      /\ frame' = [frame EXCEPT ![t] = None]
      /\ UNCHANGED <<sched, active_as, exited>>
  BY DEF Resume
<1>2. /\ tables[t] \in CapabilityTable /\ WellFormed(tables[t]) /\ queues \in IpcQueues
      /\ frame[t] \in CapHandle /\ active_as \in AddressSpace
      /\ frame' \in [Task -> CapHandle \union {None}]
  BY <1>1 DEF IInv, Typed
<1>3. r.table \in CapabilityTable /\ WellFormed(r.table) /\ r.queues \in IpcQueues
  BY <1>2, RecvCases
<1> HIDE DEF r
<1>4. QED
  BY <1>1, <1>2, <1>3, TypedStep, QuietStep

LEMMA SysSendStep ==
  ASSUME IInv, NEW t \in Task, NEW c \in CapHandle, NEW m \in Message,
         NEW x \in CapHandle \union {None}, SysSend(t, c, m, x)
  PROVE  IInv'
<1> DEFINE r == ipc_send(EpArena, queues, tables[t], c, m, x)
<1>1. /\ tables' = [tables EXCEPT ![t] = r.table] /\ queues' = r.queues
      /\ UNCHANGED <<sched, active_as, frame, exited>>
  BY DEF SysSend
<1>2. /\ tables[t] \in CapabilityTable /\ WellFormed(tables[t]) /\ queues \in IpcQueues
      /\ active_as' \in AddressSpace /\ frame' \in [Task -> CapHandle \union {None}]
  BY <1>1 DEF IInv, Typed
<1>3. r.table \in CapabilityTable /\ WellFormed(r.table) /\ r.queues \in IpcQueues
  BY <1>2, SendCases
<1> HIDE DEF r
<1>4. QED
  BY <1>1, <1>2, <1>3, TypedStep, QuietStep

LEMMA SysRecvStep ==
  ASSUME IInv, NEW t \in Task, NEW c \in CapHandle, SysRecv(t, c)
  PROVE  IInv'
<1> DEFINE r == ipc_recv(EpArena, queues, tables[t], c)
<1>1. /\ tables' = [tables EXCEPT ![t] = r.table] /\ queues' = r.queues
      /\ UNCHANGED <<sched, active_as, frame, exited>>
  BY DEF SysRecv
<1>2. /\ tables[t] \in CapabilityTable /\ WellFormed(tables[t]) /\ queues \in IpcQueues
      /\ active_as' \in AddressSpace /\ frame' \in [Task -> CapHandle \union {None}]
  BY <1>1 DEF IInv, Typed
<1>3. r.table \in CapabilityTable /\ WellFormed(r.table) /\ r.queues \in IpcQueues
  BY <1>2, RecvCases
<1> HIDE DEF r
<1>4. QED
  BY <1>1, <1>2, <1>3, TypedStep, QuietStep

LEMMA StutterStep ==
  ASSUME IInv, UNCHANGED vars
  PROVE  IInv'
<1>1. UNCHANGED <<sched, active_as, exited, frame, tables, queues>>
  BY DEF vars
<1>2. Typed'
  BY <1>1 DEF IInv, Typed
<1>3. QED
  BY <1>1, <1>2, QuietStep

LEMMA NextIInv == IInv /\ [Next]_vars => IInv'
<1> SUFFICES ASSUME IInv, [Next]_vars PROVE IInv'
  OBVIOUS
<1>1. ASSUME NEW t \in Task, AddTask(t) PROVE IInv'
  BY <1>1, AddTaskStep
<1>2. CASE RegisterIdle
  BY <1>2, RegisterIdleStep
<1>3. CASE Start
  BY <1>3, StartStep
<1>4. ASSUME NEW t \in Task, Yield(t) PROVE IInv'
  BY <1>4, YieldStep
<1>5. ASSUME NEW t \in Task, NEW h \in CapHandle, NEW m \in Message,
             NEW x \in CapHandle \union {None}, SendAndYield(t, h, m, x)
      PROVE  IInv'
  BY <1>5, SendAndYieldStep
<1>6. ASSUME NEW t \in Task, NEW h \in CapHandle, RecvAndYield(t, h) PROVE IInv'
  BY <1>6, RecvAndYieldStep
<1>7. ASSUME NEW t \in Task, Resume(t) PROVE IInv'
  BY <1>7, ResumeStep
<1>8. ASSUME NEW t \in Task, NEW h \in CapHandle, NEW m \in Message,
             NEW x \in CapHandle \union {None}, SysSend(t, h, m, x)
      PROVE  IInv'
  BY <1>8, SysSendStep
<1>9. ASSUME NEW t \in Task, NEW h \in CapHandle, SysRecv(t, h) PROVE IInv'
  BY <1>9, SysRecvStep
<1>10. ASSUME NEW t \in Task, TaskExit(t) PROVE IInv'
  BY <1>10, TaskExitStep
<1>11. CASE Halt \/ UNCHANGED vars
  BY <1>11, StutterStep DEF Halt
<1>12. QED
  BY <1>1, <1>2, <1>3, <1>4, <1>5, <1>6, <1>7, <1>8, <1>9, <1>10, <1>11 DEF Next

\* The bridge keeps its inductive invariant, for every number of tasks.
THEOREM BridgeInvariant == Spec => []IInv
  BY InitIInv, NextIInv, PTL DEF Spec

\* enqueue_ready and the dequeues keep the ready queue exact: every runnable
\* task is in it once and nothing else is.
THEOREM ReadyQueueCorrect == Spec => []ReadyQueueExact
<1>1. IInv => ReadyQueueExact
  BY DEF IInv, Sound, Base, ReadyQueueExact, Queued, Elems, Distinct
<1>2. QED
  BY <1>1, BridgeInvariant, PTL

\* With an idle task no call of any task reaches a panic of the scheduler.
THEOREM NeverPanicsCorrect == Spec => []NeverPanics
<1>1. IInv => NeverPanics
  BY DEF IInv, Sound, NeverPanics
<1>2. QED
  BY <1>1, BridgeInvariant, PTL

\* The running task runs under the address space it was registered with.
THEOREM OwnAddressSpaceCorrect == Spec => []OwnAddressSpace
<1>1. IInv => OwnAddressSpace
  BY DEF IInv
<1>2. QED
  BY <1>1, BridgeInvariant, PTL

-----------------------------------------------------------------------------
(* The queues.  No endpoint is destroyed, so no slot leaves its first      *)
(* generation and no access resets one.                                    *)

FirstGeneration(q) == \A i \in SlotIndex : q.slot_generations[i] = 0

LEMMA GripFirst ==
  ASSUME NEW t, NEW c, NEW r, Grip(EpArena, t, c, r)
  PROVE  handle_of(t, c) \in SlotId /\ handle_of(t, c).generation = 0
  BY DEF Grip, contains, EpArena, SlotId

\* peek_state on such queues, before and after a write.
LEMMA PeekFirst ==
  ASSUME NEW q \in IpcQueues, FirstGeneration(q), NEW h \in SlotId
  PROVE  /\ peek_state(q, h) = IF h.generation = 0 THEN q.states[h.index] ELSE Idle
         /\ peek_state(q, h) \in EndpointState
         /\ h.generation = 0 => reset_if_stale_generation(q, h) = q
<1>1. h.index \in SlotIndex
  BY DEF SlotId
<1>2. q.slot_generations[h.index] = 0
  BY <1>1 DEF FirstGeneration
<1>3. QED
  BY <1>2, PeekType DEF reset_if_stale_generation, SlotId

LEMMA WriteFirst ==
  ASSUME NEW q \in IpcQueues, FirstGeneration(q), NEW h \in SlotId, h.generation = 0,
         NEW s \in EndpointState
  PROVE  /\ FirstGeneration(set_state(q, h, s))
         /\ \A g \in SlotId : peek_state(set_state(q, h, s), g) =
                                IF g = h THEN s ELSE peek_state(q, g)
<1> DEFINE u == set_state(q, h, s)
<1>1. u.slot_generations = [q.slot_generations EXCEPT ![h.index] = h.generation]
  BY SetFields
<1>2. h.index \in SlotIndex /\ q.slot_generations \in [SlotIndex -> SlotGeneration]
  BY DEF SlotId, IpcQueues
<1> HIDE DEF u
<1>3. FirstGeneration(u)
  BY <1>1, <1>2 DEF FirstGeneration
<1>4. ASSUME NEW g \in SlotId
      PROVE  peek_state(u, g) = IF g = h THEN s ELSE peek_state(q, g)
  <2>1. peek_state(u, g) =
          IF g = h THEN s ELSE IF g.index = h.index THEN Idle ELSE peek_state(q, g)
    BY PeekAfterSet DEF u
  <2>2. (g # h /\ g.index = h.index) => g.generation # 0
    BY DEF SlotId
  <2>3. g.generation # 0 => peek_state(q, g) = Idle
    BY PeekFirst
  <2>4. QED
    BY <2>1, <2>2, <2>3
<1>5. QED
  BY <1>3, <1>4 DEF u

\* A receive that was registered and cancelled again leaves the queues as
\* they were.
LEMMA CancelUndoes ==
  ASSUME NEW q \in IpcQueues, FirstGeneration(q), NEW t \in CapabilityTable, WellFormed(t),
         NEW c \in CapHandle, ipc_recv(EpArena, q, t, c).result = "Pending"
  PROVE  LET r == ipc_recv(EpArena, q, t, c)
         IN r.table = t /\ ipc_cancel_recv(EpArena, r.queues, t, c).queues = q
<1> DEFINE r == ipc_recv(EpArena, q, t, c)
           h == handle_of(t, c)
           w == set_state(q, h, RecvWaiting)
<1>1. RecvOutcome(EpArena, q, t, c, r)
  BY RecvCases
<1>2. /\ Grip(EpArena, t, c, "RECV") /\ peek_state(q, h) = Idle
      /\ r.queues = w /\ r.table = t
  BY <1>1 DEF RecvOutcome
<1>3. h \in SlotId /\ h.generation = 0
  BY <1>2, GripFirst
<1> HIDE DEF h, r
<1>4. w \in IpcQueues /\ FirstGeneration(w) /\ peek_state(w, h) = RecvWaiting
  BY <1>3, StateTypes, SetFields, WriteFirst
<1>5. recv_preflight(EpArena, t, c) = "Ok"
  BY <1>2 DEF Grip, recv_preflight, h
<1>6. ipc_cancel_recv(EpArena, w, t, c).queues = set_state(w, h, Idle)
  BY <1>4, <1>5 DEF ipc_cancel_recv, Outcome, h
<1>7. set_state(w, h, Idle) = q
  <2> DEFINE u == set_state(w, h, Idle)
  <2>1. /\ reset_if_stale_generation(q, h) = q /\ reset_if_stale_generation(w, h) = w
        /\ q.states[h.index] = Idle
    BY <1>2, <1>3, <1>4, PeekFirst
  <2>2. w = [states |-> [q.states EXCEPT ![h.index] = RecvWaiting],
             slot_generations |-> q.slot_generations]
    BY <2>1 DEF set_state
  <2>3. u = [states |-> [w.states EXCEPT ![h.index] = Idle],
             slot_generations |-> w.slot_generations]
    BY <2>1 DEF set_state
  <2> DEFINE f == q.states
  <2>4. f \in [SlotIndex -> EndpointState] /\ h.index \in SlotIndex
    BY <1>3 DEF IpcQueues, SlotId
  <2>5. w.states = [f EXCEPT ![h.index] = RecvWaiting] /\ w.slot_generations = q.slot_generations
    BY <2>2
  <2>6. u = [states |-> f, slot_generations |-> q.slot_generations]
    <3>1. [w.states EXCEPT ![h.index] = Idle] = f
      BY <2>1, <2>4, <2>5
    <3>2. QED
      BY <2>3, <2>5, <3>1
  <2>7. q = [states |-> q.states, slot_generations |-> q.slot_generations]
    BY DEF IpcQueues
  <2>8. QED
    BY <2>6, <2>7
<1>8. QED
  BY <1>2, <1>6, <1>7 DEF r

\* What a call may do to the queues: nothing, or one write to an endpoint.
Written(q, u) ==
  \/ u = q
  \/ \E h \in SlotId, s \in EndpointState : h.generation = 0 /\ u = set_state(q, h, s)

LEMMA SendWrites ==
  ASSUME NEW q \in IpcQueues, FirstGeneration(q), NEW t \in CapabilityTable, WellFormed(t),
         NEW c \in CapHandle, NEW m \in Message, NEW x \in CapHandle \union {None}
  PROVE  Written(q, ipc_send(EpArena, q, t, c, m, x).queues)
<1> DEFINE r == ipc_send(EpArena, q, t, c, m, x)
           h == handle_of(t, c)
<1>1. SendOutcome(EpArena, q, t, c, m, x, r)
  BY SendCases
<1> HIDE DEF r
<1>2. CASE Untouched(EpArena, q, t, c, "SEND", r)
  BY <1>2, GripFirst, PeekFirst DEF Untouched, Written, r
<1>3. ASSUME Grip(EpArena, t, c, "SEND"), NEW s \in EndpointState, r.queues = set_state(q, h, s)
      PROVE  Written(q, r.queues)
  BY <1>3, GripFirst DEF Written
<1>4. QED
  BY <1>1, <1>2, <1>3, StateTypes DEF SendOutcome, r

LEMMA RecvWrites ==
  ASSUME NEW q \in IpcQueues, FirstGeneration(q), NEW t \in CapabilityTable, WellFormed(t),
         NEW c \in CapHandle
  PROVE  Written(q, ipc_recv(EpArena, q, t, c).queues)
<1> DEFINE r == ipc_recv(EpArena, q, t, c)
           h == handle_of(t, c)
<1>1. RecvOutcome(EpArena, q, t, c, r)
  BY RecvCases
<1> HIDE DEF r
<1>2. CASE Untouched(EpArena, q, t, c, "RECV", r)
  BY <1>2, GripFirst, PeekFirst DEF Untouched, Written, r
<1>3. ASSUME Grip(EpArena, t, c, "RECV"), NEW s \in EndpointState, r.queues = set_state(q, h, s)
      PROVE  Written(q, r.queues)
  BY <1>3, GripFirst DEF Written
<1>4. QED
  BY <1>1, <1>2, <1>3, StateTypes DEF RecvOutcome, r

QInv == IInv /\ FirstGeneration(queues)

LEMMA StepWrites ==
  ASSUME QInv, [Next]_vars
  PROVE  Written(queues, queues')
<1>1. /\ queues \in IpcQueues /\ FirstGeneration(queues)
      /\ frame \in [Task -> CapHandle \union {None}]
      /\ \A t \in Task : tables[t] \in CapabilityTable /\ WellFormed(tables[t])
  BY DEF QInv, IInv, Typed
<1>2. ASSUME NEW t \in Task, NEW c \in CapHandle, NEW m \in Message,
             NEW x \in CapHandle \union {None}, SendAndYield(t, c, m, x) \/ SysSend(t, c, m, x)
      PROVE  Written(queues, queues')
  <2>1. queues' = ipc_send(EpArena, queues, tables[t], c, m, x).queues
    BY <1>2 DEF SendAndYield, SysSend
  <2>2. QED
    BY <1>1, <2>1, SendWrites
<1>3. ASSUME NEW t \in Task, NEW c \in CapHandle,
             queues' = ipc_recv(EpArena, queues, tables[t], c).queues
      PROVE  Written(queues, queues')
  BY <1>1, <1>3, RecvWrites
<1>4. ASSUME NEW t \in Task, NEW c \in CapHandle, SysRecv(t, c)
      PROVE  Written(queues, queues')
  BY <1>3, <1>4 DEF SysRecv
<1>5. ASSUME NEW t \in Task, Resume(t)
      PROVE  Written(queues, queues')
  <2>1. frame[t] \in CapHandle /\ queues' = ipc_recv(EpArena, queues, tables[t], frame[t]).queues
    BY <1>1, <1>5 DEF Resume
  <2>2. QED
    BY <1>3, <2>1
<1>6. ASSUME NEW t \in Task, NEW c \in CapHandle, RecvAndYield(t, c)
      PROVE  Written(queues, queues')
  <2> DEFINE r == ipc_recv(EpArena, queues, tables[t], c)
  <2>1. CASE r.result = "Pending" /\ ~can_block(sched)
    <3>1. queues' = ipc_cancel_recv(EpArena, r.queues, tables[t], c).queues
      BY <1>6, <2>1 DEF RecvAndYield, BlockOrRollBack
    <3>2. queues' = queues
      BY <1>1, <2>1, <3>1, CancelUndoes
    <3>3. QED
      BY <3>2 DEF Written
  <2>2. CASE ~(r.result = "Pending" /\ ~can_block(sched))
    <3>1. queues' = r.queues
      BY <1>6, <2>2 DEF RecvAndYield, BlockOrRollBack
    <3>2. QED
      BY <1>3, <3>1
  <2>3. QED
    BY <2>1, <2>2
<1>7. ASSUME queues' = queues
      PROVE  Written(queues, queues')
  BY <1>7 DEF Written
<1>8. ASSUME NEW t \in Task, AddTask(t) \/ Yield(t) \/ TaskExit(t)
      PROVE  queues' = queues
  BY <1>8 DEF AddTask, Yield, TaskExit
<1>9. CASE RegisterIdle \/ Start \/ Halt \/ UNCHANGED vars
  BY <1>7, <1>9 DEF RegisterIdle, Start, Halt, vars
<1>10. QED
  BY <1>2, <1>4, <1>5, <1>6, <1>7, <1>8, <1>9 DEF Next

LEMMA QueueInvariant == Spec => []QInv
<1>1. Init => FirstGeneration(queues)
  BY DEF Init, NewQueues, FirstGeneration
<1>2. QInv /\ [Next]_vars => FirstGeneration(queues)'
  <2> SUFFICES ASSUME QInv, [Next]_vars PROVE FirstGeneration(queues')
    BY DEF FirstGeneration
  <2>1. Written(queues, queues')
    BY StepWrites
  <2>2. queues \in IpcQueues /\ FirstGeneration(queues)
    BY DEF QInv, IInv, Typed
  <2>3. QED
    BY <2>1, <2>2, WriteFirst DEF Written
<1>3. Init => QInv
  BY <1>1, InitIInv DEF QInv
<1>4. QInv /\ [Next]_vars => QInv'
  BY <1>2, NextIInv DEF QInv
<1>5. QED
  BY <1>3, <1>4, PTL DEF Spec

\* ipc_recv_and_yield that answers Deadlock has undone its registration: the
\* scheduler, the table and the endpoint are as before the call.
THEOREM DeadlockCorrect == Spec => DeadlockLeavesNoTrace
<1>1. ASSUME QInv, NEW t \in Task, NEW h \in CapHandle, WouldDeadlock(t, h), RecvAndYield(t, h)
      PROVE  UNCHANGED vars
  <2> DEFINE r == ipc_recv(EpArena, queues, tables[t], h)
  <2>1. r.result = "Pending" /\ ~can_block(sched)
    BY <1>1 DEF WouldDeadlock
  <2>2. /\ tables' = [tables EXCEPT ![t] = r.table]
        /\ queues' = ipc_cancel_recv(EpArena, r.queues, tables[t], h).queues
        /\ UNCHANGED <<sched, active_as, frame, exited>>
    BY <1>1, <2>1 DEF RecvAndYield, BlockOrRollBack
  <2>3. /\ queues \in IpcQueues /\ FirstGeneration(queues)
        /\ tables \in [Task -> CapabilityTable] /\ WellFormed(tables[t])
    BY <1>1 DEF QInv, IInv, Typed
  <2>4. r.table = tables[t] /\ queues' = queues
    BY <2>1, <2>2, <2>3, CancelUndoes
  <2> HIDE DEF r
  <2>5. tables' = tables
    BY <2>2, <2>3, <2>4
  <2>6. QED
    BY <2>2, <2>4, <2>5 DEF vars
<1>2. QInv /\ [Next]_vars =>
        [\A t \in Task, h \in CapHandle :
           (WouldDeadlock(t, h) /\ RecvAndYield(t, h)) => UNCHANGED vars]_vars
  BY <1>1
<1>3. QED
  BY <1>2, QueueInvariant, PTL DEF Spec, DeadlockLeavesNoTrace

-----------------------------------------------------------------------------
(* Waiters.  When capabilities are distributed as Separated says, a task   *)
(* blocked in ipc_recv_and_yield and a registered receiver are the same.   *)

\* Endpoint capabilities cannot leave table t.
EndpointsStay(t) ==
  \A i \in Live(t) : t.entry[i].object.kind = "Endpoint" => "TRANSFER" \notin t.entry[i].rights

\* A call keeps what a table grants over endpoints.
Kept(t, u) ==
  /\ EndpointsStay(u)
  /\ \A ep \in SlotId, r \in {"SEND", "RECV"} : Holds(u, r, ep) <=> Holds(t, r, ep)

\* A message's cargo is no endpoint capability.
Harmless(cap) == cap # None => cap.object.kind # "Endpoint"

LEMMA SentKeeps ==
  ASSUME NEW t \in CapabilityTable, NEW u \in CapabilityTable, NEW x, NEW cap,
         Sent(t, x, cap, u), EndpointsStay(t)
  PROVE  Kept(t, u) /\ Harmless(cap)
<1>1. CASE cap = None /\ u = t
  BY <1>1 DEF Kept, Harmless
<1>2. CASE /\ x \in CapHandle /\ x.index \in Live(t)
           /\ "TRANSFER" \in t.entry[x.index].rights
           /\ cap = lookup(t, x) /\ cap \in Capability
           /\ Dropped(t, u, x.index)
  <2>1. t.entry[x.index].object.kind # "Endpoint"
    BY <1>2 DEF EndpointsStay
  <2>2. Harmless(cap)
    BY <1>2, <2>1 DEF Harmless, lookup, entry_of
  <2>3. /\ Live(u) = Live(t) \ {x.index}
        /\ \A j \in Live(u) : /\ u.entry[j].rights = t.entry[j].rights
                              /\ u.entry[j].object = t.entry[j].object
    BY <1>2 DEF Dropped, SameCapability
  <2>4. EndpointsStay(u)
    BY <2>3 DEF EndpointsStay
  <2>5. ASSUME NEW ep \in SlotId, NEW r \in {"SEND", "RECV"}
        PROVE  Holds(u, r, ep) <=> Holds(t, r, ep)
    <3>1. EndpointObject(ep).kind = "Endpoint"
      BY DEF EndpointObject
    <3>2. QED
      BY <2>1, <2>3, <3>1 DEF Holds
  <2>6. QED
    BY <2>2, <2>4, <2>5 DEF Kept
<1>3. QED
  BY <1>1, <1>2 DEF Sent

LEMMA GotKeeps ==
  ASSUME NEW t \in CapabilityTable, NEW u \in CapabilityTable, NEW cap,
         Got(t, cap, u), EndpointsStay(t), Harmless(cap)
  PROVE  Kept(t, u)
<1>1. CASE u = t
  BY <1>1 DEF Kept
<1>2. CASE cap # None /\ NewLinks(t, cap, None, 0, u, t.free_head)
  <2> DEFINE n == t.free_head
  <2>1. /\ Live(u) = Live(t) \union {n} /\ n \notin Live(t)
        /\ u.entry[n].object = cap.object /\ cap.object.kind # "Endpoint"
        /\ \A j \in Live(t) : /\ u.entry[j].rights = t.entry[j].rights
                              /\ u.entry[j].object = t.entry[j].object
    BY <1>2 DEF NewLinks, SameCapability, Harmless
  <2> HIDE DEF n
  <2>2. EndpointsStay(u)
    BY <2>1 DEF EndpointsStay
  <2>3. ASSUME NEW ep \in SlotId, NEW r \in {"SEND", "RECV"}
        PROVE  Holds(u, r, ep) <=> Holds(t, r, ep)
    <3>1. EndpointObject(ep).kind = "Endpoint"
      BY DEF EndpointObject
    <3>2. QED
      BY <2>1, <3>1 DEF Holds
  <2>4. QED
    BY <2>2, <2>3 DEF Kept
<1>3. QED
  BY <1>1, <1>2 DEF Got

\* A grip is a holding.
LEMMA GripHolds ==
  ASSUME NEW t \in CapabilityTable, NEW c \in CapHandle, NEW r, Grip(EpArena, t, c, r)
  PROVE  Holds(t, r, handle_of(t, c))
  BY ValidEndpoint DEF Grip, Holds

\* A suspended task waits for its message, or has been woken to collect it.
Suspended(t) ==
  /\ t \in KernelTask
  /\ Grip(EpArena, tables[t], frame[t], "RECV")
  /\ \/ /\ sched.task_states[t] = Blocked(SuspendedOn(t))
        /\ peek_state(queues, SuspendedOn(t)) = RecvWaiting
     \/ /\ sched.task_states[t] = Ready
        /\ peek_state(queues, SuspendedOn(t)).tag = "RecvComplete"

\* A registered receiver is a suspended task, or an EL0 task that polls.
Registered(ep) ==
  \/ PolledByUser(ep)
  \/ \E t \in Task : frame[t] # None /\ SuspendedOn(t) = ep

\* The strengthening that makes WaiterMatches and ResumeFindsMessage inductive.
WInv ==
  /\ Separated(tables)
  /\ \A ep \in SlotId : Harmless(peek_state(queues, ep).cap)
  /\ \A t \in Task : frame[t] # None => Suspended(t)
  /\ \A t \in Task : sched.task_states[t] \in {Unused, Ready} \/ frame[t] # None
  /\ \A ep \in SlotId : peek_state(queues, ep) = RecvWaiting => Registered(ep)

\* Two tasks suspended on one endpoint are one task.
LEMMA OneWaiter ==
  ASSUME QInv, WInv, NEW t \in Task, NEW v \in Task, frame[v] # None,
         Holds(tables[t], "RECV", SuspendedOn(v))
  PROVE  t = v
<1>1. /\ tables[v] \in CapabilityTable /\ frame[v] \in CapHandle
      /\ Grip(EpArena, tables[v], frame[v], "RECV")
  BY DEF QInv, IInv, Typed, WInv, Suspended
<1>2. Holds(tables[v], "RECV", SuspendedOn(v)) /\ SuspendedOn(v) \in SlotId
  BY <1>1, GripHolds, GripFirst DEF SuspendedOn
<1>3. QED
  BY <1>2 DEF WInv, Separated

\* A call of t that keeps the endpoint grants of its table keeps everybody's.
LEMMA GrantsKept ==
  ASSUME QInv, WInv, NEW t \in Task, NEW u \in CapabilityTable, Kept(tables[t], u),
         tables' = [tables EXCEPT ![t] = u]
  PROVE  /\ Separated(tables')
         /\ \A ep \in SlotId : PolledByUser(ep)' <=> PolledByUser(ep)
         /\ \A v \in Task \ {t} : tables'[v] = tables[v]
<1>1. tables \in [Task -> CapabilityTable] /\ Separated(tables)
  BY DEF QInv, IInv, Typed, WInv
<1>2. tables'[t] = u /\ \A v \in Task \ {t} : tables'[v] = tables[v]
  BY <1>1
<1>3. \A v \in Task, ep \in SlotId, r \in {"SEND", "RECV"} :
        Holds(tables'[v], r, ep) <=> Holds(tables[v], r, ep)
  BY <1>2 DEF Kept
<1>4. \A v \in Task : \A i \in Live(tables'[v]) :
        tables'[v].entry[i].object.kind = "Endpoint" => "TRANSFER" \notin tables'[v].entry[i].rights
  BY <1>1, <1>2 DEF Kept, EndpointsStay, Separated
<1>5. KernelTask \subseteq Task /\ UserTask \subseteq Task
  BY TaskFacts DEF KernelTask
<1>6. Separated(tables')
  BY <1>1, <1>3, <1>4, <1>5 DEF Separated
<1>7. \A ep \in SlotId : PolledByUser(ep)' <=> PolledByUser(ep)
  BY <1>3, <1>5 DEF PolledByUser
<1>8. QED
  BY <1>2, <1>6, <1>7

\* A step that leaves the frame, the table, the state and the endpoint of a
\* suspended task as they were leaves it suspended.
LEMMA StaysSuspended ==
  ASSUME QInv, WInv, NEW v \in Task, frame[v] # None,
         frame'[v] = frame[v], tables'[v] = tables[v],
         sched'.task_states[v] = sched.task_states[v],
         peek_state(queues', SuspendedOn(v)) = peek_state(queues, SuspendedOn(v))
  PROVE  Suspended(v)' /\ SuspendedOn(v)' = SuspendedOn(v)
<1>1. SuspendedOn(v)' = SuspendedOn(v)
  BY DEF SuspendedOn
<1>2. Suspended(v)
  BY DEF WInv
<1>3. QED
  BY <1>1, <1>2 DEF Suspended, EpArena, KernelTask

LEMMA SuspendedSlot ==
  ASSUME QInv, WInv, NEW v \in Task, frame[v] # None
  PROVE  SuspendedOn(v) \in SlotId /\ Suspended(v)
  BY GripFirst DEF WInv, Suspended, SuspendedOn

\* Every call that neither blocks nor wakes a task.  It may write an endpoint
\* on which no other task is suspended; it may register a receiver only where
\* an EL0 task polls; its caller is Ready and is not suspended afterwards.
LEMMA CallKeeps ==
  ASSUME QInv, WInv, NEW t \in Task, sched.task_states[t] = Ready,
         NEW u \in CapabilityTable, Kept(tables[t], u), tables' = [tables EXCEPT ![t] = u],
         frame' = [frame EXCEPT ![t] = None],
         sched'.task_states = sched.task_states,
         \A g \in SlotId :
           \/ peek_state(queues', g) = peek_state(queues, g)
           \/ /\ \A v \in Task \ {t} : frame[v] # None => SuspendedOn(v) # g
              /\ Harmless(peek_state(queues', g).cap)
              /\ peek_state(queues', g) = RecvWaiting => PolledByUser(g)
  PROVE  WInv'
<1>1. /\ Separated(tables')
      /\ \A ep \in SlotId : PolledByUser(ep)' <=> PolledByUser(ep)
      /\ \A v \in Task \ {t} : tables'[v] = tables[v]
  BY GrantsKept
<1>2. frame'[t] = None /\ \A v \in Task \ {t} : frame'[v] = frame[v]
  BY DEF QInv, IInv, Typed
<1>3. ASSUME NEW v \in Task, frame'[v] # None
      PROVE  /\ v # t /\ frame[v] # None
             /\ Suspended(v)' /\ SuspendedOn(v)' = SuspendedOn(v)
  <2>1. v # t /\ frame[v] = frame'[v] /\ frame[v] # None /\ tables'[v] = tables[v]
    BY <1>1, <1>2, <1>3
  <2>2. peek_state(queues', SuspendedOn(v)) = peek_state(queues, SuspendedOn(v))
    BY <2>1, SuspendedSlot
  <2>3. QED
    BY <2>1, <2>2, StaysSuspended
<1>4. \A v \in Task : sched'.task_states[v] \in {Unused, Ready} \/ frame'[v] # None
  BY <1>2 DEF WInv
<1>5. \A ep \in SlotId : Harmless(peek_state(queues', ep).cap)
  BY DEF WInv
<1>6. ASSUME NEW ep \in SlotId, peek_state(queues', ep) = RecvWaiting
      PROVE  Registered(ep)'
  <2>1. CASE PolledByUser(ep)
    BY <1>1, <2>1 DEF Registered
  <2>2. CASE ~PolledByUser(ep)
    <3>1. peek_state(queues, ep) = RecvWaiting
      BY <1>6, <2>2
    <3>2. PICK v \in Task : frame[v] # None /\ SuspendedOn(v) = ep
      BY <2>2, <3>1 DEF WInv, Registered
    <3>3. v # t
      <4>1. peek_state(queues, SuspendedOn(v)).tag # "RecvComplete"
        BY <3>1, <3>2 DEF RecvWaiting
      <4>2. sched.task_states[v] = Blocked(ep) /\ ep \in SlotId
        BY <3>2, <4>1, SuspendedSlot DEF Suspended
      <4>3. QED
        BY <4>2, TaskFacts
    <3>4. frame'[v] # None /\ SuspendedOn(v)' = ep
      BY <1>2, <1>3, <3>2, <3>3
    <3>5. QED
      BY <3>4 DEF Registered
  <2>3. QED
    BY <2>1, <2>2
<1>7. QED
  BY <1>1, <1>3, <1>4, <1>5, <1>6 DEF WInv, Separated, KernelTask

\* A step that touches no frame, table or queue, and no task state but to make
\* one registered task Ready.
LEMMA QuietWait ==
  ASSUME QInv, WInv, UNCHANGED <<frame, tables, queues>>,
         \/ sched'.task_states = sched.task_states
         \/ \E t \in Task : /\ sched.task_states[t] = Unused
                            /\ sched'.task_states = [sched.task_states EXCEPT ![t] = Ready]
  PROVE  WInv'
<1>1. \A v \in Task : \/ sched'.task_states[v] = sched.task_states[v]
                      \/ sched.task_states[v] = Unused /\ sched'.task_states[v] = Ready
  BY DEF QInv, IInv, Sound, Base, SchedulerState
<1>2. ASSUME NEW v \in Task, frame[v] # None
      PROVE  Suspended(v)'
  <2>1. sched.task_states[v] # Unused
    BY <1>2, SuspendedSlot, TaskFacts DEF Suspended
  <2>2. QED
    BY <1>1, <1>2, <2>1, StaysSuspended
<1>3. \A v \in Task : sched'.task_states[v] \in {Unused, Ready} \/ frame'[v] # None
  BY <1>1 DEF WInv
<1>4. \A ep \in SlotId : Registered(ep)' <=> Registered(ep)
  BY DEF Registered, PolledByUser, SuspendedOn
<1>5. QED
  BY <1>2, <1>3, <1>4 DEF WInv, Separated, KernelTask

\* The tasks a delivery to ep finds blocked are the ones suspended on it.
LEMMA BlockedIsSuspended ==
  ASSUME QInv, WInv, NEW ep \in SlotId, NEW v \in waiting_on(sched, ep)
  PROVE  /\ v \in Task /\ frame[v] # None /\ SuspendedOn(v) = ep
         /\ peek_state(queues, ep) = RecvWaiting
<1>1. v \in Task /\ sched.task_states[v] = Blocked(ep)
  BY DEF waiting_on
<1>2. frame[v] # None /\ Suspended(v)
  BY <1>1, TaskFacts DEF WInv
<1>3. /\ sched.task_states[v] = Blocked(SuspendedOn(v))
      /\ peek_state(queues, SuspendedOn(v)) = RecvWaiting
  BY <1>1, <1>2, TaskFacts DEF Suspended
<1>4. SuspendedOn(v) = ep
  BY <1>1, <1>3 DEF Blocked
<1>5. QED
  BY <1>1, <1>2, <1>3, <1>4

\* A delivery by t that wakes v, the task suspended on the endpoint.
LEMMA WakeKeeps ==
  ASSUME QInv, WInv, NEW t \in Task, NEW v \in Task, v # t, frame[t] = None, frame[v] # None,
         NEW u \in CapabilityTable, Kept(tables[t], u), tables' = [tables EXCEPT ![t] = u],
         frame' = frame,
         sched'.task_states = [sched.task_states EXCEPT ![v] = Ready],
         NEW s \in EndpointState, s.tag = "RecvComplete", Harmless(s.cap),
         \A g \in SlotId : peek_state(queues', g) =
                             IF g = SuspendedOn(v) THEN s ELSE peek_state(queues, g)
  PROVE  WInv'
<1> DEFINE h == SuspendedOn(v)
<1>1. /\ Separated(tables')
      /\ \A ep \in SlotId : PolledByUser(ep)' <=> PolledByUser(ep)
      /\ \A w \in Task \ {t} : tables'[w] = tables[w]
  BY GrantsKept
<1>2. /\ sched'.task_states[v] = Ready
      /\ \A w \in Task \ {v} : sched'.task_states[w] = sched.task_states[w]
  BY DEF QInv, IInv, Sound, Base, SchedulerState
<1>3. h \in SlotId /\ Suspended(v) /\ SuspendedOn(v)' = h
  BY <1>1, SuspendedSlot DEF SuspendedOn
<1>4. Suspended(v)'
  BY <1>1, <1>2, <1>3 DEF Suspended, EpArena, KernelTask
<1>5. ASSUME NEW w \in Task \ {v}, frame[w] # None
      PROVE  Suspended(w)' /\ SuspendedOn(w)' = SuspendedOn(w) /\ SuspendedOn(w) # h
  <2>1. SuspendedOn(w) \in SlotId /\ Suspended(w) /\ w # t
    BY <1>5, SuspendedSlot
  <2>2. SuspendedOn(w) # h
    <3>1. SUFFICES ASSUME SuspendedOn(w) = h PROVE FALSE
      OBVIOUS
    <3>2. tables[w] \in CapabilityTable /\ frame[w] \in CapHandle
      BY <1>5 DEF QInv, IInv, Typed
    <3>3. Holds(tables[w], "RECV", h)
      BY <2>1, <3>1, <3>2, GripHolds DEF Suspended, SuspendedOn
    <3>4. QED
      BY <3>3, <1>5, OneWaiter
  <2>3. QED
    BY <1>1, <1>2, <1>5, <2>1, <2>2, StaysSuspended
<1>6. \A w \in Task : frame'[w] # None => Suspended(w)'
  BY <1>4, <1>5
<1>7. \A w \in Task : sched'.task_states[w] \in {Unused, Ready} \/ frame'[w] # None
  BY <1>2 DEF WInv
<1>8. \A ep \in SlotId : Harmless(peek_state(queues', ep).cap)
  BY DEF WInv
<1>9. ASSUME NEW ep \in SlotId, peek_state(queues', ep) = RecvWaiting
      PROVE  Registered(ep)'
  <2>1. ep # h /\ peek_state(queues, ep) = RecvWaiting
    BY <1>3, <1>9 DEF RecvWaiting
  <2>2. Registered(ep)
    BY <2>1 DEF WInv
  <2>3. \A w \in Task : (frame[w] # None /\ SuspendedOn(w) = ep) =>
                          frame'[w] # None /\ SuspendedOn(w)' = ep
    BY <1>5, <2>1
  <2>4. QED
    BY <1>1, <2>2, <2>3 DEF Registered
<1>10. QED
  BY <1>1, <1>6, <1>7, <1>8, <1>9 DEF WInv, Separated, KernelTask

\* The blocking of t on an endpoint that was Idle.
LEMMA BlockKeeps ==
  ASSUME QInv, WInv, NEW t \in KernelTask, frame[t] = None, NEW c \in CapHandle,
         Grip(EpArena, tables[t], c, "RECV"),
         peek_state(queues, handle_of(tables[t], c)) = Idle,
         tables' = tables, frame' = [frame EXCEPT ![t] = c],
         sched'.task_states = [sched.task_states EXCEPT ![t] = Blocked(handle_of(tables[t], c))],
         \A g \in SlotId : peek_state(queues', g) =
                             IF g = handle_of(tables[t], c) THEN RecvWaiting
                             ELSE peek_state(queues, g)
  PROVE  WInv'
<1> DEFINE h == handle_of(tables[t], c)
<1>1. t \in Task /\ h \in SlotId
  BY GripFirst DEF KernelTask
<1>2. /\ sched'.task_states[t] = Blocked(h)
      /\ \A w \in Task \ {t} : sched'.task_states[w] = sched.task_states[w]
  BY <1>1 DEF QInv, IInv, Sound, Base, SchedulerState
<1>3. frame'[t] = c /\ \A w \in Task \ {t} : frame'[w] = frame[w]
  BY <1>1 DEF QInv, IInv, Typed
<1>4. SuspendedOn(t)' = h
  BY <1>3 DEF SuspendedOn
<1>5. Suspended(t)'
  BY <1>1, <1>2, <1>3, <1>4 DEF Suspended, EpArena, KernelTask
<1>6. ASSUME NEW w \in Task \ {t}, frame[w] # None
      PROVE  Suspended(w)' /\ SuspendedOn(w)' = SuspendedOn(w)
  <2>1. SuspendedOn(w) \in SlotId /\ Suspended(w)
    BY <1>6, SuspendedSlot
  <2>2. SuspendedOn(w) # h
    BY <2>1 DEF Suspended, Idle, RecvWaiting
  <2>3. QED
    BY <1>2, <1>3, <1>6, <2>1, <2>2, StaysSuspended
<1>7. \A w \in Task : frame'[w] # None => Suspended(w)'
  BY <1>3, <1>5, <1>6
<1>8. \A w \in Task : sched'.task_states[w] \in {Unused, Ready} \/ frame'[w] # None
  BY <1>2, <1>3, NoneAssumption DEF WInv
<1>9. \A ep \in SlotId : Harmless(peek_state(queues', ep).cap)
  BY DEF WInv, Harmless, RecvWaiting
<1>10. ASSUME NEW ep \in SlotId, peek_state(queues', ep) = RecvWaiting
       PROVE  Registered(ep)'
  <2>1. CASE ep = h
    BY <1>1, <1>3, <1>4, <2>1, NoneAssumption DEF Registered
  <2>2. CASE ep # h
    <3>1. Registered(ep)
      BY <1>10, <2>2 DEF WInv
    <3>2. \A w \in Task : (frame[w] # None /\ SuspendedOn(w) = ep) =>
                            frame'[w] # None /\ SuspendedOn(w)' = ep
      BY <1>3, <1>6
    <3>3. PolledByUser(ep)' <=> PolledByUser(ep)
      BY DEF PolledByUser
    <3>4. QED
      BY <3>1, <3>2, <3>3 DEF Registered
  <2>3. QED
    BY <2>1, <2>2
<1>11. QED
  BY <1>7, <1>8, <1>9, <1>10 DEF WInv, Separated, KernelTask

\* A waiting receiver of ep other than a poller is a task suspended on ep, so
\* that nobody is suspended on an endpoint in any state but RecvWaiting and
\* RecvComplete, and only its receiver on one in RecvComplete.
LEMMA NobodySuspended ==
  ASSUME QInv, WInv, NEW t \in Task, NEW ep \in SlotId,
         \/ peek_state(queues, ep).tag \notin {"RecvWaiting", "RecvComplete"}
         \/ Holds(tables[t], "RECV", ep)
         \/ t \in UserTask /\ Holds(tables[t], "SEND", ep)
  PROVE  \A v \in Task \ {t} : frame[v] # None => SuspendedOn(v) # ep
<1>1. SUFFICES ASSUME NEW v \in Task \ {t}, frame[v] # None, SuspendedOn(v) = ep
               PROVE  FALSE
  OBVIOUS
<1>2. /\ Suspended(v) /\ v \in KernelTask
      /\ tables[v] \in CapabilityTable /\ frame[v] \in CapHandle
  BY <1>1, SuspendedSlot DEF Suspended, QInv, IInv, Typed
<1>3. Holds(tables[v], "RECV", ep)
  BY <1>1, <1>2, GripHolds DEF Suspended, SuspendedOn
<1>4. peek_state(queues, ep).tag \in {"RecvWaiting", "RecvComplete"}
  BY <1>1, <1>2 DEF Suspended, RecvWaiting
<1>5. QED
  BY <1>1, <1>2, <1>3, <1>4, OneWaiter DEF WInv, Separated

\* Facts about the caller of a call.
LEMMA CallerFacts ==
  ASSUME QInv, WInv, NEW t \in Task, sched.current = t, ~sched.panicked
  PROVE  /\ sched.task_states[t] = Ready
         /\ tables[t] \in CapabilityTable /\ WellFormed(tables[t]) /\ EndpointsStay(tables[t])
         /\ queues \in IpcQueues /\ FirstGeneration(queues)
         /\ frame \in [Task -> CapHandle \union {None}]
         /\ Kept(tables[t], tables[t])
<1>1. sched.task_states[t] = Ready /\ tables[t] \in CapabilityTable /\ WellFormed(tables[t])
  BY RunningFacts DEF QInv
<1>2. EndpointsStay(tables[t])
  BY DEF WInv, Separated, EndpointsStay
<1>3. QED
  BY <1>1, <1>2 DEF QInv, IInv, Typed, Kept

\* Calls that change no endpoint.
LEMMA UntouchedWait ==
  ASSUME QInv, WInv, NEW t \in Task, sched.current = t, ~sched.panicked,
         NEW c \in CapHandle, NEW right, NEW r,
         Untouched(EpArena, queues, tables[t], c, right, r),
         tables' = [tables EXCEPT ![t] = r.table], queues' = r.queues,
         frame' = [frame EXCEPT ![t] = None], sched'.task_states = sched.task_states
  PROVE  WInv'
<1>1. queues' = queues
  BY CallerFacts, GripFirst, PeekFirst DEF Untouched
<1>2. r.table = tables[t]
  BY DEF Untouched
<1>3. QED
  BY <1>1, <1>2, CallerFacts, CallKeeps

\* ipc_recv by a task that is not suspended afterwards: it collects a message,
\* or is an EL0 task and may register.
LEMMA RecvWait ==
  ASSUME QInv, WInv, NEW t \in Task, sched.current = t, ~sched.panicked, NEW c \in CapHandle,
         LET r == ipc_recv(EpArena, queues, tables[t], c)
         IN /\ r.result = "Pending" => t \in UserTask
            /\ tables' = [tables EXCEPT ![t] = r.table] /\ queues' = r.queues,
         frame' = [frame EXCEPT ![t] = None], sched'.task_states = sched.task_states
  PROVE  WInv'
<1> DEFINE r == ipc_recv(EpArena, queues, tables[t], c)
           h == handle_of(tables[t], c)
<1>1. /\ r.result = "Pending" => t \in UserTask
      /\ tables' = [tables EXCEPT ![t] = r.table] /\ queues' = r.queues
  OBVIOUS
<1>2. r.table \in CapabilityTable /\ RecvOutcome(EpArena, queues, tables[t], c, r)
  BY CallerFacts, RecvCases
<1> HIDE DEF r
<1>3. CASE Untouched(EpArena, queues, tables[t], c, "RECV", r)
  BY <1>1, <1>3, UntouchedWait
<1>4. ASSUME Grip(EpArena, tables[t], c, "RECV"), NEW s \in EndpointState,
             queues' = set_state(queues, h, s), Kept(tables[t], r.table),
             Harmless(s.cap), s = RecvWaiting => t \in UserTask
      PROVE  WInv'
  <2>1. h \in SlotId /\ h.generation = 0 /\ Holds(tables[t], "RECV", h)
    BY <1>4, CallerFacts, GripFirst, GripHolds
  <2>2. \A g \in SlotId : peek_state(queues', g) = IF g = h THEN s ELSE peek_state(queues, g)
    BY <1>4, <2>1, CallerFacts, WriteFirst
  <2>3. \A v \in Task \ {t} : frame[v] # None => SuspendedOn(v) # h
    BY <2>1, NobodySuspended
  <2>4. s = RecvWaiting => PolledByUser(h)
    BY <1>4, <2>1 DEF PolledByUser
  <2> HIDE DEF h
  <2>5. \A g \in SlotId :
           \/ peek_state(queues', g) = peek_state(queues, g)
           \/ /\ \A v \in Task \ {t} : frame[v] # None => SuspendedOn(v) # g
              /\ Harmless(peek_state(queues', g).cap)
              /\ peek_state(queues', g) = RecvWaiting => PolledByUser(g)
    BY <1>4, <2>2, <2>3, <2>4
  <2>6. QED
    BY <1>1, <1>2, <1>4, <2>5, CallerFacts, CallKeeps
<1>5. CASE /\ Grip(EpArena, tables[t], c, "RECV")
           /\ r.queues = set_state(queues, h, Idle)
           /\ Got(tables[t], peek_state(queues, h).cap, r.table)
  <2>1. Harmless(peek_state(queues, h).cap)
    BY <1>5, GripFirst DEF WInv
  <2>2. Kept(tables[t], r.table)
    BY <1>2, <1>5, <2>1, CallerFacts, GotKeeps
  <2>3. Harmless(Idle.cap) /\ Idle # RecvWaiting /\ Idle \in EndpointState
    BY StateTypes DEF Harmless, Idle, RecvWaiting
  <2>4. QED
    BY <1>1, <1>4, <1>5, <2>2, <2>3
<1>6. CASE /\ Grip(EpArena, tables[t], c, "RECV") /\ r.result = "Pending"
           /\ r.queues = set_state(queues, h, RecvWaiting) /\ r.table = tables[t]
  <2>1. Harmless(RecvWaiting.cap) /\ RecvWaiting \in EndpointState
    BY StateTypes DEF Harmless, RecvWaiting
  <2>2. QED
    BY <1>1, <1>4, <1>6, <2>1, CallerFacts
<1>7. QED
  BY <1>2, <1>3, <1>5, <1>6 DEF RecvOutcome

\* ipc_send that wakes nobody: by an EL0 task, parked in an idle endpoint, or
\* delivered to a poller.
LEMMA SendWait ==
  ASSUME QInv, WInv, NEW t \in Task, sched.current = t, ~sched.panicked, frame[t] = None,
         NEW c \in CapHandle, NEW m \in Message, NEW x \in CapHandle \union {None},
         LET r == ipc_send(EpArena, queues, tables[t], c, m, x)
         IN /\ \/ t \in UserTask
               \/ r.result # "Delivered"
               \/ \A v \in Task : frame[v] # None => SuspendedOn(v) # handle_of(tables[t], c)
            /\ tables' = [tables EXCEPT ![t] = r.table] /\ queues' = r.queues,
         frame' = frame, sched'.task_states = sched.task_states
  PROVE  WInv'
<1> DEFINE r == ipc_send(EpArena, queues, tables[t], c, m, x)
           h == handle_of(tables[t], c)
<1>1. /\ \/ t \in UserTask
         \/ r.result # "Delivered"
         \/ \A v \in Task : frame[v] # None => SuspendedOn(v) # h
      /\ tables' = [tables EXCEPT ![t] = r.table] /\ queues' = r.queues
  OBVIOUS
<1>2. r.table \in CapabilityTable /\ SendOutcome(EpArena, queues, tables[t], c, m, x, r)
  BY CallerFacts, SendCases
<1>3. frame' = [frame EXCEPT ![t] = None]
  BY CallerFacts
<1> HIDE DEF r
<1>4. CASE Untouched(EpArena, queues, tables[t], c, "SEND", r)
  BY <1>1, <1>3, <1>4, UntouchedWait
<1>5. ASSUME Grip(EpArena, tables[t], c, "SEND"), NEW cap \in Capability \union {None},
             Sent(tables[t], x, cap, r.table), NEW s \in EndpointState, s.cap = cap,
             s # RecvWaiting, queues' = set_state(queues, h, s),
             r.result = "Delivered" \/ peek_state(queues, h) = Idle
      PROVE  WInv'
  <2>1. h \in SlotId /\ h.generation = 0 /\ Holds(tables[t], "SEND", h)
    BY <1>5, CallerFacts, GripFirst, GripHolds
  <2>2. \A g \in SlotId : peek_state(queues', g) = IF g = h THEN s ELSE peek_state(queues, g)
    BY <1>5, <2>1, CallerFacts, WriteFirst
  <2>3. \A v \in Task \ {t} : frame[v] # None => SuspendedOn(v) # h
    <3>1. CASE t \in UserTask
      BY <2>1, <3>1, NobodySuspended
    <3>2. CASE peek_state(queues, h) = Idle
      BY <2>1, <3>2, NobodySuspended DEF Idle
    <3>3. QED
      BY <1>1, <1>5, <3>1, <3>2
  <2>4. Kept(tables[t], r.table) /\ Harmless(s.cap)
    BY <1>2, <1>5, CallerFacts, SentKeeps
  <2> HIDE DEF h
  <2>5. \A g \in SlotId :
           \/ peek_state(queues', g) = peek_state(queues, g)
           \/ /\ \A v \in Task \ {t} : frame[v] # None => SuspendedOn(v) # g
              /\ Harmless(peek_state(queues', g).cap)
              /\ peek_state(queues', g) = RecvWaiting => PolledByUser(g)
    BY <1>5, <2>2, <2>3, <2>4
  <2>6. QED
    BY <1>1, <1>2, <1>3, <2>4, <2>5, CallerFacts, CallKeeps
<1>6. ASSUME Grip(EpArena, tables[t], c, "SEND"), NEW cap \in Capability \union {None},
             Sent(tables[t], x, cap, r.table),
             \/ /\ r.result = "Delivered" /\ peek_state(queues, h) = RecvWaiting
                /\ r.queues = set_state(queues, h, RecvComplete(m, cap))
             \/ /\ r.result = "Enqueued" /\ peek_state(queues, h) = Idle
                /\ r.queues = set_state(queues, h, SendPending(m, cap))
      PROVE  WInv'
  <2>1. /\ RecvComplete(m, cap).cap = cap /\ RecvComplete(m, cap) # RecvWaiting
        /\ SendPending(m, cap).cap = cap /\ SendPending(m, cap) # RecvWaiting
        /\ RecvComplete(m, cap) \in EndpointState /\ SendPending(m, cap) \in EndpointState
    BY StateTypes DEF RecvComplete, SendPending, RecvWaiting
  <2>2. QED
    BY <1>1, <1>5, <1>6, <2>1
<1>7. QED
  BY <1>2, <1>4, <1>6 DEF SendOutcome

LEMMA SendAndYieldWait ==
  ASSUME QInv, WInv, NEW t \in Task, NEW c \in CapHandle, NEW m \in Message,
         NEW x \in CapHandle \union {None}, SendAndYield(t, c, m, x)
  PROVE  WInv'
<1> DEFINE r == ipc_send(EpArena, queues, tables[t], c, m, x)
           h == handle_of(tables[t], c)
           w == unblock_receiver_on(sched, h)
           s == yield_now(w)
<1>1. /\ sched.current = t /\ ~sched.panicked /\ frame[t] = None
      /\ tables' = [tables EXCEPT ![t] = r.table] /\ queues' = r.queues
      /\ IF r.result = "Delivered" THEN Switched(s) ELSE UNCHANGED <<sched, active_as>>
      /\ frame' = frame
  BY DEF SendAndYield, Running
<1>2. CASE r.result # "Delivered"
  <2>1. sched'.task_states = sched.task_states
    BY <1>1, <1>2
  <2>2. QED
    BY <1>1, <1>2, <2>1, SendWait
<1>3. CASE r.result = "Delivered"
  <2>1. r.table \in CapabilityTable /\ SendOutcome(EpArena, queues, tables[t], c, m, x, r)
    BY <1>1, CallerFacts, SendCases
  <2>2. PICK cap \in Capability \union {None} :
          /\ Grip(EpArena, tables[t], c, "SEND") /\ Sent(tables[t], x, cap, r.table)
          /\ peek_state(queues, h) = RecvWaiting
          /\ r.queues = set_state(queues, h, RecvComplete(m, cap))
    BY <1>3, <2>1 DEF SendOutcome
  <2>3. h \in SlotId /\ h.generation = 0
    BY <2>2, GripFirst
  <2>4. /\ Sound(w, exited) /\ ~w.panicked /\ w.current = t
        /\ \/ waiting_on(sched, h) = {} /\ w.task_states = sched.task_states
           \/ \E v \in waiting_on(sched, h) :
                w.task_states = [sched.task_states EXCEPT ![v] = Ready]
    BY <1>1, <2>3, RunningFacts, UnblockSound DEF QInv
  <2>5. sched' = s
    BY <1>1, <1>3 DEF Switched
  <2> HIDE DEF w
  <2>6. SameTasks(w, s)
    BY <2>4, YieldSound
  <2>7. sched'.task_states = w.task_states
    BY <2>5, <2>6 DEF SameTasks
  <2> HIDE DEF r, s
  <2>8. ASSUME NEW v \in waiting_on(sched, h),
               w.task_states = [sched.task_states EXCEPT ![v] = Ready]
        PROVE  WInv'
    <3> DEFINE e == RecvComplete(m, cap)
    <3>1. v \in Task /\ frame[v] # None /\ SuspendedOn(v) = h /\ v # t
      BY <1>1, <2>3, <2>8, BlockedIsSuspended
    <3>2. Kept(tables[t], r.table) /\ Harmless(cap)
      BY <1>1, <2>1, <2>2, CallerFacts, SentKeeps
    <3>3. e \in EndpointState /\ e.tag = "RecvComplete" /\ e.cap = cap
      BY StateTypes DEF RecvComplete
    <3> HIDE DEF e, h
    <3>4. queues' = set_state(queues, h, e)
      BY <1>1, <2>2 DEF e
    <3>5. \A g \in SlotId : peek_state(queues', g) = IF g = h THEN e ELSE peek_state(queues, g)
      BY <1>1, <2>3, <3>3, <3>4, CallerFacts, WriteFirst
    <3>6. QED
      BY <1>1, <2>1, <2>7, <2>8, <3>1, <3>2, <3>3, <3>5, WakeKeeps
  <2>9. ASSUME waiting_on(sched, h) = {}, w.task_states = sched.task_states
        PROVE  WInv'
    <3>1. \A v \in Task : frame[v] # None => SuspendedOn(v) # h
      <4>1. SUFFICES ASSUME NEW v \in Task, frame[v] # None, SuspendedOn(v) = h PROVE FALSE
        OBVIOUS
      <4>2. sched.task_states[v] = Blocked(h)
        BY <2>2, <4>1, SuspendedSlot DEF Suspended, RecvWaiting
      <4>3. QED
        BY <2>9, <4>1, <4>2 DEF waiting_on
    <3>2. QED
      BY <1>1, <2>7, <2>9, <3>1, SendWait DEF r
  <2>10. QED
    BY <2>4, <2>8, <2>9
<1>4. QED
  BY <1>2, <1>3

LEMMA RecvAndYieldWait ==
  ASSUME QInv, WInv, NEW t \in Task, NEW c \in CapHandle, RecvAndYield(t, c)
  PROVE  WInv'
<1> DEFINE r == ipc_recv(EpArena, queues, tables[t], c)
           h == handle_of(tables[t], c)
           s == block_current(sched, h)
<1>1. /\ sched.current = t /\ ~sched.panicked /\ frame[t] = None /\ t \in KernelTask
      /\ tables' = [tables EXCEPT ![t] = r.table]
      /\ IF r.result = "Pending" THEN BlockOrRollBack(t, c, r.queues)
         ELSE queues' = r.queues /\ UNCHANGED <<sched, active_as, frame>>
  BY DEF RecvAndYield, Running
<1>2. CASE r.result # "Pending"
  <2>1. queues' = r.queues /\ frame' = frame /\ sched' = sched
    BY <1>1, <1>2
  <2>2. frame' = [frame EXCEPT ![t] = None]
    BY <1>1, <2>1, CallerFacts
  <2>3. QED
    BY <1>1, <1>2, <2>1, <2>2, RecvWait
<1>3. CASE r.result = "Pending" /\ ~can_block(sched)
  <2>1. /\ queues' = ipc_cancel_recv(EpArena, r.queues, tables[t], c).queues
        /\ sched' = sched /\ frame' = frame
    BY <1>1, <1>3 DEF BlockOrRollBack
  <2>2. r.table = tables[t] /\ queues' = queues
    BY <1>1, <1>3, <2>1, CallerFacts, CancelUndoes
  <2> HIDE DEF r
  <2>3. tables' = tables
    BY <1>1, <2>2 DEF QInv, IInv, Typed
  <2>4. QED
    BY <2>1, <2>2, <2>3, QuietWait
<1>4. CASE r.result = "Pending" /\ can_block(sched)
  <2>1. Switched(s) /\ queues' = r.queues /\ frame' = [frame EXCEPT ![t] = c]
    BY <1>1, <1>4 DEF BlockOrRollBack
  <2>2. RecvOutcome(EpArena, queues, tables[t], c, r)
    BY <1>1, CallerFacts, RecvCases
  <2>3. /\ Grip(EpArena, tables[t], c, "RECV") /\ peek_state(queues, h) = Idle
        /\ r.queues = set_state(queues, h, RecvWaiting) /\ r.table = tables[t]
    BY <1>4, <2>2 DEF RecvOutcome
  <2>4. h \in SlotId /\ h.generation = 0
    BY <2>3, GripFirst
  <2>5. sched'.task_states = [sched.task_states EXCEPT ![t] = Blocked(h)]
    BY <1>1, <1>4, <2>1, <2>4, RunningFacts, BlockSound DEF QInv, Switched
  <2>6. \A g \in SlotId :
          peek_state(queues', g) = IF g = h THEN RecvWaiting ELSE peek_state(queues, g)
    BY <1>1, <2>1, <2>3, <2>4, CallerFacts, StateTypes, WriteFirst
  <2>7. tables' = tables
    BY <1>1, <2>3 DEF QInv, IInv, Typed
  <2>8. QED
    BY <1>1, <2>1, <2>3, <2>5, <2>6, <2>7, BlockKeeps
<1>5. QED
  BY <1>2, <1>3, <1>4

LEMMA ResumeWait ==
  ASSUME QInv, WInv, NEW t \in Task, Resume(t)
  PROVE  WInv'
<1> DEFINE r == ipc_recv(EpArena, queues, tables[t], frame[t])
<1>1. /\ sched.current = t /\ ~sched.panicked /\ frame[t] # None
      /\ tables' = [tables EXCEPT ![t] = r.table] /\ queues' = r.queues
      /\ frame' = [frame EXCEPT ![t] = None] /\ sched' = sched
  BY DEF Resume
<1>2. frame[t] \in CapHandle
  BY <1>1 DEF QInv, IInv, Typed
<1>3. r.result # "Pending"
  <2>1. RecvOutcome(EpArena, queues, tables[t], frame[t], r)
    BY <1>1, <1>2, CallerFacts, RecvCases
  <2>2. peek_state(queues, handle_of(tables[t], frame[t])).tag = "RecvComplete"
    BY <1>1, CallerFacts, SuspendedSlot, TaskFacts DEF Suspended, SuspendedOn
  <2>3. QED
    BY <2>1, <2>2 DEF RecvOutcome, Idle
<1>4. QED
  BY <1>1, <1>2, <1>3, RecvWait

\* start_prelude changes no task state.
LEMMA PreludeWait ==
  ASSUME QInv, WInv, Dispatching(sched, exited'), Dispatched(start_prelude(sched)),
         UNCHANGED <<frame, tables, queues>>
  PROVE  WInv'
<1>1. sched.current # None => sched.task_states[sched.current] = Ready
  BY DEF QInv, IInv, Sound
<1>2. \/ SameTasks(sched, start_prelude(sched))
      \/ start_prelude(sched) = [sched EXCEPT !.panicked = TRUE]
  BY <1>1, StartSound
<1>3. sched \in SchedulerState
  BY DEF QInv, IInv, Sound, Base
<1>4. sched'.task_states = sched.task_states
  BY <1>2, <1>3 DEF Dispatched, SameTasks, SchedulerState
<1>5. QED
  BY <1>4, QuietWait

LEMMA NextWInv ==
  ASSUME QInv, WInv, [Next]_vars
  PROVE  WInv'
<1>1. ASSUME NEW t \in Task, AddTask(t) PROVE WInv'
  <2>1. /\ sched.current = None /\ ~sched.panicked /\ t # IdleTask /\ ~registered(sched, t)
        /\ sched' = add_task(sched, t, TaskAs[t])
        /\ UNCHANGED <<frame, tables, queues>>
    BY <1>1 DEF AddTask, booting, add_user_task
  <2>2. sched'.task_states = [sched.task_states EXCEPT ![t] = Ready]
    BY <2>1, AddSound DEF QInv, IInv
  <2>3. QED
    BY <2>1, <2>2, QuietWait DEF registered
<1>2. CASE RegisterIdle
  <2>1. /\ sched.current = None /\ ~sched.panicked /\ IdleTask # None /\ sched.idle = None
        /\ sched' = register_idle(sched, IdleTask, TaskAs[IdleTask])
        /\ UNCHANGED <<frame, tables, queues>>
    BY <1>2 DEF RegisterIdle, booting
  <2>2. sched'.task_states = [sched.task_states EXCEPT ![IdleTask] = Ready]
    BY <2>1, RegisterIdleSound DEF QInv, IInv
  <2>3. IdleTask \in Task /\ sched.task_states[IdleTask] = Unused
    BY <2>1, SchedIpcAssumption DEF QInv, IInv, Sound, Base
  <2>4. QED
    BY <2>1, <2>2, <2>3, QuietWait
<1>3. CASE Start
  <2>1. Dispatching(sched, exited)
    BY <1>3, TaskFacts DEF Start, booting, QInv, IInv, Sound, Dispatching
  <2>2. QED
    BY <1>3, <2>1, PreludeWait DEF Start
<1>4. ASSUME NEW t \in Task, Yield(t) PROVE WInv'
  <2>1. /\ sched.current = t /\ ~sched.panicked /\ sched' = yield_now(sched)
        /\ UNCHANGED <<frame, tables, queues>>
    BY <1>4 DEF Yield, Running, Switched
  <2>2. sched'.task_states = sched.task_states
    BY <2>1, RunningFacts, YieldSound DEF QInv, SameTasks
  <2>3. QED
    BY <2>1, <2>2, QuietWait
<1>5. ASSUME NEW t \in Task, NEW h \in CapHandle, NEW m \in Message,
             NEW x \in CapHandle \union {None}, SendAndYield(t, h, m, x)
      PROVE  WInv'
  BY <1>5, SendAndYieldWait
<1>6. ASSUME NEW t \in Task, NEW h \in CapHandle, RecvAndYield(t, h) PROVE WInv'
  BY <1>6, RecvAndYieldWait
<1>7. ASSUME NEW t \in Task, Resume(t) PROVE WInv'
  BY <1>7, ResumeWait
<1>8. ASSUME NEW t \in Task, NEW h \in CapHandle, NEW m \in Message,
             NEW x \in CapHandle \union {None}, SysSend(t, h, m, x)
      PROVE  WInv'
  BY <1>8, SendWait DEF SysSend, Running
<1>9. ASSUME NEW t \in Task, NEW h \in CapHandle, SysRecv(t, h) PROVE WInv'
  <2>1. sched.current = t /\ ~sched.panicked /\ frame[t] = None /\ frame' = frame /\ t \in UserTask
    BY <1>9 DEF SysRecv, Running
  <2>2. frame' = [frame EXCEPT ![t] = None]
    BY <2>1, CallerFacts
  <2>3. QED
    BY <1>9, <2>1, <2>2, RecvWait DEF SysRecv
<1>10. ASSUME NEW t \in Task, TaskExit(t) PROVE WInv'
  <2>1. /\ sched.current = t /\ ~sched.panicked /\ t \in UserTask
        /\ Dispatched(start_prelude(sched)) /\ exited' = exited \union {t}
        /\ UNCHANGED <<frame, tables, queues>>
    BY <1>10 DEF TaskExit, Running
  <2>2. Base(sched, exited')
    BY <2>1, RunningFacts DEF QInv, IInv, Sound, Base
  <2>3. Elems(sched.ready) = {u \in Task \ exited' : sched.task_states[u] = Ready /\ u # sched.idle}
    BY <2>1 DEF QInv, IInv, Sound
  <2>4. Dispatching(sched, exited')
    BY <2>1, <2>2, <2>3 DEF Dispatching
  <2>5. QED
    BY <2>1, <2>4, PreludeWait
<1>11. CASE Halt \/ UNCHANGED vars
  BY <1>11, QuietWait DEF Halt, vars
<1>12. QED
  BY <1>1, <1>2, <1>3, <1>4, <1>5, <1>6, <1>7, <1>8, <1>9, <1>10, <1>11 DEF Next

LEMMA InitWInv ==
  ASSUME Init, QInv, Separated(InitTables)
  PROVE  WInv
<1>1. /\ tables = InitTables /\ queues = NewQueues
      /\ \A t \in Task : frame[t] = None /\ sched.task_states[t] = Unused
  BY DEF Init, NewScheduler
<1>2. \A ep \in SlotId : peek_state(queues, ep) = Idle
  <2>1. SUFFICES ASSUME NEW ep \in SlotId PROVE peek_state(queues, ep) = Idle
    OBVIOUS
  <2>2. queues.states[ep.index] = Idle
    BY <1>1 DEF NewQueues, SlotId
  <2>3. QED
    BY <2>2, PeekFirst DEF QInv, IInv, Typed
<1>3. \A ep \in SlotId : /\ Harmless(peek_state(queues, ep).cap)
                         /\ peek_state(queues, ep) # RecvWaiting
  BY <1>2 DEF Harmless, Idle, RecvWaiting
<1>4. QED
  BY <1>1, <1>3 DEF WInv

\* Nothing gets out of step between the scheduler and the endpoints.
THEOREM WaiterInvariant == Separated(InitTables) /\ Spec => [](QInv /\ WInv)
<1>1. Separated(InitTables) /\ Init /\ QInv => WInv
  BY InitWInv
<1>2. QInv /\ WInv /\ [Next]_vars => WInv'
  BY NextWInv
<1>3. Separated(InitTables) /\ Spec => []WInv
  BY <1>1, <1>2, QueueInvariant, PTL DEF Spec
<1>4. QED
  BY <1>3, QueueInvariant, PTL

\* On every endpoint no EL0 task polls, RecvWaiting has exactly one task
\* blocked behind it, and a task is blocked only behind RecvWaiting.
THEOREM WaiterMatchesCorrect == Separated(InitTables) /\ Spec => []WaiterMatches
<1>1. ASSUME QInv, WInv PROVE WaiterMatches
  <2>1. SUFFICES ASSUME NEW ep \in SlotId, ~PolledByUser(ep)
                 PROVE  IF peek_state(queues, ep) = RecvWaiting
                        THEN \E t \in Task : /\ waiting_on(sched, ep) = {t} /\ frame[t] # None
                                             /\ SuspendedOn(t) = ep
                        ELSE waiting_on(sched, ep) = {}
    BY DEF WaiterMatches
  <2>2. CASE peek_state(queues, ep) = RecvWaiting
    <3>1. PICK t \in Task : frame[t] # None /\ SuspendedOn(t) = ep
      BY <1>1, <2>1, <2>2 DEF WInv, Registered
    <3>2. sched.task_states[t] = Blocked(ep)
      BY <1>1, <2>2, <3>1, SuspendedSlot DEF Suspended, RecvWaiting
    <3>3. t \in waiting_on(sched, ep)
      BY <3>1, <3>2 DEF waiting_on
    <3>4. ASSUME NEW v \in waiting_on(sched, ep)
          PROVE  v = t
      <4>1. v \in Task /\ frame[v] # None /\ SuspendedOn(v) = ep
        BY <1>1, BlockedIsSuspended
      <4>2. Suspended(v) /\ tables[v] \in CapabilityTable /\ frame[v] \in CapHandle
        BY <1>1, <4>1, SuspendedSlot DEF QInv, IInv, Typed
      <4>3. Holds(tables[v], "RECV", SuspendedOn(t))
        BY <3>1, <4>1, <4>2, GripHolds DEF Suspended, SuspendedOn
      <4>4. QED
        BY <1>1, <3>1, <4>1, <4>3, OneWaiter
    <3>5. waiting_on(sched, ep) = {t}
      BY <3>3, <3>4
    <3>6. QED
      BY <2>2, <3>1, <3>5
  <2>3. CASE peek_state(queues, ep) # RecvWaiting
    BY <1>1, <2>3, BlockedIsSuspended
  <2>4. QED
    BY <2>2, <2>3
<1>2. QED
  BY <1>1, WaiterInvariant, PTL

\* Phase 3 of ipc_recv_and_yield finds the message it was woken for.
THEOREM ResumeCorrect == Separated(InitTables) /\ Spec => []ResumeFindsMessage
<1>1. ASSUME QInv, WInv PROVE ResumeFindsMessage
  <2>1. SUFFICES ASSUME NEW t \in Task, frame[t] # None, sched.current = t
                 PROVE  peek_state(queues, SuspendedOn(t)).tag = "RecvComplete"
    BY DEF ResumeFindsMessage
  <2>2. sched.task_states[t] = Ready
    BY <1>1, <2>1, TaskFacts DEF QInv, IInv, Sound
  <2>3. QED
    BY <1>1, <2>1, <2>2, SuspendedSlot, TaskFacts DEF Suspended
<1>2. QED
  BY <1>1, WaiterInvariant, PTL
=============================================================================
