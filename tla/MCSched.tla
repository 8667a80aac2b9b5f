------------------------------- MODULE MCSched -------------------------------
(***************************************************************************)
(* Small instances of SchedIpc.  Endpoint k is the k-th arena slot.        *)
(***************************************************************************)
EXTENDS SchedIpc

Ep(i) == [index |-> i, generation |-> 0]

MCRights == {"SEND", "RECV", "TRANSFER"}

MCObjects ==
  {EndpointObject(h) : h \in SlotId} \union {NotificationObject(h) : h \in SlotId}

Table1(c) == insert_root(NewTable, c)
Table2(c, d) == insert_root(Table1(c), d)
Table3(c, d, e) == insert_root(Table2(c, d), e)

To(i) == [rights |-> {"SEND"}, object |-> EndpointObject(Ep(i))]
From(i) == [rights |-> {"RECV"}, object |-> EndpointObject(Ep(i))]
Both(i) == [rights |-> {"SEND", "RECV"}, object |-> EndpointObject(Ep(i))]
Token == [rights |-> {"TRANSFER"}, object |-> NotificationObject(Ep(0))]

\* Address spaces: the kernel tasks and idle share one, the EL0 task has its own.
SharedAs == [t \in Task |-> "boot"]
UserAs == [t \in Task |-> IF t \in UserTask THEN "user" ELSE "boot"]

\* One receiver per endpoint, task i on endpoint i, and a ring of kernel
\* senders, so that every kernel task can end up waiting; tasks 0 and 1 both
\* send to 2.  Task 1 owns a capability to pass on; the table of task 0 has no
\* room for it.  Task 3, in EL0, polls an endpoint of its own, which 2 sends to.
ServiceTables ==
  [t \in Task |->
     IF t = 0 THEN Table3(From(0), To(1), To(2))
     ELSE IF t = 1 THEN Table3(From(1), To(2), Token)
     ELSE IF t = 2 THEN Table3(From(2), To(0), To(3))
     ELSE IF t = 3 THEN Table1(Both(3))
     ELSE NewTable]

\* These tables are of the kind the theorems on WaiterMatches and
\* ResumeFindsMessage are about.
ASSUME ServiceSeparated == Capacity >= 3 => Separated(ServiceTables)

\* Two receivers share endpoint 0, a third task sends to it.
SharedReceiverTables ==
  [t \in Task |->
     IF t \in {0, 1} THEN Table1(From(0))
     ELSE IF t = 2 THEN Table1(To(0))
     ELSE NewTable]
=============================================================================
