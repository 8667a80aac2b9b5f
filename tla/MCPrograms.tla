----------------------------- MODULE MCPrograms -----------------------------
(***************************************************************************)
(* The two builds' workloads with one endpoint.                            *)
(***************************************************************************)
EXTENDS Programs

MCRights == {"SEND", "RECV", "CONSOLE_WRITE"}

MCObjects ==
  {EndpointObject(h) : h \in SlotId} \union {NotificationObject(h) : h \in SlotId}
  \union {[kind |-> "DebugConsole"]}

UserAs == [t \in Task |-> IF t \in UserTask THEN "user" ELSE "boot"]
=============================================================================
