-------------------------------- MODULE MCIpc --------------------------------
(***************************************************************************)
(* A small instance of IpcSpec: two callers, one endpoint slot that is     *)
(* reused once, one notification.                                          *)
(***************************************************************************)
EXTENDS IpcSpec, TLC

MCObjects == {EndpointObject(h) : h \in SlotId} \union {NotificationObject(h) : h \in SlotId}

MCRights == {"SEND", "RECV", "TRANSFER", "DERIVE", "NOTIFY"}

MCGrantRights == {{"SEND", "TRANSFER", "DERIVE", "NOTIFY"}, {"RECV"}}

MCSymmetry == Permutations(Caller)
=============================================================================
