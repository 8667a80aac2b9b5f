---------------------------- MODULE MCAddressSpace ----------------------------
(***************************************************************************)
(* Tables of two entries: sixteen virtual pages.                           *)
(***************************************************************************)
EXTENDS AddressSpaceSpec

MCObjects == {AddressSpaceObject(h) : h \in SlotId} \union {[kind |-> "DebugConsole"]}

\* A page under the boot block, two of the next L3 table, and an address in each
\* region that is not page-aligned.
MCVas == {2, 3, 4, 5, 6}

MCFlags == {{"USER", "EXECUTE"}, {"USER", "WRITE"}, {"DEVICE", "EXECUTE"}}

MCRightsChoices == {{"DERIVE"}}
=============================================================================
