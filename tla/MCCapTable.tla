----------------------------- MODULE MCCapTable -----------------------------
(***************************************************************************)
(* Small instances of CapTableSpec, and the literal scratch-queue walk of  *)
(* cap_revoke, checked against the relational order the specification uses.*)
(***************************************************************************)
EXTENDS CapTableSpec, SequencesExt

MCRights == {"DUPLICATE", "DERIVE", "REVOKE"}

\* Rights sets a caller asks for: everything, and all but REVOKE.
MCRightsChoices == {MCRights, {"DUPLICATE", "DERIVE"}}

-----------------------------------------------------------------------------
RECURSIVE AppendChain(_, _, _), ExpandQueue(_, _, _)

\* Mutant: a sibling chain contributes its head only.
AppendHeadOnly(t, q, c) == IF c = None \/ Len(q) >= Capacity THEN q ELSE Append(q, c)

\* The inner while loop: queue c and its later siblings, while there is room.
AppendChain(t, q, c) ==
  IF c = None \/ Len(q) >= Capacity THEN q
  ELSE AppendChain(t, Append(q, c), NextSibling(t, c))

\* The outer while loop: queue the children of each queued slot in turn.
ExpandQueue(t, q, scan) ==
  IF scan > Len(q) THEN q
  ELSE ExpandQueue(t, AppendChain(t, q, FirstChild(t, q[scan])), scan + 1)

RevokeQueue(t, s) == ExpandQueue(t, AppendChain(t, <<>>, FirstChild(t, s)), 1)

\* The free loop over the queue, then the source's first_child is cleared.
RevokeByWalk(t, s) ==
  LET freed == FoldLeft(free_slot, t, RevokeQueue(t, s))
  IN [freed EXCEPT !.entry[s].first_child = None]

\* The breadth-first walk of cap_revoke never fills its scratch array, queues
\* the subtree in the one order IsQueueOrder admits, and freeing along it ends
\* in the table cap_revoke is specified to produce.
RevokeWalkAgrees ==
  \A s \in Live(table) :
    LET q == RevokeQueue(table, s)
        D == Descendants(table, s)
    IN /\ Len(q) < Capacity
       /\ \A order \in [1 .. Cardinality(D) -> D] :
            IsQueueOrder(table, s, order) <=> order = q
       /\ IsQueueOrder(table, s, q)
       /\ cap_revoke(table, HandleOf(table, s), q) = RevokeByWalk(table, s)
=============================================================================
