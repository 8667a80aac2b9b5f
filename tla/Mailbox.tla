------------------------------- MODULE Mailbox -------------------------------
(***************************************************************************)
(* What IPC promises its callers, without tables, slots or generations: an *)
(* endpoint is a box for one message and at most one capability, and every *)
(* capability is owned by one caller or sits in one box.  Ipc's queues,    *)
(* arena and tables implement it (IpcSpec!Mailboxes).                      *)
(***************************************************************************)
EXTENDS Naturals, Bags, Option

CONSTANTS
  Caller,    \* the holders of capabilities
  Endpoint,  \* every endpoint that ever exists: a reused slot is a new one
  Message,
  Cap,       \* capabilities
  Allows(_, _, _)  \* Allows(c, r, e): capability c grants right r over e;
                   \* with e = None, right r over the capability itself

VARIABLES
  box,    \* box[e]: the message held by e with its capability, or None
  owned   \* owned[p]: the bag of capabilities caller p owns

vars == <<box, owned>>

Init ==
  /\ box = [e \in Endpoint |-> None]
  /\ owned = [p \in Caller |-> EmptyBag]

May(p, r, e) == \E c \in BagToSet(owned[p]) : Allows(c, r, e)

\* The holdings after p gains or loses one copy of c; nothing moves for None.
Copy(c) == IF c = None THEN EmptyBag ELSE SetToBag({c})
Gained(p, c) == [owned EXCEPT ![p] = @ (+) Copy(c)]
Lost(p, c) == [owned EXCEPT ![p] = @ (-) Copy(c)]

\* An empty box takes a message; its capability leaves the sender.
Put(p, e) ==
  /\ box[e] = None
  /\ box'[e] \in [msg : Message, cap : Cap \union {None}]
  /\ box' = [box EXCEPT ![e] = box'[e]]
  /\ May(p, "SEND", e)
  /\ LET c == box'[e].cap
     IN /\ c # None => BagIn(c, owned[p]) /\ Allows(c, "TRANSFER", None)
        /\ owned' = Lost(p, c)

\* A receiver empties the box and owns what was in it.
Take(p, e) ==
  /\ box[e] # None /\ box'[e] = None
  /\ box' = [box EXCEPT ![e] = None]
  /\ May(p, "RECV", e)
  /\ owned' = Gained(p, box[e].cap)

\* An endpoint goes away with the message it holds, never with a capability.
Discard(e) ==
  /\ box[e] # None
  /\ box[e].cap = None
  /\ box' = [box EXCEPT ![e] = None]
  /\ UNCHANGED owned

\* Table operations outside IPC: a caller gains or loses one copy of a
\* capability.
Adjust ==
  /\ UNCHANGED box
  /\ \E p \in Caller :
       /\ owned'[p] # owned[p]
       /\ \/ \E c \in BagToSet(owned'[p]) : owned' = Gained(p, c)
          \/ \E c \in BagToSet(owned[p]) : owned' = Lost(p, c)

Next ==
  \/ \E p \in Caller, e \in Endpoint : Put(p, e) \/ Take(p, e)
  \/ \E e \in Endpoint : Discard(e)
  \/ Adjust

Spec == Init /\ [][Next]_vars
=============================================================================
