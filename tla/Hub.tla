-------------------------------- MODULE Hub --------------------------------
(***************************************************************************)
(* lightcycle-firehose/src/hub.rs on tokio's broadcast channel (external): *)
(* every subscriber has its own backlog of at most HubCapacity outputs; a  *)
(* publish to a full backlog overwrites the oldest one, and the subscriber *)
(* is told so (Lagged) before it reads on.                                 *)
(***************************************************************************)
EXTENDS Integers, Sequences

CONSTANT HubCapacity

ASSUME HubAssumption == HubCapacity \in Nat \ {0}

\* Hub::subscribe: a receiver sees what is published from now on.
FreshRing == [items |-> <<>>, lagged |-> FALSE]

\* broadcast::Sender::send, as one receiver sees it.
Broadcast(ring, o) ==
    IF Len(ring.items) < HubCapacity
    THEN [ring EXCEPT !.items = Append(@, o)]
    ELSE [items |-> Append(Tail(ring.items), o), lagged |-> TRUE]
=============================================================================
