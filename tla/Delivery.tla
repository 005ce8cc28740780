------------------------------ MODULE Delivery ------------------------------
(***************************************************************************)
(* What the server side of marc promises of the objects that were shipped  *)
(* to it, without buckets, cursors, staging files, failures or restarts:   *)
(* every object stays where it can be found, its events are stored or      *)
(* given up, and it is filed away only when it has nothing left to say.    *)
(*                                                                         *)
(* Module Processor implements it with store as its bucket's raw/ and its  *)
(* archive, stored as ClickHouse's rows and dropped as the events a model  *)
(* cannot denoise.                                                         *)
(***************************************************************************)
CONSTANTS
  Objects,        \* all objects there could be
  Says(_)         \* of an object: the events in it that are to be stored

VARIABLES
  shipped,   \* the objects shipped so far
  waiting,   \* those that are to be processed, or wait for a person
  filed,     \* those that are done with
  stored,    \* the events that can be queried
  dropped    \* the events that cannot be

deliveryVars == <<shipped, waiting, filed, stored, dropped>>

DeliveryInit ==
  shipped = {} /\ waiting = {} /\ filed = {} /\ stored = {} /\ dropped = {}

Ship ==
  \E o \in Objects \ shipped :
    /\ shipped' = shipped \cup {o} /\ waiting' = waiting \cup {o}
    /\ UNCHANGED <<filed, stored, dropped>>

\* One event of a waiting object is settled.
Store ==
  \E o \in waiting : \E e \in Says(o) :
    stored' = stored \cup {e} /\ UNCHANGED <<shipped, waiting, filed, dropped>>

Drop ==
  \E o \in waiting : \E e \in Says(o) :
    dropped' = dropped \cup {e} /\ UNCHANGED <<shipped, waiting, filed, stored>>

\* An object is put on file; it may be found in both places for a while, and
\* be processed again.
File ==
  \E o \in waiting :
    /\ Says(o) \subseteq stored \cup dropped
    /\ filed' = filed \cup {o}
    /\ UNCHANGED <<shipped, waiting, stored, dropped>>

Remove ==
  \E o \in waiting \cap filed :
    waiting' = waiting \ {o} /\ UNCHANGED <<shipped, filed, stored, dropped>>

DeliveryNext == Ship \/ Store \/ Drop \/ File \/ Remove

DeliverySpec == DeliveryInit /\ [][DeliveryNext]_deliveryVars

=============================================================================
