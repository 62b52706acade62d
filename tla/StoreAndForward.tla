---------------------------- MODULE StoreAndForward ----------------------------
(***************************************************************************)
(* What a store that forwards promises: every item it takes is delivered   *)
(* at least once, unless it has to give way to newer ones.  Items wait in  *)
(* the store; one that has been delivered may be delivered again; only     *)
(* what has been delivered is forgotten.                                   *)
(***************************************************************************)
EXTENDS FiniteSets, Naturals

CONSTANTS
  Items,
  Capacity

VARIABLES
  held,      \* items in the store
  delivered  \* items delivered since they were last taken

vars == <<held, delivered>>

Init == held = {} /\ delivered = {}

\* The store takes an item, and gives up others, or the item itself, only if it
\* would hold more than its capacity.
Take(i) ==
  /\ \E lost \in SUBSET (held \cup {i}) :
       /\ lost # {} => Cardinality(held \cup {i}) > Capacity
       /\ held' = (held \cup {i}) \ lost
  /\ delivered' = delivered \ {i}

Deliver ==
  /\ \E some \in SUBSET held : delivered' = delivered \cup some
  /\ held' = held

Forget ==
  /\ \E some \in SUBSET (held \cap delivered) : held' = held \ some
  /\ delivered' = delivered

\* Delivered and forgotten in one go.
Forward ==
  /\ \E some \in SUBSET held, done \in SUBSET held :
       /\ delivered' = delivered \cup some
       /\ done \subseteq delivered'
       /\ held' = held \ done

Next == (\E i \in Items : Take(i)) \/ Deliver \/ Forget \/ Forward

Spec == Init /\ [][Next]_vars
================================================================================
