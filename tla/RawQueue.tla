------------------------------ MODULE RawQueue ------------------------------
(***************************************************************************)
(* What the RAW layer promises the stages behind it: a queue whose items   *)
(* are settled at least once, in any order and by anybody, and which       *)
(* stores at most one of the items that share a key.                       *)
(***************************************************************************)
CONSTANTS
  Item,
  KeyOf,    \* [Item -> Key \cup {NoKey}]
  NoKey

VARIABLES
  pending,  \* enqueued and never settled
  settled,  \* settled at least once
  stored    \* items whose result is kept

vars == <<pending, settled, stored>>

Init ==
  /\ pending = {}
  /\ settled = {}
  /\ stored = {}

Enqueue(r) ==
  /\ r \notin pending \cup settled
  /\ pending' = pending \cup {r}
  /\ UNCHANGED <<settled, stored>>

\* No other item with the key of r is kept.
Free(r) == KeyOf[r] # NoKey => \A q \in stored : KeyOf[q] # KeyOf[r]

\* Once settled an item never waits again; what is stored is never taken back.
Settle(r) ==
  /\ r \in pending \cup settled
  /\ pending' = pending \ {r}
  /\ settled' = settled \cup {r}
  /\ \/ UNCHANGED stored
     \/ Free(r) /\ stored' = stored \cup {r}

Next == \E r \in Item : Enqueue(r) \/ Settle(r)

Spec == Init /\ [][Next]_vars
=============================================================================
