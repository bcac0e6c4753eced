------------------------------ MODULE RawStore ------------------------------
(***************************************************************************)
(* What RAW ingestion promises its callers: saving a batch is one          *)
(* idempotent step.  What is new is stored, what is there is kept, and the *)
(* rows reported as new are those that were not there.                     *)
(***************************************************************************)
EXTENDS Naturals, FiniteSets

CONSTANT Payload

VARIABLES
  stored,   \* payloads kept
  created   \* rows all callers together were told they created

Init == stored = {} /\ created = 0

Save(batch) ==
  /\ stored' = stored \cup batch
  /\ created' = created + Cardinality(batch \ stored)

Next == \E batch \in SUBSET Payload : Save(batch)

Spec == Init /\ [][Next]_<<stored, created>>
=============================================================================
