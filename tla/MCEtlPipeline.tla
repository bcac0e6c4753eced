-------------------------- MODULE MCEtlPipeline --------------------------
(* Instances of EtlPipeline: r1 and r2 are two collections of one candle    *)
(* (the candle closed in between), r3 is a product page, r4 raises          *)
(* and r5 holds nothing usable.                                             *)
EXTENDS EtlPipeline, TLC

CONSTANTS r1, r2, r3, r4, r5, candle, product, s1, s2

MCIdentityOf == [r \in Raw |-> IF r \in {r1, r2} THEN candle ELSE product]
MCPayload == [r \in Raw |-> CASE r = r4 -> "broken"
                              [] r = r5 -> "unusable"
                              [] OTHER -> "usable"]
MCSourceOf == [r \in Raw |-> IF r \in {r4, r5} THEN s2 ELSE s1]

\* Normalized rows are interchangeable, and so are the sessions.
MCSymmetry ==
  Permutations(Row) \cup Permutations(Normalizers) \cup Permutations(Processors)
=============================================================================
