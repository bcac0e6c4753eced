---------------------------- MODULE MCCollection ----------------------------
(* Instances of Collection: an exchange with collector runs, and a shop with *)
(* a seeded page (and the runs of the legacy collector).                     *)
EXTENDS Collection, TLC

CONSTANTS r1, r2, r3, l1, exchange, shop, coin, page

MCRunSource == [r \in Run |-> IF r = l1 THEN shop ELSE exchange]
MCTwoSources == [t \in Target |-> IF t = coin THEN exchange ELSE shop]
MCOneSource == [t \in Target |-> exchange]
MCNames == [s \in Source |-> s]                   \* each source its own name
MCOneName == [s \in Source |-> exchange]          \* one name in two modules
MCSymmetry == Permutations(Run \ LegacyRun)
=============================================================================
