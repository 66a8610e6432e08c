---------------------------- MODULE MCAlertEngine ----------------------------
(* Instances of AlertEngine for TLC.                                        *)
EXTENDS AlertEngine, TLC

\* Rules 1 and 3 share filter 1, rule 2 watches filter 2.
MCScopeOf == [r \in Rules |-> IF r = 2 THEN 2 ELSE 1]

AdvancerSymmetry == Permutations(Advancers)

=============================================================================
