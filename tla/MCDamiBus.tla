------------------------------ MODULE MCDamiBus ------------------------------
(* Two registrations of a provider with two methods, one of which is called,    *)
(* and two more listeners of its topic, one of which is removed again.          *)
EXTENDS DamiBus, TLC
CONSTANTS r1, r2, m1, m2, l1, l2, g1, g2

MCRegistrars == {r1, r2}
MCMethods    == {m1, m2}
MCOthers     == {l1, l2}
MCListeners  == (MCRegistrars \X {m1}) \cup MCOthers
MCRemoves    == (MCRegistrars \X {m1}) \cup {l1}
MCHolders    == {g1, g2}
MCSymmetry   == Permutations(MCRegistrars) \cup Permutations(MCHolders)
==============================================================================
