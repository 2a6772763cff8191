----------------------------- MODULE MCProfiles -----------------------------
(* Small instances of Profiles: see README.md for what each .cfg asks. *)
EXTENDS Profiles

CONSTANTS k1, k2, tier, sword, potion

MCCost == [g \in Goods |-> IF g = sword THEN 0 ELSE 1]
OneTier == {[act |-> "BUY", good |-> tier]}
Potables == {[act |-> "BUY", good |-> potion], [act |-> "USE", good |-> potion]}
TierAndPotion == OneTier \cup Potables
OneSaver == {[act |-> "EQUIP", good |-> sword]}
=============================================================================
