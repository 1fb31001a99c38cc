----------------------------- MODULE MCLootRoll -----------------------------
(* Instances of LootRoll for TLC.                                           *)
EXTENDS LootRoll, TLC

\* Members that may roll, and do not pass on loot, are interchangeable.
Symmetry == Permutations(Players \ (CannotRoll \cup PassOnLoot))
=============================================================================
