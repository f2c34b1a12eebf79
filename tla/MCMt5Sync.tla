----------------------------- MODULE MCMt5Sync -----------------------------
(* Small instances of Mt5Sync for TLC. *)
EXTENDS Mt5Sync, TLC

CONSTANTS p1, p2, s1, s2, k1, k2, k3, u1, u2

OnePosition == {p1}
SecondPosition == {p2}
TwoPositions == {p1, p2}
OneSlot == {s1}
TwoSlots == {s1, s2}
TwoTokens == {k1, k2}
ThreeTokens == {k1, k2, k3}
TwoUploads == {u1, u2}
None == {}

\* Tokens and slots are only ever compared.
SymmetryOne == Permutations(TwoTokens)
Symmetry == Permutations(TwoSlots) \cup Permutations(ThreeTokens) \cup Permutations(TwoUploads)
=============================================================================
