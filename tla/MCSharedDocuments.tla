--------------------------- MODULE MCSharedDocuments --------------------------
EXTENDS SharedDocuments, TLC

(* Both essays are marked, alike or not, or only one of them. *)
BothOrOne == {<<1, 1>>, <<1, 2>>, <<2, 1>>, <<1, Undefined>>, <<Undefined, 1>>}

(* Users, slots and messages are told apart by nothing. *)
Symmetry == Permutations(Users) \cup Permutations(Slots) \cup Permutations(Messages)
==============================================================================
