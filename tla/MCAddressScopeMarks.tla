------------------------- MODULE MCAddressScopeMarks -------------------------
(* A small instance of AddressScopeMarks for TLC. *)
EXTENDS AddressScopeMarks, TLC

Symmetry == Permutations(Wireguards)

==============================================================================
