----------------------------- MODULE MCSession -----------------------------
(* Two accounts on one phone. *)
EXTENDS Session, TLC

\* The accounts are interchangeable.
Symmetry == Permutations(Accounts)

=============================================================================
