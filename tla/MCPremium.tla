------------------------------ MODULE MCPremium ------------------------------
(* Instances of Premium for TLC.                                           *)
EXTENDS Premium, TLC

Same == Permutations(User) \cup Permutations(Worker)
=============================================================================
