----------------------------- MODULE MCAccounts -----------------------------
(* Instances of Accounts for TLC. *)
EXTENDS Accounts

CONSTANTS root, ann

\* Everybody has an address of their own.
OwnEmail == [u \in Users |-> u]

TokenSymmetry == Permutations(Jtis)
=============================================================================
