----------------------------- MODULE MCAccounts -----------------------------
(* Instances of Accounts for TLC: all values are interchangeable. *)
EXTENDS Accounts, TLC

MCSymmetry ==
  UNION {Permutations(S) : S \in {Ids, Names, Passwords, Tokens, Requests}}
=============================================================================
