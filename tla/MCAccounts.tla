----------------------------- MODULE MCAccounts -----------------------------
(***************************************************************************)
(* Small instances of Accounts for TLC.                                    *)
(***************************************************************************)
EXTENDS Accounts, TLC

(* One nickname has two spellings. *)
LowerCase(n) == IF n = "Ann" THEN "ann" ELSE n

Symmetry == Permutations(Requests) \union Permutations(Users) \union Permutations(Emails)

(* Bound: the third session is for the runs of one account, where two      *)
(* rotations race; with two accounts there are two sessions.               *)
TwoSessionsForTwoAccounts == Cardinality(Registered) = 2 => created <= 2
=============================================================================
