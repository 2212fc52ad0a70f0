------------------------------ MODULE MCChats -------------------------------
(***************************************************************************)
(* Small instances of Chats for TLC.                                       *)
(***************************************************************************)
EXTENDS Chats, TLC

Symmetry == Permutations(Requests) \union Permutations(Users)
=============================================================================
