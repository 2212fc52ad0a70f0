--------------------------- MODULE MCOutboxRelay ----------------------------
(***************************************************************************)
(* Small instances of OutboxRelay for TLC.                                 *)
(***************************************************************************)
EXTENDS OutboxRelay, TLC

(* Replicas and chats are interchangeable in every safety property. *)
Symmetry == Permutations(Replicas) \union Permutations(Chats)
=============================================================================
