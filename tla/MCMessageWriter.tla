-------------------------- MODULE MCMessageWriter ---------------------------
(***************************************************************************)
(* Small instances of MessageWriter for TLC.                               *)
(***************************************************************************)
EXTENDS MessageWriter, TLC

Symmetry == Permutations(Requests) \union Permutations(Users)
              \union Permutations(Chats) \union Permutations(Texts)

(* Bound: the fourth transaction is for behaviours with one text and no    *)
(* reply, edit or deletion in progress, where two messages are created and *)
(* then read in either order; the others have three.                       *)
TextsUsed == {req[q].text : q \in Requests} \union {msg[m].text : m \in Msgs}

FourToReadTwo ==
  clock > 3 =>
    /\ Cardinality(TextsUsed \ {None}) <= 1
    /\ \A q \in Requests : req[q].op \in {"none", "create", "read"} /\ req[q].reply = 0
=============================================================================
