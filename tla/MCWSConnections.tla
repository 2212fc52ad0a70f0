-------------------------- MODULE MCWSConnections ---------------------------
(***************************************************************************)
(* Small instances of WSConnections for TLC.                               *)
(***************************************************************************)
EXTENDS WSConnections

(* Bound: the second event, for the order in a channel, is for behaviours  *)
(* in which both connections are through the handshake when it comes, and  *)
(* presence and CloseAll are at rest.                                      *)
TwoEventsAfterHandshakes ==
  (\E s \in Senders : sender[s].event > 1) =>
    /\ \A k \in Conns : conn[k].pc \in {"open", "offline", "done"}
    /\ online = {} /\ toClose = {}
=============================================================================
