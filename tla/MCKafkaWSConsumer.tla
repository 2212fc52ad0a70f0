------------------------- MODULE MCKafkaWSConsumer --------------------------
(***************************************************************************)
(* Small instances of the delivery pipeline for TLC.                       *)
(***************************************************************************)
EXTENDS KafkaWSConsumer, TLC

CONSTANTS c1, p1

(* One chat: all its events go to one partition, other partitions stay     *)
(* empty unless the key is lost.                                           *)
MCBalancer == c1 :> p1
=============================================================================
