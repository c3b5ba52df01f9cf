---------------------------- MODULE MCKafkaConsumer ----------------------------
(***************************************************************************)
(* Instances of KafkaConsumer for TLC.                                     *)
(***************************************************************************)
EXTENDS KafkaConsumer
=============================================================================
