---------------------------- MODULE MCMailPipeline ----------------------------
(***************************************************************************)
(* Instances of MailPipeline for TLC.                                      *)
(***************************************************************************)
EXTENDS MailPipeline, TLC

CONSTANTS
  Undecodable,  \* the events whose payload is not a command
  Invalid       \* the events whose command has a defect

\* One defect stands for all: they differ in the reason that is reported.
MCKind ==
  [e \in Events |->
     CASE e \in Undecodable -> "undecodable"
       [] e \in Invalid -> "badRecipient"
       [] OTHER -> "deliverable"]

Symmetric == Permutations(Processes)
=============================================================================
