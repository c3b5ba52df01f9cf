---------------------------- MODULE MCSmtpSender ----------------------------
(***************************************************************************)
(* Instances of SmtpSender for TLC: one process of each mode.              *)
(***************************************************************************)
EXTENDS SmtpSender

CONSTANTS w1, w2, e1, e2, e3

MCWorkers == {w1, w2}
MCEvents == {e1, e2, e3}

MCKind ==
  [e \in MCEvents |->
     CASE e = e1 -> "deliverable" [] e = e2 -> "badRecipient" [] OTHER -> "undecodable"]

MCMode == [w \in MCWorkers |-> IF w = w1 THEN "tls" ELSE "starttls"]
=============================================================================
