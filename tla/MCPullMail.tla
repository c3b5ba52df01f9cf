------------------------------ MODULE MCPullMail ------------------------------
(***************************************************************************)
(* Instance of PullMail for TLC: a command that can be delivered and one   *)
(* that cannot be decoded.                                                 *)
(***************************************************************************)
EXTENDS PullMail

CONSTANTS m1, m2

MCKind == [m \in {m1, m2} |-> IF m = m1 THEN "deliverable" ELSE "undecodable"]
=============================================================================
