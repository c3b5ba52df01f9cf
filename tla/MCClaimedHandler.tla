--------------------------- MODULE MCClaimedHandler ---------------------------
(***************************************************************************)
(* Instances of ClaimedHandler for TLC.                                    *)
(***************************************************************************)
EXTENDS ClaimedHandler
=============================================================================
