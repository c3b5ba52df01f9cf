-------------------------- MODULE MCServiceLifecycle --------------------------
(***************************************************************************)
(* Instances of ServiceLifecycle for TLC, with the templates of the        *)
(* service.                                                                *)
(***************************************************************************)
EXTENDS ServiceLifecycle, MailTemplates
=============================================================================
