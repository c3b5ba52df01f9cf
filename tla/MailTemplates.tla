---------------------------- MODULE MailTemplates ----------------------------
(***************************************************************************)
(* The template definitions that ServiceModule provides to the group       *)
(* "mail_templates" (internal/fx/service.go).  A subject line is stood for *)
(* by the function that provides it; ten definitions share a body.         *)
(***************************************************************************)
Definition(type, subject, file) == [type |-> type, subject |-> subject, file |-> file]

Lifecycle(type, subject) == Definition(type, subject, "order_lifecycle.html")

AccountTemplates ==
  {Definition("email_code", "EmailCode", "email_code.html"),
   Definition("welcome", "Welcome", "welcome.html"),
   Definition("password_reset", "PasswordReset", "password_reset.html"),
   Definition("order_receipt", "OrderReceipt", "order_receipt.html")}

OrderTemplates ==
  {Lifecycle("order_delivery_submitted_seller", "OrderDelivery"),
   Lifecycle("order_delivery_submitted_buyer", "OrderDeliveryBuyer"),
   Lifecycle("order_revision_requested_seller", "OrderRevision"),
   Lifecycle("order_revision_requested_buyer", "OrderRevisionBuyer"),
   Lifecycle("order_disputed_buyer", "OrderDispute"),
   Lifecycle("order_disputed_seller", "OrderDisputeSeller"),
   Lifecycle("order_completed_buyer", "OrderCompletion"),
   Lifecycle("order_completed_seller", "OrderCompletionSeller"),
   Lifecycle("order_release_failed_buyer", "OrderReleaseFailed"),
   Lifecycle("order_release_failed_seller", "OrderReleaseFailedSeller")}

\* Mutant: a provider copied from its neighbour keeps the type of it.
TemplatesCopied ==
  AccountTemplates \cup OrderTemplates
    \cup {Lifecycle("order_completed_buyer", "OrderCompletionSeller")}

\* What templateRegistryParams.Defs holds, in no particular order.
Templates == AccountTemplates \cup OrderTemplates
=============================================================================
