--------------------------- MODULE MCMailDelivery ---------------------------
(* Finite instances of MailDelivery for TLC: one address, which a mail may *)
(* name twice and whose mailbox may be another one the second time, and a  *)
(* name its domain may be given instead.                                   *)
EXTENDS MailDelivery

CONSTANTS d1, d2, john, withFile

MCLower == [a \in {john} |-> a]
MCDomainOf == [a \in {john} |-> d1]
MCAttachments == [e \in {withFile} |-> 1]
=============================================================================
