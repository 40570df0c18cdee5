------------------------------ MODULE MCServer ------------------------------
(* A finite instance of Server for TLC: one address, so that the sessions  *)
(* race for its mailbox.                                                   *)
EXTENDS Server

CONSTANTS d1, john, mail

MCLower == [a \in {john} |-> a]
MCDomainOf == [a \in {john} |-> d1]
MCAttachments == [e \in {mail} |-> 1]
=============================================================================
