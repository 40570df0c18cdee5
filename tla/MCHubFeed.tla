----------------------------- MODULE MCHubFeed ------------------------------
(* A finite instance of HubFeed for TLC.                                   *)
EXTENDS HubFeed
=============================================================================
