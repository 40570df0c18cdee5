--------------------------- MODULE MCCertRenewal ----------------------------
(* A finite instance of CertRenewal for TLC.                               *)
EXTENDS CertRenewal
=============================================================================
