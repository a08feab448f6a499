---------------------------- MODULE MCExternalWork ----------------------------
(* An instance of ExternalWork: one target, whose integration is edited once.  *)
EXTENDS ExternalWork

CONSTANTS t1, g1, k1, k2
=============================================================================
