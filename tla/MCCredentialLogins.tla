------------------------- MODULE MCCredentialLogins -------------------------
(* Instance of CredentialLogins for TLC.                                   *)
EXTENDS CredentialLogins, TLC

CONSTANTS c1, c2, p1
=============================================================================
