------------------------------ MODULE MCWorkdesk ------------------------------
(* Workdesk for TLC: the constants are in Workdesk_all.cfg.                *)
EXTENDS Workdesk
=============================================================================
