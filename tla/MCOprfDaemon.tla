---------------------------- MODULE MCOprfDaemon ----------------------------
(* Two workers and three clients that come back: one more than can be        *)
(* served at once.                                                           *)
EXTENDS OprfDaemon
=============================================================================
