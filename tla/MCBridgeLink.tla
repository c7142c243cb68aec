---------------------------- MODULE MCBridgeLink ----------------------------
(* Keys are model values; each is used once. *)
EXTENDS BridgeLink
=============================================================================
