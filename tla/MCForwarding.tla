---------------------------- MODULE MCForwarding ----------------------------
(* Pi-holes with their paths, and fallback lists, for the instances of Forwarding. *)
EXTENDS Forwarding

CONSTANTS quad9, cloudflare

TwoServers == <<quad9, cloudflare>>
OneServer == <<quad9>>

TwoPaths == <<"pi1", "pi1">>
OnePath == <<"pi1">>
=============================================================================
