---------------------------- MODULE MCLifecycle ----------------------------
(* Configurations for the instances of Lifecycle: those Validate accepts. *)
EXTENDS Lifecycle

MCConfigs == {c \in [udp : BOOLEAN, tcp : BOOLEAN, admin : BOOLEAN] : c.udp \/ c.tcp}
=============================================================================
