----------------------------- MODULE MCPlanning -----------------------------
(* Two Pi-holes, one of them with a LAN and a Tailscale path. *)
EXTENDS Planning

MCUpstreams == <<"home", "office">>
MCPaths == [home |-> <<"home-lan", "home-ts">>, office |-> <<"office-lan">>]
MCStrategies == {"failover", "round-robin", "least-latency", "random"}
=============================================================================
