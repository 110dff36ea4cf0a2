----------------------------- MODULE MCControl -----------------------------
(* Two Pi-holes at first; others share a name or an address with them. *)
EXTENDS Control

Pihole(n, a) == [name |-> n, addrs |-> a]

MCCandidates == {Pihole("home", {1, 2}), Pihole("office", {3}), Pihole("attic", {4}),
                 Pihole("attic", {5}), Pihole("spare", {2})}
MCInitial == [ups |-> <<Pihole("home", {1, 2}), Pihole("office", {3})>>,
              strategy |-> "failover", enabled |-> TRUE, servers |-> <<"quad9">>,
              timeouts |-> TRUE]
MCServerLists == {<<>>, <<"quad9">>}
=============================================================================
