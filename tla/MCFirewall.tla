----------------------------- MODULE MCFirewall -----------------------------
(* Firewall with small constants for TLC.                                  *)
EXTENDS Firewall

MCAddress == {"lan4", "lan6", "dns1", "dns2"}
MCLan4 == <<"lan4">>
MCLan6 == <<"lan6">>
MCPIADNS == <<"dns1", "dns2">>

Symmetry == Permutations(Endpoint) \cup Permutations(Port)
=============================================================================
