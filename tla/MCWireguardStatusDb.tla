------------------------- MODULE MCWireguardStatusDb -------------------------
(* Small instances of WireguardStatusDb for TLC. *)
EXTENDS WireguardStatusDb, TLC

AgentReports == {"ACTIVE", "ERROR"}

Symmetry == Permutations(Hosts) \union Permutations(Workers)

==============================================================================
