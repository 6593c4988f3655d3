--------------------------- MODULE MCWireguardAgent ---------------------------
(* Small instances of WireguardAgent for TLC. *)
EXTENDS WireguardAgent, TLC

CONSTANTS addr, addr6,       \* the wireguard's addresses, as CIDRs
          net, net6,         \* their connected routes
          cidrX, cidrY,      \* networks behind the peer: a /32 and another
          cidr6,             \* an IPv6 network behind the peer
          peerP, peerQ

BothKinds == {"configure", "delete"}
ConfigureOnly == {"configure"}

Inet6Set == {addr6, net6, cidr6}
ConnectedTo == (addr :> {net}) @@ (addr6 :> {net6})

Dict(p, a, i) == [peer |-> p, addr |-> a, ips |-> i]

\* A change of peer and allowed IPs, and one to an IPv6 address.
SomeDicts == {Dict(peerP, addr, <<cidrX>>), Dict(peerQ, addr, <<cidrY>>),
              Dict(peerP, addr6, <<cidrX, cidr6>>)}

OneDict == {Dict(peerP, addr, <<cidrX, net>>)}

\* Every command that can fail; a failing flush leaves the old address in place.
AllSteps == ConfigureSteps \union DeleteSteps

BeforeCreation == {"show", "add", "check"}
UpStep == {"up"}
NoSteps == {}

\* Once two operations have overlapped, nothing is claimed of the interface:
\* such states are checked, their successors are not generated.
UntilOverlap == ~overlapped

Symmetry == Permutations(Threads) \union Permutations(Locks)

===============================================================================
