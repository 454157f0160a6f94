---------------------------- MODULE MCRouteCarve ----------------------------
(***************************************************************************)
(* Instances for TLC: addresses of three bits.                             *)
(***************************************************************************)
EXTENDS RouteCarve

Zero == [i \in 1..W |-> 0]
Six == [fam |-> 6, bit |-> [i \in 1..W |-> 1]]
Four == {[fam |-> 4, bit |-> b] : b \in [1..W -> {0, 1}]}

\* Every masked IPv4 CIDR, one that is not masked, two of IPv6 and the junk.
Entries ==
    {[fam |-> 4, bits |-> n, bit |-> b] : n \in 0..W, b \in [1..W -> {0, 1}]}
MCEntries ==
    {r \in Entries : r = Masked(r)}
        \cup {[fam |-> 4, bits |-> 1, bit |-> Six.bit]}
        \cup {[fam |-> 6, bits |-> n, bit |-> Zero] : n \in {0, 2}}
        \cup {Junk}

MCRouteSets == {{}} \cup {{r, s} : r \in MCEntries, s \in MCEntries}
MCPeers == Four \cup {Six, NoCIDR}
MCDNSSets == {{}, {Six}} \cup {{a} : a \in Four} \cup {{a, Six} : a \in Four}
=============================================================================
