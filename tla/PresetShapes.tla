---------------------------- MODULE PresetShapes ----------------------------
(* Words for small presets, for the model-checking modules: three peers,   *)
(* two of them with an IPv4 address.                                       *)
EXTENDS Policy, FiniteSets

MCFamily == [a \in Addresses |-> IF a = "c6" THEN "v6" ELSE "v4"]

MCRank == [s \in {None, "tcp", "udp", "h1", "h2", "vpn", "bulk", "wg0"} |->
             CASE s = None  -> 0 [] s = "bulk" -> 1 [] s = "h1"  -> 2 [] s = "h2"  -> 3
               [] s = "tcp" -> 4 [] s = "udp"  -> 5 [] s = "vpn" -> 6 [] s = "wg0" -> 7]

MCNetworkRank == [n \in {None} \cup SUBSET Addresses |-> IF n = None THEN 0 ELSE Cardinality(n)]

Net4 == {"a4"}
All4 == {"a4", "b4"}
Net6 == {"c6"}

Ssh(port, from, interfaces, limited) ==
  [port |-> port, from |-> from, interfaces |-> interfaces, limited |-> limited]
Db(port, from) == [port |-> port, from |-> from]
Out(restrict, allow, custom, block, refs) ==
  [restrict |-> restrict, allow |-> allow, custom |-> custom, block |-> block, refs |-> refs]
Set(family, cidrs) == [family |-> family, cidrs |-> cidrs]

Nothing ==
  [deny |-> FALSE, ssh |-> None, caddy |-> FALSE, db |-> None, mail |-> {}, outbound |-> None,
   blockSets |-> << >>, forwards |-> << >>, masquerade |-> << >>, marks |-> << >>, helpers |-> {}]

Forward(proto, iif, from, ext, to, toPort) ==
  [proto |-> proto, iif |-> iif, from |-> from, ext |-> ext, to |-> to, toPort |-> toPort]
MkMark(name, daddr, proto, dport, oif, set) ==
  [name |-> name, daddr |-> daddr, proto |-> proto, dport |-> dport, oif |-> oif, set |-> set]
=============================================================================
