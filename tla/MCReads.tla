------------------------------ MODULE MCReads ------------------------------
(* Small rulesets of the shapes that Presets.CompileTables makes: the      *)
(* input chain is always there, the output chain only for an active        *)
(* outbound preset, its policy is drop only when it restricts, block sets  *)
(* belong to the presets table, the NAT table appears with a masquerade.   *)
(* Two more have a raw table of the operator's (`tables:`), whose rules    *)
(* need not have the comment that every rule of a preset has.              *)
EXTENDS Reads, TLC

Chain(policy, rules) == [policy |-> policy, rules |-> rules]
Table(chains, sets)  == [chains |-> chains, sets |-> sets]

Input(rules)  == "input" :> Chain("drop", rules)
Output(p)     == "output" :> Chain(p, << "block" >>)
Blocked(els)  == "blocked" :> els
Filter(rules) == "filter" :> Table("forward" :> Chain("drop", rules), << >>)

MCForeign == "docker" :> Table("prerouting" :> Chain("accept", << "dnat" >>), << >>)

Empty    == << >>
Basic    == "presets" :> Table(Input(<< "ssh" >>), << >>)
Web      == "presets" :> Table(Input(<< "ssh", "http" >>), << >>)
Lockdown == "presets" :> Table(Input(<< "ssh" >>) @@ Output("drop"), << >>)
Blocks   == "presets" :> Table(Input(<< "ssh" >>) @@ Output("accept"), Blocked({"net1"}))
MoreBlks == "presets" :> Table(Input(<< "ssh" >>) @@ Output("accept"), Blocked({"net1", "net2"}))
Masq     == Basic @@ "nat" :> Table("postrouting" :> Chain("none", << "masquerade" >>), << >>)
Raw      == Basic @@ Filter(<< "count", "bad net", "v4 udp", "bad net6", "vpn", "web range", "tunnel" >>)
RawMore  == Filter(<< "known", "web range", "udp", "not ssh", "web set", "chain" >>)

AnyShape == {Empty, Basic, Web, Lockdown, Blocks, MoreBlks, Masq, Raw, RawMore}
Symmetry == Permutations(Changes)
-----------------------------------------------------------------------------
(* A peer writes from an address of the family of the host's address.      *)
Peers == {"10.0.0.5", "192.0.2.7", "2001:db8::5"}
Hosts == {"192.0.2.1", "2001:db8::1"}

MCIPv6 == {"2001:db8::5", "2001:db8::1"}

MCPackets ==
  {p \in [protocol : {"tcp", "udp"}, saddr : Peers, daddr : Hosts, sport : {40000}, dport : {22, 80, 443},
           iif : {"eth0", "wg0"}, oif : {"eth0"}] : p.saddr \in MCIPv6 <=> p.daddr \in MCIPv6}

MCQueries ==
  [protocol : {"tcp", "udp"}, saddr : Peers \cup {""}, daddr : {"192.0.2.1", ""},
   sport : {0}, dport : {22, 80, 443, 0}, iif : {"eth0", "wg0", ""}, oif : {"eth0", ""}]

MCPortWord == "22" :> {22} @@ "80-443" :> 80..443
MCNetWord  == "10.0.0.0/8" :> {"10.0.0.5"} @@ "2001:db8::/32" :> MCIPv6

(* The rules as nft lists them.                                            *)
MCWords ==
  "ssh" :> << "tcp", "dport", "22", "accept", "comment", "ssh" >> @@
  "http" :> << "tcp", "dport", "80-443", "accept", "comment", "http" >> @@
  "block" :> << "ip", "daddr", "@blocked", "drop", "comment", "blocked" >> @@
  "dnat" :> << "tcp", "dport", "80-443", "dnat", "to", "10.0.0.5" >> @@
  "masquerade" :> << "oifname", "eth0", "masquerade", "comment", "masquerade" >> @@
  "count" :> << "tcp", "dport", "22", "counter" >> @@
  "bad net" :> << "ip", "saddr", "10.0.0.0/8", "log", "drop" >> @@
  "v4 udp" :> << "iif", "eth0", "ip", "protocol", "udp", "accept" >> @@
  "bad net6" :> << "ip6", "saddr", "2001:db8::/32", "tcp", "dport", "80-443", "reject" >> @@
  "tunnel" :> << "iif", "wg0", "accept" >> @@
  "vpn" :> << "iifname", "wg0", "ip", "protocol", "udp", "return" >> @@
  "web range" :> << "iif", "eth0", "tcp", "dport", "80-443", "counter", "accept" >> @@
  "known" :> << "ct", "state", "established", "accept" >> @@
  "udp" :> << "meta", "l4proto", "udp", "accept" >> @@
  "not ssh" :> << "tcp", "dport", "!=", "22", "drop" >> @@
  "web set" :> << "tcp", "dport", "{", "80,", "443", "}", "accept" >> @@
  "chain" :> << "ip", "daddr", "192.0.2.1", "jump", "other" >>

(* What they mean.  No packet of the model is in the set of blocked        *)
(* addresses, and every one is the first of its connection.                *)
MCApplies(rule, p) ==
  CASE rule \in {"ssh", "count"} -> p.protocol = "tcp" /\ p.dport = 22
    [] rule \in {"http", "dnat", "web set"} -> p.protocol = "tcp" /\ p.dport \in {80, 443}
    [] rule = "web range" -> p.protocol = "tcp" /\ p.dport \in 80..443 /\ p.iif = "eth0"
    [] rule = "bad net" -> p.saddr = "10.0.0.5"
    [] rule = "tunnel" -> p.iif = "wg0"
    [] rule = "vpn" -> p.iif = "wg0" /\ p.protocol = "udp" /\ p.saddr \notin MCIPv6
    [] rule = "v4 udp" -> p.iif = "eth0" /\ p.protocol = "udp" /\ p.saddr \notin MCIPv6
    [] rule = "bad net6" -> p.saddr \in MCIPv6 /\ p.protocol = "tcp" /\ p.dport \in 80..443
    [] rule = "udp" -> p.protocol = "udp"
    [] rule = "not ssh" -> p.protocol = "tcp" /\ p.dport # 22
    [] rule = "masquerade" -> p.oif = "eth0"
    [] rule = "chain" -> p.daddr = "192.0.2.1"
    [] rule \in {"block", "known"} -> FALSE
=============================================================================
