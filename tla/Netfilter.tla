----------------------------- MODULE Netfilter -----------------------------
(***************************************************************************)
(* How the kernel walks a packet through the chains of a table: the part   *)
(* of nftables that the rules emitted by internal/policy rely on.  Tables  *)
(* have the form of module Nft.                                            *)
(*                                                                         *)
(* A rule has a clause for every field of a packet, the set of the values  *)
(* it lets through, and possibly the name of a set of destinations.        *)
(***************************************************************************)
EXTENDS Integers, Sequences

CONSTANTS
  Addresses,     (* IPv4 and IPv6 addresses of the peers          *)
  AddressFamily, (* a function: "v4" or "v6" for each of them     *)
  Ports,         (* port numbers, 0 for a packet that has none    *)
  Interfaces,    (* names of interfaces, "lo" among them          *)
  None           (* a nil pointer, or no set                      *)

Families  == {"v4", "v6"}
Protocols == {"tcp", "udp", "ping"}   (* "ping": an ICMP or ICMPv6 echo request *)

ASSUME AddressAssumption == AddressFamily \in [Addresses -> Families]
ASSUME InterfaceAssumption == "lo" \in Interfaces

(* `peer` is the source of a packet that comes in and the destination of   *)
(* one that leaves, `iface` the interface it comes in or leaves by; `over` *)
(* tells whether its source has used up its share of a meter.              *)
Packets ==
  {k \in [peer : Addresses, family : Families, proto : Protocols, dport : Ports,
          iface : Interfaces, state : {"new", "established"}, over : BOOLEAN] :
     k.family = AddressFamily[k.peer] /\ (k.proto = "ping" <=> k.dport = 0)}

(* The rule without a clause.                                              *)
AnyPacket ==
  [peer |-> Addresses, family |-> Families, proto |-> Protocols, dport |-> Ports,
   iface |-> Interfaces, state |-> {"new", "established"}, over |-> BOOLEAN]

Rule(match, verdict, arg) == [match |-> match, peerSet |-> None, verdict |-> verdict, arg |-> arg]

Accept(match) == Rule(match, "accept", None)
Drop(match)   == Rule(match, "drop", None)

Matches(rule, k, sets) ==
  /\ \A field \in DOMAIN AnyPacket : k[field] \in rule.match[field]
  /\ rule.peerSet # None => k.peer \in sets[rule.peerSet]

Hits(rules, k, sets) == {i \in DOMAIN rules : Matches(rules[i], k, sets)}

(* Accept, drop and dnat end the walk through a chain.                     *)
Earliest(indexes) == CHOOSE i \in indexes : \A j \in indexes : i <= j

Verdict(table, chain, k) ==
  IF chain \notin DOMAIN table.chains THEN "accept"
  ELSE LET c == table.chains[chain]
           hits == Hits(c.rules, k, table.sets)
       IN  IF hits # {} THEN c.rules[Earliest(hits)].verdict ELSE c.policy

(* The host and port a new connection is redirected to, None if it is not. *)
Redirect(table, chain, k) ==
  LET rules == table.chains[chain].rules
      hits  == Hits(rules, k, table.sets)
  IN  IF hits = {} THEN None ELSE rules[Earliest(hits)].arg

(* `meta mark set` does not end the walk: every rule that matches sets the *)
(* mark anew.  A packet comes with mark 0.                                 *)
Latest(indexes) == CHOOSE i \in indexes : \A j \in indexes : j <= i

MarkOf(table, chain, k) ==
  LET rules == table.chains[chain].rules
      hits  == Hits(rules, k, table.sets)
  IN  IF hits = {} THEN 0 ELSE rules[Latest(hits)].arg
=============================================================================
