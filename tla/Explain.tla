------------------------------ MODULE Explain ------------------------------
(***************************************************************************)
(* The tools of the MCP server (internal/mcp/explain.go): SimulatePacket   *)
(* walks the text of `nft list ruleset` and predicts what happens to a     *)
(* packet, ExplainRule puts a rule into words.  Both read a rule word by   *)
(* word; a rule is the sequence of its words.  A packet is a record of the *)
(* fields that the caller gave, "" or 0 where it gave none.                *)
(***************************************************************************)
EXTENDS Naturals, Sequences, FiniteSets

CONSTANTS
  Words,      (* function: the words of each rule that may be listed         *)
  PortWord,   (* function: the ports that a word such as 22 or 8000-9000 names *)
  NetWord     (* function: the addresses in the network that a word names    *)

Named(f, word) == IF word \in DOMAIN f THEN f[word] ELSE {}

Verdicts    == << "accept", "drop", "reject", "return", "continue", "jump", "goto" >>
Terminal    == {"accept", "drop", "reject"}
PlainWords  == Terminal \cup {"return", "continue", "counter", "log"}
InterfaceOf == [iif |-> "iif", iifname |-> "iif", oif |-> "oif", oifname |-> "oif"]

Word(rule, i) == IF i <= Len(rule) THEN rule[i] ELSE ""
-----------------------------------------------------------------------------
(* ruleMatches.                                                            *)

PortMatches(spec, p) ==
  IF p = 0 \/ spec = "" THEN spec = "" ELSE p \in Named(PortWord, spec)

AddrMatches(spec, addr) == spec = addr \/ addr \in Named(NetWord, spec)

(* How many words the clause at i takes up if the packet satisfies it; 0   *)
(* if it does not, or if the clause is not understood.                     *)
Satisfied(rule, i, pkt) ==
  LET key   == rule[i]
      field == Word(rule, i + 1)
      spec  == Word(rule, i + 2)
      Take(n, holds) == IF holds THEN n ELSE 0
  IN  CASE key \in PlainWords -> 1
        [] key \in {"jump", "goto"} -> 2
        [] key \in {"tcp", "udp"} /\ field \in {"sport", "dport"} ->
             Take(3, pkt.protocol = key /\ PortMatches(spec, pkt[field]))
        [] key \in {"tcp", "udp"} /\ field \notin {"sport", "dport"} ->
             Take(1, pkt.protocol = key)
        [] key \in {"ip", "ip6"} /\ field \in {"saddr", "daddr"} ->
             Take(3, pkt[field] # "" /\ AddrMatches(spec, pkt[field]))
        [] key \in {"ip", "ip6"} /\ field = "protocol" ->
             Take(3, pkt.protocol # "" /\ pkt.protocol = spec)
        [] key \in DOMAIN InterfaceOf ->
             Take(2, pkt[InterfaceOf[key]] # "" /\ pkt[InterfaceOf[key]] = field)
        [] OTHER -> 0

(* Mutant: a word that is not understood is passed over.                   *)
RuleMatchesLeniently(rule, pkt) ==
  LET from[i \in 1..(Len(rule) + 2)] ==
        i > Len(rule) \/
          LET n == Satisfied(rule, i, pkt) IN from[i + (IF n = 0 THEN 1 ELSE n)]
  IN  from[1]

RuleMatches(rule, pkt) ==
  LET from[i \in 1..(Len(rule) + 2)] ==
        i > Len(rule) \/
          LET n == Satisfied(rule, i, pkt) IN n > 0 /\ from[i + n]
  IN  from[1]
-----------------------------------------------------------------------------
(* SimulatePacket.  A chain is listed with its policy and its rules.       *)

Occurs(word, rule) == \E i \in DOMAIN rule : rule[i] = word

ExtractVerdict(rule) ==
  IF \E v \in DOMAIN Verdicts : Occurs(Verdicts[v], rule)
  THEN Verdicts[CHOOSE v \in DOMAIN Verdicts :
         Occurs(Verdicts[v], rule) /\ \A w \in 1..(v - 1) : ~Occurs(Verdicts[w], rule)]
  ELSE ""

Hits(chain, pkt) == {i \in DOMAIN chain.rules : RuleMatches(Words[chain.rules[i]], pkt)}

Deciding(chain, pkt) ==
  {i \in Hits(chain, pkt) : ExtractVerdict(Words[chain.rules[i]]) \in Terminal}

First(S) == CHOOSE i \in S : \A k \in S : i <= k

(* Mutant: a packet that no rule decides is let through.                   *)
SimulatePacketOpen(chain, pkt) ==
  IF Deciding(chain, pkt) = {} THEN "accept"
  ELSE ExtractVerdict(Words[chain.rules[First(Deciding(chain, pkt))]])

(* The answer of the first chain that the listing has at the hook, which   *)
(* always decides, because nft lists the policy of every base chain.       *)
SimulatePacket(chain, pkt) ==
  IF Deciding(chain, pkt) = {} THEN chain.policy
  ELSE ExtractVerdict(Words[chain.rules[First(Deciding(chain, pkt))]])
-----------------------------------------------------------------------------
(* ExplainRule: how many words the clause at i takes up, 0 for one that is *)
(* quoted raw with all that follows.                                       *)
Explained(rule, i) ==
  LET key   == rule[i]
      field == Word(rule, i + 1)
  IN  CASE key \in PlainWords \cup {"icmp", "icmpv6"} -> 1
        [] key \in {"jump", "goto"} \cup DOMAIN InterfaceOf -> 2
        [] key \in {"ip", "ip6"} /\ field \in {"saddr", "daddr", "protocol"} -> 3
        [] key \in {"tcp", "udp"} /\ field \in {"sport", "dport"} -> 3
        [] << key, field >> \in {<< "ct", "state" >>, << "meta", "l4proto" >>} -> 3
        [] OTHER -> 0

ExplainsRule(rule) ==
  LET from[i \in 1..(Len(rule) + 3)] ==
        i > Len(rule) \/ (Explained(rule, i) > 0 /\ from[i + Explained(rule, i)])
  IN  from[1]
=============================================================================
