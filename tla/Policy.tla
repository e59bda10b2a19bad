------------------------------- MODULE Policy -------------------------------
(***************************************************************************)
(* The compiler of presets (internal/policy): from what an operator writes *)
(* under `presets:` to tables of nftables.                                 *)
(*                                                                         *)
(* A network in CIDR notation is the set of its addresses, all of one      *)
(* family.  The lists that the code sorts and joins into `{ ... }` are     *)
(* sets here; where the order of rules matters they are sequences.  An     *)
(* absent stanza, and an absent field that is a string, is None.           *)
(*                                                                         *)
(* Presets p: p.deny and p.caddy are Booleans, p.ssh, p.db and p.outbound  *)
(* records or None, p.mail a set of ports, p.blockSets a function from     *)
(* names, p.forwards, p.masquerade and p.marks sequences, p.helpers a set  *)
(* of names.                                                               *)
(***************************************************************************)
EXTENDS Netfilter, SequencesExt

CONSTANTS
  Rank,         (* a function from the strings that are sorted to numbers, *)
                (* in lexicographic order; None stands for ""              *)
  NetworkRank   (* likewise from networks                                  *)

ASSUME RankAssumption == Rank \in [DOMAIN Rank -> Int] /\ NetworkRank \in [DOMAIN NetworkRank -> Int]

When(b, rules) == IF b THEN rules ELSE << >>

(* Rules made for the IPv4 and for the IPv6 networks of a list: `:` in the *)
(* text tells them apart.                                                  *)
OfFamily(cidrs, f) == {c \in cidrs : \A a \in c : AddressFamily[a] = f}

PerFamily(cidrs, base, verdict) ==
  LET rules(f) == When(OfFamily(cidrs, f) # {},
                       << Rule([base EXCEPT !.peer = UNION OfFamily(cidrs, f)], verdict, None) >>)
  IN  rules("v4") \o rules("v6")

Tcp(ports) == [AnyPacket EXCEPT !.proto = {"tcp"}, !.dport = ports]
Udp(ports) == [AnyPacket EXCEPT !.proto = {"udp"}, !.dport = ports]

Default(n, otherwise) == IF n = 0 THEN otherwise ELSE n
-----------------------------------------------------------------------------
(* The input chain.                                                        *)

SshPort(s) == Default(s.port, 22)
DbPort(d)  == Default(d.port, 5432)

(* Mutant: the rate limit is forgotten when there is an allowlist.         *)
SshRulesUnlimited(s) ==
  LET open == [Tcp({SshPort(s)}) EXCEPT !.iface = IF s.interfaces = {} THEN Interfaces ELSE s.interfaces]
  IN  IF s.from # {} THEN PerFamily(s.from, open, "accept")
      ELSE << Accept(open) >>

(* `limited`: a rate limit above 0.  A meter is of one family, so without  *)
(* an allowlist there is a rule for each.                                  *)
SshRules(s) ==
  LET open == [Tcp({SshPort(s)}) EXCEPT !.iface = IF s.interfaces = {} THEN Interfaces ELSE s.interfaces]
      base == IF s.limited THEN [open EXCEPT !.state = {"new"}, !.over = {FALSE}] ELSE open
  IN  IF s.from # {} THEN PerFamily(s.from, base, "accept")
      ELSE IF s.limited THEN << Accept([base EXCEPT !.family = {"v4"}]),
                                Accept([base EXCEPT !.family = {"v6"}]) >>
      ELSE << Accept(base) >>

DbRules(d) ==
  IF d.from = {} THEN << Accept(Tcp({DbPort(d)})) >>
  ELSE PerFamily(d.from, Tcp({DbPort(d)}), "accept")

(* The mail preset is the set of the ports that it opens.                  *)
MailRules(ports) == << Accept(Tcp(ports)) >>

Established == Accept([AnyPacket EXCEPT !.state = {"established"}])
Loopback    == Accept([AnyPacket EXCEPT !.iface = {"lo"}])

(* Mutant: no conntrack rule.                                              *)
InputChainStateless(p) ==
  [policy |-> IF p.deny THEN "drop" ELSE "accept",
   rules  |-> When(p.deny, << Loopback >>)
              \o (IF p.ssh = None THEN << >> ELSE SshRules(p.ssh))
              \o When(p.caddy, << Accept(Tcp({80, 443})) >>)
              \o (IF p.db = None THEN << >> ELSE DbRules(p.db))
              \o When(p.mail # {}, MailRules(p.mail))]

InputChain(p) ==
  [policy |-> IF p.deny THEN "drop" ELSE "accept",
   rules  |-> When(p.deny, << Established, Loopback >>)
              \o (IF p.ssh = None THEN << >> ELSE SshRules(p.ssh))
              \o When(p.caddy, << Accept(Tcp({80, 443})) >>)
              \o (IF p.db = None THEN << >> ELSE DbRules(p.db))
              \o When(p.mail # {}, MailRules(p.mail))]
-----------------------------------------------------------------------------
(* The output chain.                                                       *)

(* `allow` names the services switched on, `custom` is the set of ports,   *)
(* `block` a set of networks and `refs` a set of names of block sets.      *)
Active(o) == o # None /\ (o.restrict \/ o.block # {} \/ o.refs # {})

BlockRules(o, blockSets) ==
  PerFamily(o.block, AnyPacket, "drop")
  \o LET refs == SetToSeq(o.refs)
     IN  [i \in DOMAIN refs |-> [Drop([AnyPacket EXCEPT !.family = {blockSets[refs[i]].family}])
                                  EXCEPT !.peerSet = refs[i]]]

AllowRules(o) ==
  << Loopback, Established >>
  \o When("dns" \in o.allow, << Accept(Udp({53})), Accept(Tcp({53})) >>)
  \o When("http" \in o.allow, << Accept(Tcp({80})) >>)
  \o When("https" \in o.allow, << Accept(Tcp({443})) >>)
  \o When("ntp" \in o.allow, << Accept(Udp({123})) >>)
  \o When("smtp" \in o.allow, << Accept(Tcp({25, 465, 587})) >>)
  \o When("ping" \in o.allow, << Accept([AnyPacket EXCEPT !.proto = {"ping"}, !.family = {"v4"}]),
                                 Accept([AnyPacket EXCEPT !.proto = {"ping"}, !.family = {"v6"}]) >>)
  \o When(o.custom # {}, << Accept(Tcp(o.custom)) >>)

(* Mutant: what is allowed comes before what is blocked.                   *)
OutboundChainAllowFirst(o, blockSets) ==
  [policy |-> IF o.restrict THEN "drop" ELSE "accept",
   rules  |-> When(o.restrict, AllowRules(o)) \o BlockRules(o, blockSets)]

OutboundChain(o, blockSets) ==
  [policy |-> IF o.restrict THEN "drop" ELSE "accept",
   rules  |-> BlockRules(o, blockSets) \o When(o.restrict, AllowRules(o))]
-----------------------------------------------------------------------------
(* The tables.                                                             *)

(* blockSets is a function from names; a family that is not written is v4. *)
CompileBlockSet(s) == UNION s.cidrs

HasFilterPresets(p) ==
  p.deny \/ p.ssh # None \/ p.caddy \/ p.db # None \/ p.mail # {} \/ Active(p.outbound)
    \/ DOMAIN p.blockSets # {}

Compile(p) ==
  [chains |-> [c \in {"input"} \cup (IF Active(p.outbound) THEN {"output"} ELSE {}) |->
                 IF c = "input" THEN InputChain(p) ELSE OutboundChain(p.outbound, p.blockSets)],
   sets   |-> [s \in DOMAIN p.blockSets |-> CompileBlockSet(p.blockSets[s])]]

(* sort.SliceStable: by the keys, which are tuples of numbers, and where   *)
(* they are equal as written.                                              *)
LexLess(a, b) == \E i \in DOMAIN a : a[i] < b[i] /\ \A j \in 1..(i - 1) : a[j] = b[j]

StableSort(s, key) ==
  LET before(i, j) == LexLess(key[i], key[j]) \/ (key[i] = key[j] /\ i < j)
      place(i) == Cardinality({j \in DOMAIN s : before(j, i)}) + 1
  IN  [k \in DOMAIN s |-> s[CHOOSE i \in DOMAIN s : place(i) = k]]

OrAny(x, all) == IF x = None THEN all ELSE x

ForwardKey(f) == << f.ext, Rank[f.proto], Rank[f.to] >>
ToPort(f)     == Default(f.toPort, f.ext)

(* Mutant: the internal port does not default to the external one.         *)
ForwardRuleUndefaulted(f) ==
  Rule([AnyPacket EXCEPT !.proto = {IF f.proto = None THEN "tcp" ELSE f.proto}, !.dport = {f.ext},
                   !.peer = OrAny(f.from, Addresses),
                   !.family = {"v4"},
                   !.iface = IF f.iif = None THEN Interfaces ELSE {f.iif}],
       "dnat", << f.to, f.toPort >>)

(* `ip saddr` and an `ip` table match IPv4 only.                           *)
ForwardRule(f) ==
  Rule([AnyPacket EXCEPT !.proto = {IF f.proto = None THEN "tcp" ELSE f.proto}, !.dport = {f.ext},
                   !.peer = OrAny(f.from, Addresses),
                   !.family = {"v4"},
                   !.iface = IF f.iif = None THEN Interfaces ELSE {f.iif}],
       "dnat", << f.to, ToPort(f) >>)

MasqueradeKey(m) == << Rank[m.oif], NetworkRank[m.source] >>

(* The rule looks at the source of a packet that leaves, where `peer` is   *)
(* its destination: the network goes along as the rule's argument.         *)
MasqueradeRule(m) ==
  Rule([AnyPacket EXCEPT !.iface = {m.oif}, !.family = {"v4"}], "masquerade", m.source)

CompileNATTable(forwards, masquerade) ==
  LET fws == StableSort(forwards, [i \in DOMAIN forwards |-> ForwardKey(forwards[i])])
      ms  == StableSort(masquerade, [i \in DOMAIN masquerade |-> MasqueradeKey(masquerade[i])])
      rules(c) == IF c = "prerouting" THEN [i \in DOMAIN fws |-> ForwardRule(fws[i])]
                  ELSE [i \in DOMAIN ms |-> MasqueradeRule(ms[i])]
  IN  [chains |-> [c \in {"prerouting", "postrouting"} |-> [policy |-> "none", rules |-> rules(c)]],
       sets   |-> << >>]

(* `meta l4proto icmp` is ICMP and not ICMPv6.                             *)
MarkRule(m) ==
  Rule([AnyPacket EXCEPT !.iface = IF m.oif = None THEN Interfaces ELSE {m.oif},
                   !.peer = OrAny(m.daddr, Addresses),
                   !.proto = IF m.proto = None THEN Protocols
                             ELSE IF m.proto = "icmp" THEN {"ping"} ELSE {m.proto},
                   !.family = IF m.proto = "icmp" THEN {"v4"} ELSE Families,
                   !.dport = IF m.dport = 0 THEN Ports ELSE {m.dport}],
       "mark", m.set)

MarkTable(rules) ==
  [chains |-> [c \in {"output"} |-> [policy |-> "none", rules |-> rules]], sets |-> << >>]

(* Mutant: the marks are not sorted.                                       *)
CompileMarksTableUnsorted(marks) == MarkTable([i \in DOMAIN marks |-> MarkRule(marks[i])])

CompileMarksTable(marks) ==
  LET sorted == StableSort(marks, [i \in DOMAIN marks |-> << marks[i].set, Rank[marks[i].name] >>])
  IN  MarkTable([i \in DOMAIN sorted |-> MarkRule(sorted[i])])

(* Conntrack helpers: the protocol and the port that each is attached to.  *)
Helpers == << "ftp", "sip", "tftp", "pptp", "irc", "h323" >>

HelperPort(h) ==
  CASE h = "ftp"  -> Tcp({21})   [] h = "sip" -> Udp({5060}) [] h = "tftp" -> Udp({69})
    [] h = "pptp" -> Tcp({1723}) [] h = "irc" -> Tcp({6667}) [] h = "h323" -> Tcp({1720})

CompileCTTable(helpers) ==
  LET enabled == SelectSeq(Helpers, LAMBDA h : h \in helpers)
  IN  [chains |-> [c \in {"prerouting"} |->
                     [policy |-> "none",
                      rules  |-> [i \in DOMAIN enabled |-> Rule(HelperPort(enabled[i]), "helper", enabled[i])]]],
       sets   |-> << >>]

PresetsTable == "zeerak-presets"
NATTable     == "zeerak-nat"
MarksTable   == "zeerak-marks"
CTTable      == "zeerak-ct"

CompileTables(p) ==
  [n \in {t \in {PresetsTable, NATTable, MarksTable, CTTable} :
            \/ t = PresetsTable /\ HasFilterPresets(p)
            \/ t = NATTable /\ (p.forwards # << >> \/ p.masquerade # << >>)
            \/ t = MarksTable /\ p.marks # << >>
            \/ t = CTTable /\ p.helpers # {}} |->
     CASE n = PresetsTable -> Compile(p)
       [] n = NATTable     -> CompileNATTable(p.forwards, p.masquerade)
       [] n = MarksTable   -> CompileMarksTable(p.marks)
       [] n = CTTable      -> CompileCTTable(p.helpers)]
-----------------------------------------------------------------------------
(* What the types of a set of presets say: Presets, and all it is made of. *)
(* The addresses of a network are of one family.                           *)
Networks == {c \in SUBSET Addresses : \E f \in Families : \A a \in c : AddressFamily[a] = f}

Optional(S) == S \cup {None}

IsPresets(p) ==
  /\ p.ssh # None => p.ssh.from \subseteq Networks
  /\ p.db # None => p.db.from \subseteq Networks
  /\ p.mail \subseteq {25, 587, 993, 995}
  /\ p.outbound # None => p.outbound.block \subseteq Networks /\ IsFiniteSet(p.outbound.refs)
  /\ None \notin DOMAIN p.blockSets
  /\ \A s \in DOMAIN p.blockSets : p.blockSets[s].cidrs \subseteq Networks
  /\ p.forwards \in Seq([proto : {None, "tcp", "udp"}, iif : Optional(Interfaces), from : Optional(Networks),
                         ext : Int, to : DOMAIN Rank, toPort : Int])
  /\ p.marks \in Seq([name : DOMAIN Rank, daddr : Optional(Networks), proto : {None, "tcp", "udp", "icmp"},
                      dport : Int, oif : Optional(Interfaces), set : Nat])
-----------------------------------------------------------------------------
(* What Validate lets through.                                             *)

MaxPort       == 65535
IsPort(n)     == n \in 1..MaxPort
PortOrZero(n) == n = 0 \/ IsPort(n)

ValidRouting(p) ==
  /\ \A i \in DOMAIN p.forwards :
       /\ IsPort(p.forwards[i].ext)
       /\ PortOrZero(p.forwards[i].toPort)
       /\ p.forwards[i].to # None
  /\ \A i \in DOMAIN p.masquerade : p.masquerade[i].oif # None
  /\ \A i \in DOMAIN p.marks :
       /\ p.marks[i].name # None
       /\ p.marks[i].set # 0
       /\ PortOrZero(p.marks[i].dport)
       /\ p.marks[i].dport # 0 => p.marks[i].proto \in {"tcp", "udp"}
       /\ \A j \in DOMAIN p.marks : p.marks[i].name = p.marks[j].name => i = j

Validate(p) ==
  /\ p.ssh # None => PortOrZero(p.ssh.port)
  /\ p.db # None => PortOrZero(p.db.port)
  /\ p.outbound # None =>
       /\ \A n \in p.outbound.custom : IsPort(n)
       /\ p.outbound.refs \subseteq DOMAIN p.blockSets
  /\ ValidRouting(p)

(* What nft checks beyond that: the elements of a set are of its family.   *)
NftAccepts(p) ==
  \A s \in DOMAIN p.blockSets :
    OfFamily(p.blockSets[s].cidrs, p.blockSets[s].family) = p.blockSets[s].cidrs
=============================================================================
