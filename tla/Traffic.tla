------------------------------ MODULE Traffic ------------------------------
(***************************************************************************)
(* What the compiled presets mean to traffic.  The operator puts one set   *)
(* of presets after another into force, by staging, confirming or undoing  *)
(* them (module Stager), and nft does to the kernel what module Nft says;  *)
(* at the same time peers open connections to the host and the host to     *)
(* peers.  The kernel tracks connections: their packets are `established`  *)
(* under whatever rules are in force later, and keep the redirection that  *)
(* their first packet got.                                                 *)
(***************************************************************************)
EXTENDS Policy, Nft, FiniteSets

CONSTANTS
  Booted,          (* presets of the configuration files that are tried    *)
  Stageable,       (* presets that may be staged                           *)
  MaxConnections   (* bounds the model                                     *)

ASSUME PresetAssumption ==
  /\ {None, "tcp", "udp"} \subseteq DOMAIN Rank
  /\ None # "icmp"
  /\ \A p \in Booted \cup Stageable : IsPresets(p)

VARIABLES
  presets,         (* in force                                             *)
  kernel,          (* the tables that the kernel holds                     *)
  connections      (* tracked by the kernel                                *)

vars == << presets, kernel, connections >>

(* `from` tells who opened a connection; `to` is "host" or where it was    *)
(* redirected to.                                                          *)
Connection(k, from, to) ==
  [peer |-> k.peer, proto |-> k.proto, port |-> k.dport, iface |-> k.iface, from |-> from, to |-> to]

Bare == << >>

Loads(p) == Validate(p) /\ NftAccepts(p)

Init ==
  /\ presets \in {p \in Booted : Loads(p)}
  /\ kernel = Apply(Bare, CompileTables(presets))
  /\ connections = {}

PutInForce(p) ==
  /\ Loads(p)
  /\ presets' = p
  /\ kernel' = Apply(kernel, CompileTables(p))
  /\ UNCHANGED connections
-----------------------------------------------------------------------------
(* The kernel.  The filter tables see what the NAT table has not redirected *)
(* to another host; Zeerak has no forward chain.                           *)

InputVerdict(k) ==
  IF PresetsTable \in DOMAIN kernel THEN Verdict(kernel[PresetsTable], "input", k) ELSE "accept"

OutputVerdict(k) ==
  IF PresetsTable \in DOMAIN kernel THEN Verdict(kernel[PresetsTable], "output", k) ELSE "accept"

(* A packet of the host to itself is tracked when it leaves and so never   *)
(* redirected when it comes in.                                            *)
Redirection(k) ==
  IF NATTable \in DOMAIN kernel /\ k.iface # "lo"
  THEN Redirect(kernel[NATTable], "prerouting", k) ELSE None

Mark(k) ==
  IF MarksTable \in DOMAIN kernel THEN MarkOf(kernel[MarksTable], "output", k) ELSE 0

NewPackets == {k \in Packets : k.state = "new"}

Room == Cardinality(connections) < MaxConnections

Track(c) ==
  /\ connections' = connections \cup {c}
  /\ UNCHANGED << presets, kernel >>

Arrive(k) ==
  /\ Room
  /\ Redirection(k) = None
  /\ InputVerdict(k) = "accept"
  /\ Track(Connection(k, "peer", "host"))

ArriveRedirected(k) ==
  /\ Room
  /\ Redirection(k) # None
  /\ Track(Connection(k, "peer", Redirection(k)))

Leave(k) ==
  /\ Room
  /\ OutputVerdict(k) = "accept"
  /\ Track(Connection(k, "host", "host"))

Close(c) ==
  /\ connections' = connections \ {c}
  /\ UNCHANGED << presets, kernel >>

Next ==
  \/ \E p \in Stageable : PutInForce(p)
  \/ \E k \in NewPackets : Arrive(k) \/ ArriveRedirected(k) \/ Leave(k)
  \/ \E c \in connections : Close(c)

Spec == Init /\ [][Next]_vars
-----------------------------------------------------------------------------
(* What an operator reads in a set of presets.                             *)

Blocked(p) ==
  IF p.outbound = None THEN {}
  ELSE UNION (p.outbound.block \cup UNION {p.blockSets[r].cidrs : r \in p.outbound.refs})

(* `from`, `interfaces` and the rate limit narrow what SSH admits.         *)
SshAdmits(s, k) ==
  /\ k.proto = "tcp"
  /\ k.dport = SshPort(s)
  /\ s.from # {} => k.peer \in UNION s.from
  /\ s.interfaces # {} => k.iface \in s.interfaces
  /\ s.limited => ~k.over

DbAdmits(d, k) ==
  /\ k.proto = "tcp"
  /\ k.dport = DbPort(d)
  /\ d.from # {} => k.peer \in UNION d.from

MayComeIn(p, k) ==
  \/ ~p.deny
  \/ k.iface = "lo"
  \/ p.ssh # None /\ SshAdmits(p.ssh, k)
  \/ p.db # None /\ DbAdmits(p.db, k)
  \/ k.proto = "tcp" /\ k.dport \in p.mail \cup (IF p.caddy THEN {80, 443} ELSE {})

OpenPorts(o, proto) ==
  CASE proto = "udp"  -> UNION {IF "dns" \in o.allow THEN {53} ELSE {}, IF "ntp" \in o.allow THEN {123} ELSE {}}
    [] proto = "tcp"  -> UNION {IF "dns" \in o.allow THEN {53} ELSE {}, IF "http" \in o.allow THEN {80} ELSE {},
                                IF "https" \in o.allow THEN {443} ELSE {},
                                IF "smtp" \in o.allow THEN {25, 465, 587} ELSE {}, o.custom}
    [] proto = "ping" -> IF "ping" \in o.allow THEN Ports ELSE {}

MayGoOut(p, k) ==
  /\ k.peer \notin Blocked(p)
  /\ p.outbound # None /\ p.outbound.restrict =>
       k.iface = "lo" \/ k.dport \in OpenPorts(p.outbound, k.proto)

(* What earlier presets left in the kernel.  The script does not mention   *)
(* the tables that the presets do not compile to: these go on as they      *)
(* were.  In the table that it does mention it adds to sets without        *)
(* flushing them, and leaves an output chain that the presets do not have  *)
(* without rules but with its policy.                                      *)
Left(n) == n \in DOMAIN kernel \ DOMAIN CompileTables(presets)

OutputIsLeft ==
  /\ PresetsTable \in DOMAIN kernel
  /\ "output" \in DOMAIN kernel[PresetsTable].chains
  /\ ~Active(presets.outbound)

StillBlocked ==
  IF ~Active(presets.outbound) THEN {}
  ELSE UNION {kernel[PresetsTable].sets[r] \ CompileBlockSet(presets.blockSets[r]) : r \in presets.outbound.refs}

(* What happens to a first packet does not depend on the connections that  *)
(* are open: the properties about it look at one state for each kernel.    *)
Settled == connections = {}

(* The first packet of a connection passes only if the presets in force    *)
(* say so, whatever was in force before them; and it passes if they say    *)
(* so, but for what earlier presets left: the table of the filters when    *)
(* the presets compile to none, an output chain, elements of a block set.  *)
(* Splitting lists by address family, defaults and the order of rules      *)
(* change nothing.                                                         *)
FilterIsAsConfigured ==
  Settled => \A k \in NewPackets :
    /\ InputVerdict(k) = "accept" => MayComeIn(presets, k)
    /\ OutputVerdict(k) = "accept" => MayGoOut(presets, k)
    /\ MayComeIn(presets, k) /\ ~Left(PresetsTable) => InputVerdict(k) = "accept"
    /\ MayGoOut(presets, k) /\ ~OutputIsLeft /\ k.peer \notin StillBlocked => OutputVerdict(k) = "accept"

(* Packets of an open connection, whichever way they go.                   *)
Packet(c, dport, over) ==
  [peer |-> c.peer, family |-> AddressFamily[c.peer], proto |-> c.proto, dport |-> dport,
   iface |-> c.iface, state |-> "established", over |-> over]

(* A change of the presets cuts no open connection to the host: what comes *)
(* in is always accepted, even by a table that was left behind, and what   *)
(* goes out unless the peer is blocked or an output chain is left, as      *)
(* above.  So the operator's own session lives to confirm a change that    *)
(* leaves neither.                                                         *)
OpenConnectionsAreKept ==
  \A c \in connections, dport \in Ports, over \in BOOLEAN :
    c.to = "host" =>
      /\ InputVerdict(Packet(c, dport, over)) = "accept"
      /\ c.peer \notin Blocked(presets) \cup StillBlocked /\ ~OutputIsLeft =>
           OutputVerdict(Packet(c, dport, over)) = "accept"

(* The same without the exception for leftovers: "We prepend a `flush      *)
(* table` for each owned table in rs, so apply is a true replace, not a    *)
(* merge" (nft_linux.go:50-51).                                            *)
OpenConnectionsSurvive ==
  \A c \in connections, dport \in Ports, over \in BOOLEAN :
    c.to = "host" =>
      /\ InputVerdict(Packet(c, dport, over)) = "accept"
      /\ c.peer \notin Blocked(presets) => OutputVerdict(Packet(c, dport, over)) = "accept"

(* "Block CIDRs are applied first in the chain so they win over any allow" *)
(* (policy.go:118): of the host's own packets none goes to a blocked peer, *)
(* not even on an open connection.  A connection that is redirected to     *)
(* another host does not pass the output chain: its peer goes on hearing.  *)
BlockedHearNothing ==
  \A c \in connections, dport \in Ports, over \in BOOLEAN :
    c.to = "host" /\ c.peer \in Blocked(presets) => OutputVerdict(Packet(c, dport, over)) = "drop"

(* A port forward that applies to a packet hands it to the host and port   *)
(* that one such forward names, whatever was forwarded before, and no      *)
(* other packet is redirected unless the last forward and masquerade are   *)
(* gone: then the table stays as it was.                                   *)
Applies(f, k) ==
  /\ k.family = "v4"
  /\ k.iface # "lo"
  /\ k.proto = (IF f.proto = None THEN "tcp" ELSE f.proto)
  /\ k.dport = f.ext
  /\ f.from # None => k.peer \in f.from
  /\ f.iif # None => k.iface = f.iif

ForwardsReachTheirHosts ==
  Settled => \A k \in NewPackets :
    LET targets == {<< f.to, ToPort(f) >> : f \in {g \in Range(presets.forwards) : Applies(g, k)}}
    IN  IF targets # {} THEN Redirection(k) \in targets
        ELSE Redirection(k) = None \/ Left(NATTable)

(* Of several marks that apply to a packet the largest wins, in whatever   *)
(* order the file lists them; without any mark rules the table stays as it *)
(* was.                                                                    *)
Concerns(m, k) ==
  /\ m.oif # None => k.iface = m.oif
  /\ m.daddr # None => k.peer \in m.daddr
  /\ m.proto # None => (k.proto = m.proto \/ (m.proto = "icmp" /\ k.proto = "ping" /\ k.family = "v4"))
  /\ m.dport # 0 => k.dport = m.dport

LargestMarkWins ==
  Settled => \A k \in NewPackets :
    LET marks == {m.set : m \in {n \in Range(presets.marks) : Concerns(n, k)}}
    IN  \/ Mark(k) = (IF marks = {} THEN 0 ELSE CHOOSE x \in marks : \A y \in marks : y <= x)
        \/ Left(MarksTable)
=============================================================================
