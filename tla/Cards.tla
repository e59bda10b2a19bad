------------------------------- MODULE Cards -------------------------------
(***************************************************************************)
(* The dashboard's claims about traffic (internal/ui/cards.go): a card for *)
(* every service, and the ports on which Caddy listens in vain.  They are  *)
(* worked out from the presets, next to the compiler and not from what it  *)
(* compiled.                                                               *)
(***************************************************************************)
EXTENDS Traffic

(* A card that says `blocked`, and one that names ports.                   *)
Closed(key) == [key |-> key, status |-> "blocked", ports |-> {}, from |-> {}]

Inbound(key, ports, from) ==
  [key |-> key, status |-> IF from = {} THEN "open" ELSE "restricted", ports |-> ports, from |-> from]

CardPort(port, usual) == IF port = 0 THEN usual ELSE port

MailPorts(mail) == mail \cap {25, 587, 993, 995}

(* Mutant: the card of the database takes the port as it is written.       *)
ServiceCardsRawPort(p) ==
  { IF p.ssh = None THEN Closed("ssh") ELSE Inbound("ssh", {CardPort(p.ssh.port, 22)}, p.ssh.from),
    IF p.caddy THEN Inbound("web", {80, 443}, {}) ELSE Closed("web"),
    IF p.db = None THEN Closed("db") ELSE Inbound("db", {p.db.port}, p.db.from),
    IF MailPorts(p.mail) = {} THEN Closed("mail") ELSE Inbound("mail", MailPorts(p.mail), {}) }

ServiceCards(p) ==
  { IF p.ssh = None THEN Closed("ssh") ELSE Inbound("ssh", {CardPort(p.ssh.port, 22)}, p.ssh.from),
    IF p.caddy THEN Inbound("web", {80, 443}, {}) ELSE Closed("web"),
    IF p.db = None THEN Closed("db") ELSE Inbound("db", {CardPort(p.db.port, 5432)}, p.db.from),
    IF MailPorts(p.mail) = {} THEN Closed("mail") ELSE Inbound("mail", MailPorts(p.mail), {}) }

(* Mutant: a service that is allowed is missing in the list.               *)
OutboundAllowedNamesWithoutNTP(o) ==
  {n \in {"dns", "https", "http", "smtp", "ping"} : n \in o.allow}
  \cup (IF o.custom = {} THEN {} ELSE {"custom"})

(* Of the custom ports the code names only how many there are.             *)
OutboundAllowedNames(o) ==
  {n \in {"dns", "https", "http", "ntp", "smtp", "ping"} : n \in o.allow}
  \cup (IF o.custom = {} THEN {} ELSE {"custom"})

(* The label is the set of the phrases that it joins with commas.          *)
OutboundCard(o) ==
  IF o = None \/ (~o.restrict /\ o.block = {}) THEN [status |-> "open", label |-> {"anything"}]
  ELSE [status |-> "restricted",
        label  |-> IF ~o.restrict THEN {"anything except blocked"}
                   ELSE IF OutboundAllowedNames(o) = {} THEN {"nothing"} ELSE OutboundAllowedNames(o)]

(* Mutant: the ports of the mail preset are forgotten.                     *)
AllowedInboundPortsWithoutMail(p) ==
  (IF p.ssh = None THEN {} ELSE {CardPort(p.ssh.port, 22)})
  \cup (IF p.caddy THEN {80, 443} ELSE {})
  \cup (IF p.db = None THEN {} ELSE {CardPort(p.db.port, 5432)})

AllowedInboundPorts(p) ==
  (IF p.ssh = None THEN {} ELSE {CardPort(p.ssh.port, 22)})
  \cup (IF p.caddy THEN {80, 443} ELSE {})
  \cup (IF p.db = None THEN {} ELSE {CardPort(p.db.port, 5432)})
  \cup MailPorts(p.mail)

(* `bound`: the ports of the addresses that Caddy listens on, 0 for an     *)
(* address that is not understood.                                         *)
CaddyPorts(bound) == bound \ {0}

CaddyPortGaps(p, bound) == CaddyPorts(bound) \ AllowedInboundPorts(p)
-----------------------------------------------------------------------------
FromOutside == {k \in NewPackets : k.iface # "lo"}

(* "Default-deny is on.  Only the services below can reach this machine":  *)
(* what comes in is TCP to a port that an open card names, or one that a   *)
(* restricted card names from a network on its list; and everybody reaches *)
(* the ports of the open cards, the networks on the list those of the      *)
(* restricted ones, unless SSH is limited to interfaces or to a rate,      *)
(* which its card does not say.                                            *)
Promised(c, k) ==
  /\ k.proto = "tcp"
  /\ k.dport \in c.ports
  /\ c.status = "open" \/ k.peer \in UNION c.from

Unstated(c) == c.key = "ssh" /\ (presets.ssh.interfaces # {} \/ presets.ssh.limited)

CardsAreTrue ==
  Settled /\ presets.deny =>
    \A k \in FromOutside :
      /\ InputVerdict(k) = "accept" => \E c \in ServiceCards(presets) : Promised(c, k)
      /\ (\E c \in ServiceCards(presets) : Promised(c, k) /\ ~Unstated(c)) => InputVerdict(k) = "accept"

(* "The subset of Caddy-bound TCP ports that the current inbound preset    *)
(* configuration does not allow": under default-deny, the ports to which   *)
(* no packet gets through.                                                 *)
GapsAreExact ==
  Settled /\ presets.deny =>
    CaddyPortGaps(presets, Ports) =
      {port \in Ports \ {0} :
         \A k \in FromOutside : k.proto = "tcp" /\ k.dport = port => InputVerdict(k) = "drop"}

(* "Open - this machine can talk to anything" and "Restricted: dns, ...":  *)
(* the outbound card says what leaves the host.  Everything does if it is  *)
(* open; otherwise, of what does not go to a blocked network, exactly what *)
(* one of its phrases means to somebody who knows the usual ports, and the *)
(* operator's own.  Not if block sets are referred to, which the card does *)
(* not look at, or if earlier presets left an output chain.                *)
Means(phrase, k) ==
  CASE phrase \in {"anything", "anything except blocked"} -> TRUE
    [] phrase = "nothing" -> FALSE
    [] phrase = "dns"     -> k.proto \in {"tcp", "udp"} /\ k.dport = 53
    [] phrase = "https"   -> k.proto = "tcp" /\ k.dport = 443
    [] phrase = "http"    -> k.proto = "tcp" /\ k.dport = 80
    [] phrase = "ntp"     -> k.proto = "udp" /\ k.dport = 123
    [] phrase = "smtp"    -> k.proto = "tcp" /\ k.dport \in {25, 465, 587}
    [] phrase = "ping"    -> k.proto = "ping"
    [] phrase = "custom"  -> k.proto = "tcp" /\ k.dport \in presets.outbound.custom

OutboundCardIsTrue ==
  Settled /\ ~OutputIsLeft /\ (presets.outbound # None => presets.outbound.refs = {}) =>
    LET card == OutboundCard(presets.outbound)
        blocked == IF presets.outbound = None THEN {} ELSE UNION presets.outbound.block
    IN  /\ card.status = "open" => \A k \in NewPackets : OutputVerdict(k) = "accept"
        /\ \A k \in FromOutside :
             OutputVerdict(k) = "accept" <=>
               k.peer \notin blocked /\ \E phrase \in card.label : Means(phrase, k)
=============================================================================
