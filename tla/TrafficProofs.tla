--------------------------- MODULE TrafficProofs ---------------------------
(***************************************************************************)
(* What the compiled presets do to traffic, for all presets that follow    *)
(* one another, all addresses, ports and interfaces, and any number of     *)
(* connections.                                                            *)
(***************************************************************************)
EXTENDS Cards, FiniteSetTheorems, TLAPS

(* A non-empty set of naturals has a least element: the library's theorem  *)
(* on < as a set of pairs.                                                 *)
Less == {p \in Nat \X Nat : p[1] < p[2]}

LEMMA LessWellFounded == IsWellFoundedOn(Less, Nat)
<1>1. OpToRel(<, Nat) = Less
  BY Zenon DEF OpToRel, Less
<1> QED
  BY <1>1, NatLessThanWellFounded, Zenon

LEMMA LeastOf ==
  ASSUME NEW S \in SUBSET Nat, S # {}
  PROVE  \E m \in S : \A n \in S : m <= n
<1>1. PICK m \in S : \A n \in S : << n, m >> \notin Less
  BY LessWellFounded, WFMin
<1>2. ASSUME NEW n \in S PROVE m <= n
  <2>1. m \in Nat /\ n \in Nat
    OBVIOUS
  <2>2. << n, m >> \notin Less
    BY <1>1
  <2>3. ~(n < m)
    BY <2>1, <2>2 DEF Less
  <2> QED
    BY <2>1, <2>3
<1> QED
  BY <1>2

LEMMA GreatestOf ==
  ASSUME NEW b \in Nat, NEW S \in SUBSET (0..b), S # {}
  PROVE  \E m \in S : \A n \in S : n <= m
<1> DEFINE T == {u \in Nat : \E n \in S : n + u = b}
<1>1. PICK n \in S : TRUE
  OBVIOUS
<1>2. b - n \in T
  BY <1>1
<1>3. PICK t \in T : \A u \in T : t <= u
  BY <1>2, LeastOf
<1>4. PICK m \in S : m + t = b
  BY <1>3
<1>5. \A k \in S : b - k \in T
  OBVIOUS
<1> QED
  BY <1>3, <1>4, <1>5
-----------------------------------------------------------------------------
(* A list of rules that all have the same verdict.                         *)
Uniform(s, v) ==
  /\ s \in Seq({s[i] : i \in DOMAIN s})
  /\ \A i \in DOMAIN s : s[i].verdict = v

LEMMA UniformNone == ASSUME NEW v PROVE Uniform(<< >>, v)
BY DEF Uniform

LEMMA UniformOne == ASSUME NEW r, NEW v, r.verdict = v PROVE Uniform(<< r >>, v)
BY DEF Uniform

LEMMA UniformTwo ==
  ASSUME NEW q, NEW r, NEW v, q.verdict = v, r.verdict = v
  PROVE  Uniform(<< q, r >>, v)
BY DEF Uniform

LEMMA UniformBoth ==
  ASSUME NEW s, NEW t, NEW v, Uniform(s, v), Uniform(t, v)
  PROVE  Uniform(s \o t, v)
<1> DEFINE R == {s[i] : i \in DOMAIN s} \cup {t[i] : i \in DOMAIN t}
           w == s \o t
<1>1. s \in Seq(R) /\ t \in Seq(R)
  BY DEF Uniform
<1>2. w \in Seq(R) /\ DOMAIN w = 1..Len(w)
  BY <1>1
<1>3. \A i \in DOMAIN w : w[i].verdict = v
  <2> SUFFICES ASSUME NEW i \in 1..(Len(s) + Len(t)) PROVE w[i].verdict = v
    BY <1>1
  <2>1. CASE i <= Len(s)
    BY <1>1, <2>1 DEF Uniform
  <2>2. CASE i > Len(s)
    <3>1. i - Len(s) \in DOMAIN t /\ w[i] = t[i - Len(s)]
      BY <1>1, <2>2
    <3> QED
      BY <3>1 DEF Uniform
  <2> QED
    BY <1>1, <2>1, <2>2
<1> HIDE DEF w
<1>4. w \in Seq({w[i] : i \in DOMAIN w})
  BY <1>2
<1>5. Uniform(w, v)
  BY <1>3, <1>4 DEF Uniform
<1> QED
  BY <1>5 DEF w

(* A packet hits a rule of two lists in a row if it hits one of either.    *)
LEMMA HitsBoth ==
  ASSUME NEW s, NEW t, NEW u, NEW v, Uniform(s, u), Uniform(t, v), NEW k, NEW sets
  PROVE  Hits(s \o t, k, sets) # {} <=> Hits(s, k, sets) # {} \/ Hits(t, k, sets) # {}
<1> DEFINE R == {s[i] : i \in DOMAIN s} \cup {t[i] : i \in DOMAIN t}
<1>1. s \in Seq(R) /\ t \in Seq(R)
  BY DEF Uniform
<1>2. ASSUME NEW i \in Hits(s, k, sets) PROVE i \in Hits(s \o t, k, sets)
  BY <1>1 DEF Hits
<1>3. ASSUME NEW i \in Hits(t, k, sets) PROVE Len(s) + i \in Hits(s \o t, k, sets)
  BY <1>1 DEF Hits
<1>4. ASSUME NEW i \in Hits(s \o t, k, sets)
      PROVE  i \in Hits(s, k, sets) \/ i - Len(s) \in Hits(t, k, sets)
  BY <1>1 DEF Hits
<1> QED
  BY <1>2, <1>3, <1>4

LEMMA HitsFew ==
  ASSUME NEW q, NEW r, NEW k, NEW sets
  PROVE  /\ Hits(<< >>, k, sets) = {}
         /\ Hits(<< r >>, k, sets) # {} <=> Matches(r, k, sets)
         /\ Hits(<< q, r >>, k, sets) # {} <=> Matches(q, k, sets) \/ Matches(r, k, sets)
<1>1. Hits(<< >>, k, sets) = {}
  BY DEF Hits
<1>2. Matches(r, k, sets) => 1 \in Hits(<< r >>, k, sets)
  BY DEF Hits
<1>3. Matches(q, k, sets) => 1 \in Hits(<< q, r >>, k, sets)
  BY DEF Hits
<1>4. Matches(r, k, sets) => 2 \in Hits(<< q, r >>, k, sets)
  BY DEF Hits
<1>5. \A i \in Hits(<< r >>, k, sets) : Matches(r, k, sets)
  BY DEF Hits
<1>6. \A i \in Hits(<< q, r >>, k, sets) : Matches(q, k, sets) \/ Matches(r, k, sets)
  BY DEF Hits
<1> QED
  BY <1>1, <1>2, <1>3, <1>4, <1>5, <1>6

(* Under a condition.                                                      *)
LEMMA UniformWhen ==
  ASSUME NEW b \in BOOLEAN, NEW s, NEW v, Uniform(s, v), NEW k, NEW sets
  PROVE  /\ Uniform(When(b, s), v)
         /\ Hits(When(b, s), k, sets) # {} <=> b /\ Hits(s, k, sets) # {}
BY UniformNone, HitsFew DEF When

(* The seven clauses of a rule without a set.                              *)
Fits(m, k) ==
  /\ k.peer \in m.peer
  /\ k.family \in m.family
  /\ k.proto \in m.proto
  /\ k.dport \in m.dport
  /\ k.iface \in m.iface
  /\ k.state \in m.state
  /\ k.over \in m.over

LEMMA MatchesRule ==
  ASSUME NEW m, NEW v, NEW a, NEW k, NEW sets
  PROVE  Matches(Rule(m, v, a), k, sets) <=> Fits(m, k)
<1>1. DOMAIN AnyPacket = {"peer", "family", "proto", "dport", "iface", "state", "over"}
  BY DEF AnyPacket
<1>2. Rule(m, v, a).match = m /\ Rule(m, v, a).peerSet = None
  BY DEF Rule
<1> HIDE DEF Rule
<1> QED
  BY <1>1, <1>2 DEF Matches, Fits
-----------------------------------------------------------------------------
(* The first rule that a packet hits decides.                              *)
LEMMA UniformHit ==
  ASSUME NEW s, NEW v, Uniform(s, v), NEW k, NEW sets, Hits(s, k, sets) # {}
  PROVE  s[Earliest(Hits(s, k, sets))].verdict = v
<1> DEFINE hits == Hits(s, k, sets)
<1>1. hits \subseteq DOMAIN s /\ hits \in SUBSET Nat
  BY DEF Hits, Uniform
<1>2. Earliest(hits) \in hits
  BY <1>1, LeastOf DEF Earliest
<1> QED
  BY <1>1, <1>2 DEF Uniform

InARow(u, s, t) == u = s \o t

LEMMA EarliestHit ==
  ASSUME NEW s, NEW v, Uniform(s, v), NEW t, NEW w, Uniform(t, w), NEW u, InARow(u, s, t),
         NEW k, NEW sets
  PROVE  /\ Hits(s, k, sets) # {} => u[Earliest(Hits(u, k, sets))].verdict = v
         /\ Hits(s, k, sets) = {} /\ Hits(u, k, sets) # {}
              => u[Earliest(Hits(u, k, sets))].verdict = w
<1> DEFINE R == {s[i] : i \in DOMAIN s} \cup {t[i] : i \in DOMAIN t}
           hits == Hits(u, k, sets)
           e == Earliest(hits)
<1>1. s \in Seq(R) /\ t \in Seq(R) /\ u = s \o t
  BY DEF Uniform, InARow
<1>2. hits \subseteq DOMAIN u /\ DOMAIN u = 1..(Len(s) + Len(t)) /\ hits \in SUBSET Nat
  BY <1>1 DEF Hits
<1>3. hits # {} => e \in hits /\ \A i \in hits : e <= i
  BY <1>2, LeastOf DEF Earliest
<1>4. ASSUME Hits(s, k, sets) # {}
      PROVE  u[e].verdict = v
  <2>1. PICK i \in DOMAIN s : i \in Hits(s, k, sets)
    BY <1>4 DEF Hits
  <2>2. i \in hits /\ i <= Len(s) /\ i \in Nat
    BY <1>1, <2>1 DEF Hits
  <2> HIDE DEF hits, e
  <2>3. e \in 1..Len(s)
    <3>1. e \in 1..(Len(s) + Len(t)) /\ e <= i
      BY <1>2, <1>3, <2>2
    <3>2. Len(s) \in Nat /\ Len(t) \in Nat
      BY <1>1
    <3> QED
      BY <2>2, <3>1, <3>2
  <2>4. u[e] = s[e] /\ e \in DOMAIN s
    BY <1>1, <2>3
  <2> QED
    BY <2>4 DEF Uniform
<1>5. ASSUME Hits(s, k, sets) = {}, hits # {}
      PROVE  u[e].verdict = w
  <2>1. e \in hits
    BY <1>3, <1>5
  <2>2. e \in 1..(Len(s) + Len(t))
    BY <1>2, <2>1
  <2>3. ~(e <= Len(s))
    <3> HIDE DEF e
    <3>1. e <= Len(s) => e \in Hits(s, k, sets)
      BY <1>1, <2>1, <2>2 DEF Hits
    <3> QED
      BY <3>1, <1>5
  <2> HIDE DEF e
  <2>4. u[e] = t[e - Len(s)] /\ e - Len(s) \in DOMAIN t
    BY <1>1, <2>2, <2>3
  <2> QED
    BY <2>4 DEF Uniform
<1> QED
  BY <1>4, <1>5
-----------------------------------------------------------------------------
(* Splitting a list of networks by family loses none of them.              *)
LEMMA OfFamilies ==
  ASSUME NEW cidrs \in SUBSET Networks
  PROVE  UNION cidrs = (UNION OfFamily(cidrs, "v4")) \cup (UNION OfFamily(cidrs, "v6"))
<1>1. ASSUME NEW c \in cidrs PROVE c \in OfFamily(cidrs, "v4") \cup OfFamily(cidrs, "v6")
  BY DEF Networks, OfFamily, Families
<1> QED
  BY <1>1 DEF OfFamily

(* The clauses of `base`, and a peer on the list.                          *)
From(base, cidrs) == [base EXCEPT !.peer = UNION cidrs]

LEMMA PerFamilyHits ==
  ASSUME NEW cidrs \in SUBSET Networks, NEW base, DOMAIN base = DOMAIN AnyPacket, NEW v,
         NEW k, NEW sets
  PROVE  /\ Uniform(PerFamily(cidrs, base, v), v)
         /\ Hits(PerFamily(cidrs, base, v), k, sets) # {} <=> Fits(From(base, cidrs), k)
<1> DEFINE rule(f)  == Rule(From(base, OfFamily(cidrs, f)), v, None)
           rules(f) == When(OfFamily(cidrs, f) # {}, << rule(f) >>)
<1>1. ASSUME NEW f
      PROVE  /\ Uniform(rules(f), v)
             /\ Hits(rules(f), k, sets) # {} <=> Fits(From(base, OfFamily(cidrs, f)), k)
  <2>1. rule(f).verdict = v
    BY DEF Rule
  <2> HIDE DEF rule
  <2>2. Uniform(<< rule(f) >>, v)
    BY <2>1, UniformOne
  <2>3. Hits(<< rule(f) >>, k, sets) # {} <=> Matches(rule(f), k, sets)
    BY HitsFew
  <2>4. Matches(rule(f), k, sets) <=> Fits(From(base, OfFamily(cidrs, f)), k)
    BY MatchesRule DEF rule
  <2>5. Fits(From(base, OfFamily(cidrs, f)), k) => OfFamily(cidrs, f) # {}
    BY DEF Fits, From, AnyPacket
  <2>6. /\ Uniform(rules(f), v)
        /\ Hits(rules(f), k, sets) # {}
             <=> OfFamily(cidrs, f) # {} /\ Hits(<< rule(f) >>, k, sets) # {}
    <3>1. CASE OfFamily(cidrs, f) # {}
      BY <2>2, <3>1 DEF When
    <3>2. CASE OfFamily(cidrs, f) = {}
      BY <3>2, UniformNone, HitsFew DEF When
    <3> QED
      BY <3>1, <3>2
  <2> QED
    BY <2>3, <2>4, <2>5, <2>6
<1>2. PerFamily(cidrs, base, v) = rules("v4") \o rules("v6")
  BY DEF PerFamily, From
<1> HIDE DEF rules
<1>3. Fits(From(base, cidrs), k)
        <=> Fits(From(base, OfFamily(cidrs, "v4")), k) \/ Fits(From(base, OfFamily(cidrs, "v6")), k)
  BY OfFamilies DEF Fits, From, AnyPacket
<1> QED
  BY <1>1, <1>2, <1>3, UniformBoth, HitsBoth
-----------------------------------------------------------------------------
(* What each part of the input chain lets in.                              *)
LEMMA NewPacketType ==
  ASSUME NEW k \in NewPackets
  PROVE  /\ k.peer \in Addresses /\ k.family \in Families /\ k.proto \in Protocols
         /\ k.dport \in Ports /\ k.iface \in Interfaces /\ k.state = "new" /\ k.over \in BOOLEAN
         /\ k.family = AddressFamily[k.peer] /\ (k.proto = "ping" <=> k.dport = 0)
BY DEF NewPackets, Packets

LEMMA TcpFits ==
  ASSUME NEW ports, NEW k
  PROVE  /\ DOMAIN Tcp(ports) = DOMAIN AnyPacket
         /\ DOMAIN Udp(ports) = DOMAIN AnyPacket
         /\ k \in NewPackets => /\ Fits(Tcp(ports), k) <=> k.proto = "tcp" /\ k.dport \in ports
                                /\ Fits(Udp(ports), k) <=> k.proto = "udp" /\ k.dport \in ports
BY NewPacketType DEF Tcp, Udp, AnyPacket, Fits

LEMMA AcceptHits ==
  ASSUME NEW m, NEW n, NEW k, NEW sets
  PROVE  /\ Uniform(<< Accept(m) >>, "accept")
         /\ Hits(<< Accept(m) >>, k, sets) # {} <=> Fits(m, k)
         /\ Uniform(<< Accept(m), Accept(n) >>, "accept")
         /\ Hits(<< Accept(m), Accept(n) >>, k, sets) # {} <=> Fits(m, k) \/ Fits(n, k)
<1>1. Accept(m).verdict = "accept" /\ Accept(n).verdict = "accept"
  BY DEF Accept, Rule
<1>2. Matches(Accept(m), k, sets) <=> Fits(m, k)
  BY MatchesRule DEF Accept
<1>3. Matches(Accept(n), k, sets) <=> Fits(n, k)
  BY MatchesRule DEF Accept
<1> QED
  BY <1>1, <1>2, <1>3, UniformOne, UniformTwo, HitsFew

LEMMA SshHits ==
  ASSUME NEW s, s.from \in SUBSET Networks, NEW k, NEW sets
  PROVE  /\ Uniform(SshRules(s), "accept")
         /\ k \in NewPackets => (Hits(SshRules(s), k, sets) # {} <=> SshAdmits(s, k))
<1> DEFINE open == [Tcp({SshPort(s)}) EXCEPT !.iface = IF s.interfaces = {} THEN Interfaces ELSE s.interfaces]
           base == IF s.limited THEN [open EXCEPT !.state = {"new"}, !.over = {FALSE}] ELSE open
           fits == /\ k.proto = "tcp"
                   /\ k.dport = SshPort(s)
                   /\ s.interfaces # {} => k.iface \in s.interfaces
                   /\ s.limited => ~k.over
<1>1. DOMAIN base = DOMAIN AnyPacket /\ base.peer = Addresses /\ base.family = Families
  BY DEF Tcp, AnyPacket
<1>2. k \in NewPackets => (Fits(base, k) <=> fits)
  <2> SUFFICES ASSUME k \in NewPackets PROVE Fits(base, k) <=> fits
    OBVIOUS
  <2>1. k.over \in {FALSE} <=> ~k.over
    BY NewPacketType, Zenon
  <2>2. Fits(open, k) <=> /\ k.proto = "tcp"
                          /\ k.dport = SshPort(s)
                          /\ s.interfaces # {} => k.iface \in s.interfaces
    BY NewPacketType DEF Tcp, AnyPacket, Fits
  <2>3. Fits([open EXCEPT !.state = {"new"}, !.over = {FALSE}], k)
          <=> Fits(open, k) /\ k.over \in {FALSE}
    BY NewPacketType, ZenonT(30) DEF Tcp, AnyPacket, Fits
  <2>4. CASE s.limited
    <3>1. base = [open EXCEPT !.state = {"new"}, !.over = {FALSE}]
      BY <2>4
    <3> HIDE DEF open, base
    <3> QED
      BY <2>1, <2>2, <2>3, <2>4, <3>1
  <2>5. CASE ~s.limited
    <3>1. base = open
      BY <2>5
    <3> HIDE DEF open, base
    <3> QED
      BY <2>2, <2>5, <3>1
  <2> QED
    BY <2>4, <2>5
<1>3. SshRules(s) = IF s.from # {} THEN PerFamily(s.from, base, "accept")
                    ELSE IF s.limited THEN << Accept([base EXCEPT !.family = {"v4"}]),
                                              Accept([base EXCEPT !.family = {"v6"}]) >>
                    ELSE << Accept(base) >>
  BY Zenon DEF SshRules
<1> HIDE DEF base
<1>4. CASE s.from # {}
  <2>1. SshRules(s) = PerFamily(s.from, base, "accept")
    BY <1>3, <1>4
  <2>2. k \in NewPackets => (Fits(From(base, s.from), k) <=> Fits(base, k) /\ k.peer \in UNION s.from)
    BY <1>1, NewPacketType DEF Fits, From, AnyPacket
  <2>3. k \in NewPackets => (Fits(From(base, s.from), k) <=> SshAdmits(s, k))
    BY <1>2, <1>4, <2>2 DEF SshAdmits
  <2> QED
    BY <1>1, <2>1, <2>3, PerFamilyHits
<1>5. CASE s.from = {} /\ s.limited
  <2> DEFINE m == [base EXCEPT !.family = {"v4"}]
             n == [base EXCEPT !.family = {"v6"}]
  <2>1. SshRules(s) = << Accept(m), Accept(n) >>
    BY <1>3, <1>5
  <2>2. k \in NewPackets => (Fits(m, k) \/ Fits(n, k) <=> Fits(base, k))
    BY <1>1, NewPacketType DEF Fits, AnyPacket, Families
  <2>3. k \in NewPackets => (Fits(base, k) <=> SshAdmits(s, k))
    BY <1>2, <1>5 DEF SshAdmits
  <2> HIDE DEF m, n
  <2> QED
    BY <2>1, <2>2, <2>3, AcceptHits
<1>6. CASE s.from = {} /\ ~s.limited
  <2>1. SshRules(s) = << Accept(base) >>
    BY <1>3, <1>6
  <2>2. k \in NewPackets => (Fits(base, k) <=> SshAdmits(s, k))
    BY <1>2, <1>6 DEF SshAdmits
  <2> QED
    BY <2>1, <2>2, AcceptHits
<1> QED
  BY <1>4, <1>5, <1>6

LEMMA DbHits ==
  ASSUME NEW d, d.from \in SUBSET Networks, NEW k, NEW sets
  PROVE  /\ Uniform(DbRules(d), "accept")
         /\ k \in NewPackets => (Hits(DbRules(d), k, sets) # {} <=> DbAdmits(d, k))
<1> DEFINE base == Tcp({DbPort(d)})
<1>1. /\ DOMAIN base = DOMAIN AnyPacket
      /\ k \in NewPackets => (Fits(base, k) <=> k.proto = "tcp" /\ k.dport = DbPort(d))
  BY TcpFits
<1>2. base.peer = Addresses
  BY DEF Tcp, AnyPacket
<1> HIDE DEF base
<1>3. CASE d.from = {}
  <2>1. DbRules(d) = << Accept(base) >>
    BY <1>3 DEF DbRules, base
  <2>2. k \in NewPackets => (Fits(base, k) <=> DbAdmits(d, k))
    BY <1>1, <1>3 DEF DbAdmits
  <2> QED
    BY <2>1, <2>2, AcceptHits
<1>4. CASE d.from # {}
  <2>1. DbRules(d) = PerFamily(d.from, base, "accept")
    BY <1>4 DEF DbRules, base
  <2>2. k \in NewPackets => (Fits(From(base, d.from), k) <=> Fits(base, k) /\ k.peer \in UNION d.from)
    BY <1>1, <1>2, NewPacketType DEF Fits, From, AnyPacket
  <2>3. k \in NewPackets => (Fits(From(base, d.from), k) <=> DbAdmits(d, k))
    BY <1>1, <1>4, <2>2 DEF DbAdmits
  <2> QED
    BY <1>1, <2>1, <2>3, PerFamilyHits
<1> QED
  BY <1>3, <1>4

(* What a rule of the input chain lets in of what is new.                  *)
Admitted(p, k) ==
  \/ p.deny /\ k.iface = "lo"
  \/ p.ssh # None /\ SshAdmits(p.ssh, k)
  \/ p.db # None /\ DbAdmits(p.db, k)
  \/ k.proto = "tcp" /\ k.dport \in p.mail \cup (IF p.caddy THEN {80, 443} ELSE {})

(* The whole input chain: under default-deny also what belongs to an open  *)
(* connection.                                                             *)
LEMMA InputHits ==
  ASSUME NEW p, IsPresets(p), NEW k, NEW sets
  PROVE  LET hit == Hits(InputChain(p).rules, k, sets) # {}
         IN  /\ Uniform(InputChain(p).rules, "accept")
             /\ k \in NewPackets => (hit <=> Admitted(p, k))
             /\ p.deny /\ Fits(AnyPacket, k) /\ k.state = "established" => hit
<1> DEFINE A == When(p.deny, << Established, Loopback >>)
           B == IF p.ssh = None THEN << >> ELSE SshRules(p.ssh)
           C == When(p.caddy, << Accept(Tcp({80, 443})) >>)
           D == IF p.db = None THEN << >> ELSE DbRules(p.db)
           E == When(p.mail # {}, MailRules(p.mail))
           caught(s) == Hits(s, k, sets) # {}
<1>1. InputChain(p).rules = A \o B \o C \o D \o E
  BY DEF InputChain
<1>2. /\ Uniform(A, "accept")
      /\ k \in NewPackets => (caught(A) <=> p.deny /\ k.iface = "lo")
      /\ p.deny /\ Fits(AnyPacket, k) /\ k.state = "established" => caught(A)
  <2> DEFINE m == [AnyPacket EXCEPT !.state = {"established"}]
             n == [AnyPacket EXCEPT !.iface = {"lo"}]
  <2>1. k \in NewPackets => ~Fits(m, k) /\ (Fits(n, k) <=> k.iface = "lo")
    BY NewPacketType DEF Fits, AnyPacket
  <2>2. Fits(AnyPacket, k) /\ k.state = "established" => Fits(m, k)
    BY DEF Fits, AnyPacket
  <2>3. Established = Accept(m) /\ Loopback = Accept(n)
    BY DEF Established, Loopback
  <2> HIDE DEF m, n
  <2>4. CASE p.deny
    <3>1. A = << Accept(m), Accept(n) >>
      BY <2>3, <2>4 DEF When
    <3> HIDE DEF A
    <3> QED
      BY <2>1, <2>2, <2>4, <3>1, AcceptHits
  <2>5. CASE ~p.deny
    <3>1. A = << >>
      BY <2>5 DEF When
    <3> HIDE DEF A
    <3> QED
      BY <2>5, <3>1, UniformNone, HitsFew
  <2> QED
    BY <2>4, <2>5
<1>3. /\ Uniform(B, "accept")
      /\ k \in NewPackets => (caught(B) <=> p.ssh # None /\ SshAdmits(p.ssh, k))
  <2>1. CASE p.ssh = None
    <3>1. B = << >>
      BY <2>1
    <3> HIDE DEF B
    <3> QED
      BY <2>1, <3>1, UniformNone, HitsFew
  <2>2. CASE p.ssh # None
    <3>1. B = SshRules(p.ssh) /\ p.ssh.from \in SUBSET Networks
      BY <2>2 DEF IsPresets
    <3> HIDE DEF B
    <3> QED
      BY <2>2, <3>1, SshHits
  <2> HIDE DEF B
  <2> QED
    BY <2>1, <2>2
<1>4. /\ Uniform(C, "accept")
      /\ k \in NewPackets => (caught(C) <=> p.caddy /\ k.proto = "tcp" /\ k.dport \in {80, 443})
  <2>1. CASE p.caddy
    <3>1. C = << Accept(Tcp({80, 443})) >>
      BY <2>1 DEF When
    <3> DEFINE m == Tcp({80, 443})
    <3>2. k \in NewPackets => (Fits(m, k) <=> k.proto = "tcp" /\ k.dport \in {80, 443})
      BY TcpFits
    <3>3. C = << Accept(m) >>
      BY <3>1
    <3> HIDE DEF C, m
    <3>4. Uniform(C, "accept") /\ (caught(C) <=> Fits(m, k))
      BY <3>3, AcceptHits
    <3> HIDE DEF caught
    <3> QED
      BY <2>1, <3>2, <3>4, Zenon
  <2>2. CASE ~p.caddy
    <3>1. C = << >>
      BY <2>2 DEF When
    <3> HIDE DEF C
    <3> QED
      BY <2>2, <3>1, UniformNone, HitsFew
  <2> HIDE DEF C
  <2> QED
    BY <2>1, <2>2, Zenon
<1>5. /\ Uniform(D, "accept")
      /\ k \in NewPackets => (caught(D) <=> p.db # None /\ DbAdmits(p.db, k))
  <2>1. CASE p.db = None
    <3>1. D = << >>
      BY <2>1
    <3> HIDE DEF D
    <3> QED
      BY <2>1, <3>1, UniformNone, HitsFew
  <2>2. CASE p.db # None
    <3>1. D = DbRules(p.db) /\ p.db.from \in SUBSET Networks
      BY <2>2 DEF IsPresets
    <3> HIDE DEF D
    <3> QED
      BY <2>2, <3>1, DbHits
  <2> HIDE DEF D
  <2> QED
    BY <2>1, <2>2
<1>6. /\ Uniform(E, "accept")
      /\ k \in NewPackets => (caught(E) <=> k.proto = "tcp" /\ k.dport \in p.mail)
  <2>1. CASE p.mail # {}
    <3>1. E = << Accept(Tcp(p.mail)) >>
      BY <2>1 DEF When, MailRules
    <3> HIDE DEF E
    <3> QED
      BY <3>1, AcceptHits, TcpFits
  <2>2. CASE p.mail = {}
    <3>1. E = << >>
      BY <2>2 DEF When
    <3> HIDE DEF E
    <3> QED
      BY <2>2, <3>1, UniformNone, HitsFew
  <2> QED
    BY <2>1, <2>2
<1> HIDE DEF A, B, C, D, E
<1>7. Uniform(A \o B, "accept") /\ (caught(A \o B) <=> caught(A) \/ caught(B))
  BY <1>2, <1>3, UniformBoth, HitsBoth
<1>8. Uniform(A \o B \o C, "accept") /\ (caught(A \o B \o C) <=> caught(A \o B) \/ caught(C))
  BY <1>4, <1>7, UniformBoth, HitsBoth
<1>9. /\ Uniform(A \o B \o C \o D, "accept")
      /\ caught(A \o B \o C \o D) <=> caught(A \o B \o C) \/ caught(D)
  BY <1>5, <1>8, UniformBoth, HitsBoth
<1>10. /\ Uniform(A \o B \o C \o D \o E, "accept")
       /\ caught(A \o B \o C \o D \o E) <=> caught(A \o B \o C \o D) \/ caught(E)
  BY <1>6, <1>9, UniformBoth, HitsBoth
<1>11. k.dport \in p.mail \cup (IF p.caddy THEN {80, 443} ELSE {})
         <=> k.dport \in p.mail \/ (p.caddy /\ k.dport \in {80, 443})
  OBVIOUS
<1> HIDE DEF caught
<1> DEFINE hits == Hits(InputChain(p).rules, k, sets)
<1>12. hits # {} <=> caught(A) \/ caught(B) \/ caught(C) \/ caught(D) \/ caught(E)
  BY <1>1, <1>7, <1>8, <1>9, <1>10 DEF caught
<1>13. Uniform(InputChain(p).rules, "accept")
  BY <1>1, <1>10
<1>14. p.deny /\ Fits(AnyPacket, k) /\ k.state = "established" => hits # {}
  BY <1>2, <1>12
<1>15. ASSUME k \in NewPackets
       PROVE  hits # {} <=> Admitted(p, k)
  <2>1. /\ caught(A) <=> p.deny /\ k.iface = "lo"
        /\ caught(B) <=> p.ssh # None /\ SshAdmits(p.ssh, k)
        /\ caught(D) <=> p.db # None /\ DbAdmits(p.db, k)
        /\ caught(E) <=> k.proto = "tcp" /\ k.dport \in p.mail
    BY <1>2, <1>3, <1>5, <1>6, <1>15, Zenon
  <2>2. caught(C) <=> k.proto = "tcp" /\ p.caddy /\ k.dport \in {80, 443}
    BY <1>4, <1>15, ZenonT(30)
  <2> HIDE DEF hits
  <2> QED
    BY <2>1, <2>2, <1>11, <1>12, ZenonT(30) DEF Admitted
<1> QED
  BY <1>13, <1>14, <1>15, Zenon
-----------------------------------------------------------------------------
(* The sequence of a finite set has its elements and no others.            *)
LEMMA SetToSeqIsOnto ==
  ASSUME NEW S, IsFiniteSet(S)
  PROVE  /\ SetToSeq(S) \in [1..Cardinality(S) -> S]
         /\ Cardinality(S) \in Nat
         /\ \A x \in S : \E i \in 1..Cardinality(S) : SetToSeq(S)[i] = x
<1> DEFINE n == Cardinality(S)
           f == SetToSeq(S)
<1>1. n \in Nat /\ ExistsBijection(1..n, S)
  BY FS_CardinalityType
<1>2. PICK b : b \in Bijection(1..n, S)
  BY <1>1 DEF ExistsBijection
<1>3. b \in [1..n -> S] /\ IsInjective(b)
  BY <1>2 DEF Bijection, Injection
<1>4. f \in [1..n -> S] /\ IsInjective(f)
  BY <1>3 DEF SetToSeq
<1>5. f \in Injection(1..n, S)
  BY <1>4 DEF Injection
<1>6. Cardinality(1..n) = n
  BY <1>1, FS_Interval
<1> HIDE DEF f
<1>7. f \in Surjection(1..n, S)
  BY <1>5, <1>6, FS_Injection
<1> QED
  BY <1>1, <1>4, <1>7 DEF Surjection, f

(* What is blocked: the networks on the list, and what is in the sets that *)
(* are referred to.                                                        *)
LEMMA BlockHits ==
  ASSUME NEW o, o.block \in SUBSET Networks, IsFiniteSet(o.refs), None \notin o.refs,
         NEW blockSets, NEW k, NEW sets
  PROVE  /\ Uniform(BlockRules(o, blockSets), "drop")
         /\ Fits(AnyPacket, k) =>
              (Hits(BlockRules(o, blockSets), k, sets) # {}
                 <=> \/ k.peer \in UNION o.block
                     \/ \E r \in o.refs : k.family = blockSets[r].family /\ k.peer \in sets[r])
<1> DEFINE refs == SetToSeq(o.refs)
           rule(r) == [Drop([AnyPacket EXCEPT !.family = {blockSets[r].family}]) EXCEPT !.peerSet = r]
           byRef == [i \in DOMAIN refs |-> rule(refs[i])]
           byNet == PerFamily(o.block, AnyPacket, "drop")
           n == Cardinality(o.refs)
<1>1. BlockRules(o, blockSets) = byNet \o byRef
  BY DEF BlockRules
<1>2. /\ Uniform(byNet, "drop")
      /\ Fits(AnyPacket, k) => (Hits(byNet, k, sets) # {} <=> k.peer \in UNION o.block)
  <2>1. Fits(AnyPacket, k) => (Fits(From(AnyPacket, o.block), k) <=> k.peer \in UNION o.block)
    BY DEF Fits, From, AnyPacket
  <2> QED
    BY <2>1, PerFamilyHits
<1>3. /\ refs \in [1..n -> o.refs] /\ n \in Nat
      /\ \A r \in o.refs : \E i \in 1..n : refs[i] = r
  BY SetToSeqIsOnto
<1>4. ASSUME NEW r \in o.refs
      PROVE  /\ rule(r).verdict = "drop"
             /\ Fits(AnyPacket, k) =>
                  (Matches(rule(r), k, sets) <=> k.family = blockSets[r].family /\ k.peer \in sets[r])
  <2> DEFINE m == [AnyPacket EXCEPT !.family = {blockSets[r].family}]
  <2>1. rule(r) = [match |-> m, peerSet |-> r, verdict |-> "drop", arg |-> None]
    BY DEF Drop, Rule
  <2>2. Fits(AnyPacket, k) =>
          ((\A field \in DOMAIN AnyPacket : k[field] \in m[field]) <=> k.family = blockSets[r].family)
    BY DEF Fits, AnyPacket
  <2>3. r # None
    OBVIOUS
  <2> HIDE DEF m, rule
  <2> QED
    BY <2>1, <2>2, <2>3 DEF Matches
<1> HIDE DEF refs, rule, n
<1>5. Uniform(byRef, "drop")
  <2>1. byRef = [i \in 1..n |-> rule(refs[i])]
    BY <1>3
  <2>2. byRef \in Seq({byRef[i] : i \in DOMAIN byRef})
    BY <1>3, <2>1
  <2>3. \A i \in DOMAIN byRef : byRef[i].verdict = "drop"
    BY <1>3, <1>4, <2>1
  <2> QED
    BY <2>2, <2>3 DEF Uniform
<1>6. Fits(AnyPacket, k) =>
        (Hits(byRef, k, sets) # {}
           <=> \E r \in o.refs : k.family = blockSets[r].family /\ k.peer \in sets[r])
  <2>1. Hits(byRef, k, sets) # {} <=> \E i \in 1..n : Matches(rule(refs[i]), k, sets)
    BY <1>3 DEF Hits
  <2>2. (\E i \in 1..n : Matches(rule(refs[i]), k, sets)) <=> \E r \in o.refs : Matches(rule(r), k, sets)
    BY <1>3
  <2> HIDE DEF byRef
  <2> QED
    BY <2>1, <2>2, <1>4
<1> HIDE DEF byRef, byNet
<1> QED
  BY <1>1, <1>2, <1>5, <1>6, UniformBoth, HitsBoth
-----------------------------------------------------------------------------
(* A service that is allowed or not.                                       *)
Service(x, allow, rules) == When(x \in allow, rules)

LEMMA ServiceHits ==
  ASSUME NEW x, NEW allow, NEW m, NEW n, NEW k, NEW sets
  PROVE  /\ Uniform(Service(x, allow, << Accept(m) >>), "accept")
         /\ Hits(Service(x, allow, << Accept(m) >>), k, sets) # {} <=> x \in allow /\ Fits(m, k)
         /\ Uniform(Service(x, allow, << Accept(m), Accept(n) >>), "accept")
         /\ Hits(Service(x, allow, << Accept(m), Accept(n) >>), k, sets) # {}
              <=> x \in allow /\ (Fits(m, k) \/ Fits(n, k))
<1>1. CASE x \in allow
  BY <1>1, AcceptHits DEF Service, When
<1>2. CASE x \notin allow
  BY <1>2, UniformNone, HitsFew DEF Service, When
<1> QED
  BY <1>1, <1>2

LEMMA OpenPortsOf ==
  ASSUME NEW o, NEW k \in NewPackets
  PROVE  k.dport \in OpenPorts(o, k.proto)
           <=> \/ "dns" \in o.allow /\ k.proto \in {"udp", "tcp"} /\ k.dport = 53
               \/ "http" \in o.allow /\ k.proto = "tcp" /\ k.dport = 80
               \/ "https" \in o.allow /\ k.proto = "tcp" /\ k.dport = 443
               \/ "ntp" \in o.allow /\ k.proto = "udp" /\ k.dport = 123
               \/ "smtp" \in o.allow /\ k.proto = "tcp" /\ k.dport \in {25, 465, 587}
               \/ "ping" \in o.allow /\ k.proto = "ping"
               \/ k.proto = "tcp" /\ k.dport \in o.custom
<1>1. CASE k.proto = "tcp"
  BY <1>1 DEF OpenPorts
<1>2. CASE k.proto = "udp"
  BY <1>2 DEF OpenPorts
<1>3. CASE k.proto = "ping"
  BY <1>3, NewPacketType DEF OpenPorts
<1> QED
  BY <1>1, <1>2, <1>3, NewPacketType DEF Protocols

LEMMA AllowHits ==
  ASSUME NEW o, NEW k, NEW sets
  PROVE  LET hit == Hits(AllowRules(o), k, sets) # {}
         IN  /\ Uniform(AllowRules(o), "accept")
             /\ k \in NewPackets => (hit <=> k.iface = "lo" \/ k.dport \in OpenPorts(o, k.proto))
             /\ Fits(AnyPacket, k) /\ k.state = "established" => hit
<1> DEFINE lo    == [AnyPacket EXCEPT !.iface = {"lo"}]
           est   == [AnyPacket EXCEPT !.state = {"established"}]
           ping4 == [AnyPacket EXCEPT !.proto = {"ping"}, !.family = {"v4"}]
           ping6 == [AnyPacket EXCEPT !.proto = {"ping"}, !.family = {"v6"}]
           udp53 == Udp({53})
           tcp53 == Tcp({53})
           tcp80 == Tcp({80})
           tcp443 == Tcp({443})
           udp123 == Udp({123})
           mail  == Tcp({25, 465, 587})
           own   == Tcp(o.custom)
           A == << Accept(lo), Accept(est) >>
           B == Service("dns", o.allow, << Accept(udp53), Accept(tcp53) >>)
           C == Service("http", o.allow, << Accept(tcp80) >>)
           D == Service("https", o.allow, << Accept(tcp443) >>)
           E == Service("ntp", o.allow, << Accept(udp123) >>)
           F == Service("smtp", o.allow, << Accept(mail) >>)
           G == Service("ping", o.allow, << Accept(ping4), Accept(ping6) >>)
           H == When(o.custom # {}, << Accept(own) >>)
           caught(s) == Hits(s, k, sets) # {}
<1>1. AllowRules(o) = A \o B \o C \o D \o E \o F \o G \o H
  BY DEF AllowRules, Loopback, Established, Service
<1>2. k \in NewPackets =>
        /\ Fits(lo, k) \/ Fits(est, k) <=> k.iface = "lo"
        /\ Fits(udp53, k) \/ Fits(tcp53, k) <=> k.proto \in {"udp", "tcp"} /\ k.dport = 53
        /\ Fits(tcp80, k) <=> k.proto = "tcp" /\ k.dport = 80
        /\ Fits(tcp443, k) <=> k.proto = "tcp" /\ k.dport = 443
        /\ Fits(udp123, k) <=> k.proto = "udp" /\ k.dport = 123
        /\ Fits(mail, k) <=> k.proto = "tcp" /\ k.dport \in {25, 465, 587}
        /\ Fits(ping4, k) \/ Fits(ping6, k) <=> k.proto = "ping"
        /\ Fits(own, k) <=> k.proto = "tcp" /\ k.dport \in o.custom
  <2> SUFFICES ASSUME k \in NewPackets
               PROVE  /\ Fits(lo, k) \/ Fits(est, k) <=> k.iface = "lo"
                      /\ Fits(udp53, k) \/ Fits(tcp53, k) <=> k.proto \in {"udp", "tcp"} /\ k.dport = 53
                      /\ Fits(tcp80, k) <=> k.proto = "tcp" /\ k.dport = 80
                      /\ Fits(tcp443, k) <=> k.proto = "tcp" /\ k.dport = 443
                      /\ Fits(udp123, k) <=> k.proto = "udp" /\ k.dport = 123
                      /\ Fits(mail, k) <=> k.proto = "tcp" /\ k.dport \in {25, 465, 587}
                      /\ Fits(ping4, k) \/ Fits(ping6, k) <=> k.proto = "ping"
                      /\ Fits(own, k) <=> k.proto = "tcp" /\ k.dport \in o.custom
    OBVIOUS
  <2>1. Fits(lo, k) \/ Fits(est, k) <=> k.iface = "lo"
    BY NewPacketType DEF Fits, AnyPacket
  <2>2. Fits(ping4, k) \/ Fits(ping6, k) <=> k.proto = "ping"
    BY NewPacketType DEF Fits, AnyPacket, Families
  <2>3. /\ Fits(udp53, k) \/ Fits(tcp53, k) <=> k.proto \in {"udp", "tcp"} /\ k.dport = 53
        /\ Fits(tcp80, k) <=> k.proto = "tcp" /\ k.dport = 80
        /\ Fits(tcp443, k) <=> k.proto = "tcp" /\ k.dport = 443
    BY TcpFits
  <2>4. /\ Fits(udp123, k) <=> k.proto = "udp" /\ k.dport = 123
        /\ Fits(mail, k) <=> k.proto = "tcp" /\ k.dport \in {25, 465, 587}
        /\ Fits(own, k) <=> k.proto = "tcp" /\ k.dport \in o.custom
    BY TcpFits
  <2> QED
    BY <2>1, <2>2, <2>3, <2>4
<1>3. Fits(AnyPacket, k) /\ k.state = "established" => Fits(est, k)
  BY DEF Fits, AnyPacket
<1> HIDE DEF lo, est, ping4, ping6, udp53, tcp53, tcp80, tcp443, udp123, mail, own
<1>4. Uniform(A, "accept") /\ (caught(A) <=> Fits(lo, k) \/ Fits(est, k))
  BY AcceptHits
<1>5. Uniform(B, "accept") /\ (caught(B) <=> "dns" \in o.allow /\ (Fits(udp53, k) \/ Fits(tcp53, k)))
  BY ServiceHits
<1>6. Uniform(C, "accept") /\ (caught(C) <=> "http" \in o.allow /\ Fits(tcp80, k))
  BY ServiceHits
<1>7. Uniform(D, "accept") /\ (caught(D) <=> "https" \in o.allow /\ Fits(tcp443, k))
  BY ServiceHits
<1>8. Uniform(E, "accept") /\ (caught(E) <=> "ntp" \in o.allow /\ Fits(udp123, k))
  BY ServiceHits
<1>9. Uniform(F, "accept") /\ (caught(F) <=> "smtp" \in o.allow /\ Fits(mail, k))
  BY ServiceHits
<1>10. Uniform(G, "accept") /\ (caught(G) <=> "ping" \in o.allow /\ (Fits(ping4, k) \/ Fits(ping6, k)))
  BY ServiceHits
<1>11. Uniform(H, "accept") /\ (caught(H) <=> o.custom # {} /\ Fits(own, k))
  <2>1. CASE o.custom # {}
    <3>1. H = << Accept(own) >>
      BY <2>1 DEF When
    <3> HIDE DEF H
    <3> QED
      BY <2>1, <3>1, AcceptHits
  <2>2. CASE o.custom = {}
    <3>1. H = << >>
      BY <2>2 DEF When
    <3> HIDE DEF H
    <3> QED
      BY <2>2, <3>1, UniformNone, HitsFew
  <2> QED
    BY <2>1, <2>2
<1> HIDE DEF A, B, C, D, E, F, G, H
<1>12. Uniform(A \o B, "accept") /\ (caught(A \o B) <=> caught(A) \/ caught(B))
  BY <1>4, <1>5, UniformBoth, HitsBoth
<1>13. Uniform(A \o B \o C, "accept") /\ (caught(A \o B \o C) <=> caught(A \o B) \/ caught(C))
  BY <1>12, <1>6, UniformBoth, HitsBoth
<1>14. /\ Uniform(A \o B \o C \o D, "accept")
       /\ caught(A \o B \o C \o D) <=> caught(A \o B \o C) \/ caught(D)
  BY <1>13, <1>7, UniformBoth, HitsBoth
<1>15. /\ Uniform(A \o B \o C \o D \o E, "accept")
       /\ caught(A \o B \o C \o D \o E) <=> caught(A \o B \o C \o D) \/ caught(E)
  BY <1>14, <1>8, UniformBoth, HitsBoth
<1>16. /\ Uniform(A \o B \o C \o D \o E \o F, "accept")
       /\ caught(A \o B \o C \o D \o E \o F) <=> caught(A \o B \o C \o D \o E) \/ caught(F)
  BY <1>15, <1>9, UniformBoth, HitsBoth
<1>17. /\ Uniform(A \o B \o C \o D \o E \o F \o G, "accept")
       /\ caught(A \o B \o C \o D \o E \o F \o G) <=> caught(A \o B \o C \o D \o E \o F) \/ caught(G)
  BY <1>16, <1>10, UniformBoth, HitsBoth
<1>18. /\ Uniform(A \o B \o C \o D \o E \o F \o G \o H, "accept")
       /\ caught(A \o B \o C \o D \o E \o F \o G \o H)
            <=> caught(A \o B \o C \o D \o E \o F \o G) \/ caught(H)
  BY <1>17, <1>11, UniformBoth, HitsBoth
<1> HIDE DEF caught
<1> DEFINE hits == Hits(AllowRules(o), k, sets)
<1>19. hits # {} <=> \/ caught(A) \/ caught(B) \/ caught(C) \/ caught(D)
                     \/ caught(E) \/ caught(F) \/ caught(G) \/ caught(H)
  BY <1>1, <1>12, <1>13, <1>14, <1>15, <1>16, <1>17, <1>18 DEF caught
<1>20. Uniform(AllowRules(o), "accept")
  BY <1>1, <1>18
<1>21. k \in NewPackets => (hits # {} <=> k.iface = "lo" \/ k.dport \in OpenPorts(o, k.proto))
  BY <1>2, <1>4, <1>5, <1>6, <1>7, <1>8, <1>9, <1>10, <1>11, <1>19, OpenPortsOf
<1>22. Fits(AnyPacket, k) /\ k.state = "established" => hits # {}
  BY <1>3, <1>4, <1>19
<1> QED
  BY <1>20, <1>21, <1>22
-----------------------------------------------------------------------------
(* The table of the filter presets, compiled.                              *)
LEMMA FilterTable ==
  ASSUME NEW p
  PROVE  /\ PresetsTable \in DOMAIN CompileTables(p) <=> HasFilterPresets(p)
         /\ HasFilterPresets(p) => CompileTables(p)[PresetsTable] = Compile(p)
         /\ Compile(p).chains["input"] = InputChain(p)
         /\ "input" \in DOMAIN Compile(p).chains
         /\ "output" \in DOMAIN Compile(p).chains <=> Active(p.outbound)
         /\ Active(p.outbound) => Compile(p).chains["output"] = OutboundChain(p.outbound, p.blockSets)
         /\ Compile(p).sets = [s \in DOMAIN p.blockSets |-> UNION p.blockSets[s].cidrs]
<1>1. /\ PresetsTable \in DOMAIN CompileTables(p) <=> HasFilterPresets(p)
      /\ HasFilterPresets(p) => CompileTables(p)[PresetsTable] = Compile(p)
  BY DEF CompileTables, PresetsTable, NATTable, MarksTable, CTTable
<1> QED
  BY <1>1 DEF Compile, CompileBlockSet

LEMMA RefsAreKnown ==
  ASSUME NEW p, Validate(p), p.outbound # None
  PROVE  p.outbound.refs \subseteq DOMAIN p.blockSets
BY DEF Validate

LEMMA SetsAreOfOneFamily ==
  ASSUME NEW p, NftAccepts(p), NEW s \in DOMAIN p.blockSets
  PROVE  OfFamily(p.blockSets[s].cidrs, p.blockSets[s].family) = p.blockSets[s].cidrs
BY DEF NftAccepts

(* nft refuses a set whose networks are of another family than the set, so *)
(* that the rule for the set and the set agree.                            *)
LEMMA BlockedPeers ==
  ASSUME NEW p, IsPresets(p), Loads(p), p.outbound # None, NEW k, k.family = AddressFamily[k.peer]
  PROVE  k.peer \in Blocked(p)
           <=> \/ k.peer \in UNION p.outbound.block
               \/ \E r \in p.outbound.refs :
                    k.family = p.blockSets[r].family /\ k.peer \in Compile(p).sets[r]
<1>1. p.outbound.refs \subseteq DOMAIN p.blockSets
  BY RefsAreKnown DEF Loads
<1>2. ASSUME NEW r \in p.outbound.refs
      PROVE  /\ Compile(p).sets[r] = UNION p.blockSets[r].cidrs
             /\ k.peer \in UNION p.blockSets[r].cidrs => k.family = p.blockSets[r].family
  <2>1. r \in DOMAIN p.blockSets
    BY <1>1
  <2>2. OfFamily(p.blockSets[r].cidrs, p.blockSets[r].family) = p.blockSets[r].cidrs
    BY <2>1, SetsAreOfOneFamily DEF Loads
  <2>3. ASSUME NEW n \in p.blockSets[r].cidrs, k.peer \in n
        PROVE  k.family = p.blockSets[r].family
    <3>1. n \in OfFamily(p.blockSets[r].cidrs, p.blockSets[r].family)
      BY <2>2
    <3> QED
      BY <2>3, <3>1 DEF OfFamily
  <2>4. Compile(p).sets[r] = UNION p.blockSets[r].cidrs
    BY <2>1 DEF Compile, CompileBlockSet
  <2> QED
    BY <2>3, <2>4
<1>3. k.peer \in Blocked(p) <=> \/ k.peer \in UNION p.outbound.block
                                \/ \E r \in p.outbound.refs : k.peer \in UNION p.blockSets[r].cidrs
  BY DEF Blocked
<1> QED
  BY <1>2, <1>3

(* A table runs the chains that presets p compile to: what it kept in its  *)
(* sets from earlier presets comes on top.                                 *)
RunsInput(t, p) ==
  /\ "input" \in DOMAIN t.chains
  /\ t.chains["input"].rules = InputChain(p).rules
  /\ t.chains["input"].policy = InputChain(p).policy

RunsOutput(t, p) ==
  Active(p.outbound) =>
    /\ "output" \in DOMAIN t.chains
    /\ t.chains["output"].rules = OutboundChain(p.outbound, p.blockSets).rules
    /\ t.chains["output"].policy = OutboundChain(p.outbound, p.blockSets).policy
    /\ \A s \in DOMAIN p.blockSets : CompileBlockSet(p.blockSets[s]) \subseteq t.sets[s]

LEMMA InputRuns ==
  ASSUME NEW p, IsPresets(p), NEW t, RunsInput(t, p), NEW k
  PROVE  /\ k \in NewPackets => (Verdict(t, "input", k) = "accept" <=> MayComeIn(p, k))
         /\ Fits(AnyPacket, k) /\ k.state = "established" => Verdict(t, "input", k) = "accept"
         /\ Verdict(t, "input", k) \in {"accept", "drop"}
<1> DEFINE c    == InputChain(p)
           hits == Hits(c.rules, k, t.sets)
<1>1. /\ Uniform(c.rules, "accept")
      /\ k \in NewPackets => (hits # {} <=> Admitted(p, k))
      /\ p.deny /\ Fits(AnyPacket, k) /\ k.state = "established" => hits # {}
  BY InputHits
<1>2. c.policy = IF p.deny THEN "drop" ELSE "accept"
  BY DEF InputChain
<1>3. Verdict(t, "input", k) = IF hits # {} THEN c.rules[Earliest(hits)].verdict ELSE c.policy
  BY DEF Verdict, RunsInput
<1>4. hits # {} => c.rules[Earliest(hits)].verdict = "accept"
  BY <1>1, UniformHit
<1> HIDE DEF c, hits
<1>5. Verdict(t, "input", k) = "accept" <=> hits # {} \/ ~p.deny
  BY <1>2, <1>3, <1>4
<1>6. Verdict(t, "input", k) \in {"accept", "drop"}
  BY <1>2, <1>3, <1>4
<1>7. k \in NewPackets => (MayComeIn(p, k) <=> Admitted(p, k) \/ ~p.deny)
  BY Zenon DEF MayComeIn, Admitted
<1> QED
  BY <1>1, <1>5, <1>6, <1>7

LEMMA OutboundLists ==
  ASSUME NEW p, IsPresets(p), Loads(p), Active(p.outbound), NEW k, NEW sets
  PROVE  LET o  == p.outbound
             bl == BlockRules(o, p.blockSets)
             al == When(o.restrict, AllowRules(o))
         IN  /\ InARow(OutboundChain(o, p.blockSets).rules, bl, al)
             /\ Uniform(bl, "drop") /\ Uniform(al, "accept")
             /\ Fits(AnyPacket, k) =>
                  (Hits(bl, k, sets) # {}
                     <=> \/ k.peer \in UNION o.block
                         \/ \E r \in o.refs : k.family = p.blockSets[r].family /\ k.peer \in sets[r])
<1> DEFINE o  == p.outbound
           bl == BlockRules(o, p.blockSets)
           al == When(o.restrict, AllowRules(o))
<1>1. o.block \in SUBSET Networks /\ IsFiniteSet(o.refs) /\ None \notin o.refs
  <2>1. o # None
    BY DEF Active
  <2>2. o.refs \subseteq DOMAIN p.blockSets /\ None \notin DOMAIN p.blockSets
    BY <2>1, RefsAreKnown DEF Loads, IsPresets
  <2> QED
    BY <2>1, <2>2 DEF IsPresets
<1>2. Uniform(al, "accept")
  <2>1. CASE o.restrict
    <3>1. al = AllowRules(o)
      BY <2>1 DEF When
    <3> HIDE DEF al, o
    <3> QED
      BY <3>1, AllowHits
  <2>2. CASE ~o.restrict
    <3>1. al = << >>
      BY <2>2 DEF When
    <3> HIDE DEF al, o
    <3> QED
      BY <3>1, UniformNone
  <2> QED
    BY <2>1, <2>2
<1>3. InARow(OutboundChain(o, p.blockSets).rules, bl, al)
  BY DEF OutboundChain, InARow
<1>4. /\ Uniform(bl, "drop")
      /\ Fits(AnyPacket, k) =>
           (Hits(bl, k, sets) # {}
              <=> \/ k.peer \in UNION o.block
                  \/ \E r \in o.refs : k.family = p.blockSets[r].family /\ k.peer \in sets[r])
  <2> HIDE DEF o
  <2> QED
    BY <1>1, BlockHits
<1> QED
  BY <1>2, <1>3, <1>4

(* The elements that a table keeps in the sets that p refers to.           *)
Kept(t, p) ==
  IF ~Active(p.outbound) THEN {}
  ELSE UNION {t.sets[r] \ CompileBlockSet(p.blockSets[r]) : r \in p.outbound.refs}

LEMMA OutputRuns ==
  ASSUME NEW p, IsPresets(p), Loads(p), Active(p.outbound), NEW t, RunsOutput(t, p),
         NEW k, Fits(AnyPacket, k), k.family = AddressFamily[k.peer]
  PROVE  /\ k.peer \in Blocked(p) => Verdict(t, "output", k) = "drop"
         /\ k \in NewPackets /\ Verdict(t, "output", k) = "accept" => MayGoOut(p, k)
         /\ k \in NewPackets /\ MayGoOut(p, k) /\ k.peer \notin Kept(t, p) => Verdict(t, "output", k) = "accept"
         /\ k.state = "established" /\ k.peer \notin Blocked(p) \cup Kept(t, p) =>
              Verdict(t, "output", k) = "accept"
<1> DEFINE o    == p.outbound
           c    == OutboundChain(o, p.blockSets)
           bl   == BlockRules(o, p.blockSets)
           al   == When(o.restrict, AllowRules(o))
           hits == Hits(c.rules, k, t.sets)
           stopped == Hits(bl, k, t.sets) # {}
           let  == Hits(al, k, t.sets) # {}
<1>1. o # None /\ o.refs \subseteq DOMAIN p.blockSets
  BY RefsAreKnown DEF Active, Loads
<1>2. c.policy = IF o.restrict THEN "drop" ELSE "accept"
  BY DEF OutboundChain
<1>3. Verdict(t, "output", k) = IF hits # {} THEN c.rules[Earliest(hits)].verdict ELSE c.policy
  BY DEF Verdict, RunsOutput
<1>4. /\ InARow(c.rules, bl, al) /\ Uniform(bl, "drop") /\ Uniform(al, "accept")
      /\ stopped <=> \/ k.peer \in UNION o.block
                     \/ \E r \in o.refs : k.family = p.blockSets[r].family /\ k.peer \in t.sets[r]
  BY OutboundLists
<1>5. k.peer \in Blocked(p)
        <=> \/ k.peer \in UNION o.block
            \/ \E r \in o.refs : k.family = p.blockSets[r].family /\ k.peer \in CompileBlockSet(p.blockSets[r])
  <2>1. \A r \in o.refs : Compile(p).sets[r] = CompileBlockSet(p.blockSets[r])
    BY <1>1 DEF Compile
  <2>2. k.peer \in Blocked(p)
          <=> \/ k.peer \in UNION o.block
              \/ \E r \in o.refs : k.family = p.blockSets[r].family /\ k.peer \in Compile(p).sets[r]
    BY <1>1, BlockedPeers
  <2> HIDE DEF o
  <2> QED
    BY <2>1, <2>2
<1>6. \A r \in o.refs : CompileBlockSet(p.blockSets[r]) \subseteq t.sets[r]
  BY <1>1 DEF RunsOutput
<1>7. k.peer \in Blocked(p) => stopped
  <2> HIDE DEF o, stopped
  <2> QED
    BY <1>4, <1>5, <1>6
<1>8. stopped => k.peer \in Blocked(p) \cup Kept(t, p)
  <2> SUFFICES ASSUME stopped, k.peer \notin Blocked(p) PROVE k.peer \in Kept(t, p)
    OBVIOUS
  <2> HIDE DEF stopped
  <2>1. PICK r \in o.refs : k.family = p.blockSets[r].family /\ k.peer \in t.sets[r]
    BY <1>4, <1>5
  <2>2. k.peer \notin CompileBlockSet(p.blockSets[r])
    BY <1>5, <2>1
  <2> QED
    BY <2>1, <2>2 DEF Kept
<1>9. /\ ~o.restrict => ~let
      /\ o.restrict => /\ k \in NewPackets => (let <=> k.iface = "lo" \/ k.dport \in OpenPorts(o, k.proto))
                       /\ k.state = "established" => let
  <2>1. CASE o.restrict
    <3>1. al = AllowRules(o)
      BY <2>1 DEF When
    <3> HIDE DEF al, o
    <3> QED
      BY <2>1, <3>1, AllowHits
  <2>2. CASE ~o.restrict
    <3>1. al = << >>
      BY <2>2 DEF When
    <3> HIDE DEF al, o
    <3> QED
      BY <2>2, <3>1, HitsFew
  <2> QED
    BY <2>1, <2>2
<1>10. MayGoOut(p, k) <=> /\ k.peer \notin Blocked(p)
                          /\ o.restrict => k.iface = "lo" \/ k.dport \in OpenPorts(o, k.proto)
  BY <1>1, Zenon DEF MayGoOut
<1>11. /\ hits # {} <=> stopped \/ let
       /\ stopped => c.rules[Earliest(hits)].verdict = "drop"
       /\ ~stopped /\ hits # {} => c.rules[Earliest(hits)].verdict = "accept"
  <2> HIDE DEF bl, al, c
  <2>1. hits # {} <=> stopped \/ let
    BY <1>4, HitsBoth DEF InARow
  <2>2. /\ stopped => c.rules[Earliest(hits)].verdict = "drop"
        /\ ~stopped /\ hits # {} => c.rules[Earliest(hits)].verdict = "accept"
    BY <1>4, EarliestHit
  <2> QED
    BY <2>1, <2>2
<1> HIDE DEF o, c, bl, al, hits, stopped, let
<1>12. stopped => Verdict(t, "output", k) = "drop"
  BY <1>3, <1>11
<1>13. ~stopped => (Verdict(t, "output", k) = "accept" <=> let \/ ~o.restrict)
  BY <1>2, <1>3, <1>11
<1> QED
  BY <1>7, <1>8, <1>9, <1>10, <1>12, <1>13
-----------------------------------------------------------------------------
(* The stable sort: its order is strict and total on positions, so the     *)
(* number of positions before one is a place of its own.                   *)
LEMMA LexTotal ==
  ASSUME NEW m \in Nat, NEW a \in [1..m -> Int], NEW b \in [1..m -> Int], NEW c \in [1..m -> Int]
  PROVE  /\ ~LexLess(a, a)
         /\ LexLess(a, b) /\ LexLess(b, c) => LexLess(a, c)
         /\ a # b => LexLess(a, b) \/ LexLess(b, a)
<1>1. ~LexLess(a, a)
  BY DEF LexLess
<1>2. ASSUME LexLess(a, b), LexLess(b, c) PROVE LexLess(a, c)
  <2>1. PICK i \in 1..m : a[i] < b[i] /\ \A j \in 1..(i - 1) : a[j] = b[j]
    BY <1>2 DEF LexLess
  <2>2. PICK l \in 1..m : b[l] < c[l] /\ \A j \in 1..(l - 1) : b[j] = c[j]
    BY <1>2 DEF LexLess
  <2>3. CASE i <= l
    <3>1. a[i] < c[i]
      BY <2>1, <2>2, <2>3
    <3>2. \A j \in 1..(i - 1) : a[j] = c[j]
      BY <2>1, <2>2, <2>3
    <3> QED
      BY <3>1, <3>2 DEF LexLess
  <2>4. CASE l < i
    <3>1. a[l] < c[l]
      BY <2>1, <2>2, <2>4
    <3>2. \A j \in 1..(l - 1) : a[j] = c[j]
      BY <2>1, <2>2, <2>4
    <3> QED
      BY <3>1, <3>2 DEF LexLess
  <2> QED
    BY <2>3, <2>4
<1>3. ASSUME a # b PROVE LexLess(a, b) \/ LexLess(b, a)
  <2> DEFINE D == {i \in 1..m : a[i] # b[i]}
  <2>1. D # {} /\ D \in SUBSET Nat
    <3>1. (\A i \in 1..m : a[i] = b[i]) => a = b
      OBVIOUS
    <3>2. \E i \in 1..m : a[i] # b[i]
      BY <1>3, <3>1
    <3>3. D \in SUBSET Nat
      OBVIOUS
    <3>4. D # {}
      BY <3>2
    <3> QED
      BY <3>3, <3>4
  <2>2. PICK i \in D : \A j \in D : i <= j
    BY <2>1, LeastOf
  <2>3. \A j \in 1..(i - 1) : a[j] = b[j]
    BY <2>2
  <2>4. a[i] < b[i] \/ b[i] < a[i]
    BY <2>2
  <2> QED
    BY <2>2, <2>3, <2>4 DEF LexLess
<1> QED
  BY <1>1, <1>2, <1>3

Before(key, i, j) == LexLess(key[i], key[j]) \/ (key[i] = key[j] /\ i < j)

LEMMA BeforeTotal ==
  ASSUME NEW n \in Nat, NEW m \in Nat, NEW key \in [1..n -> [1..m -> Int]],
         NEW i \in 1..n, NEW j \in 1..n, NEW l \in 1..n
  PROVE  /\ ~Before(key, i, i)
         /\ Before(key, i, j) /\ Before(key, j, l) => Before(key, i, l)
         /\ i # j => Before(key, i, j) \/ Before(key, j, i)
<1>1. ~Before(key, i, i)
  <2>1. key[i] \in [1..m -> Int]
    OBVIOUS
  <2>2. ~LexLess(key[i], key[i])
    BY <2>1, LexTotal
  <2> QED
    BY <2>2 DEF Before
<1>2. Before(key, i, j) /\ Before(key, j, l) => Before(key, i, l)
  <2>1. LexLess(key[i], key[j]) /\ LexLess(key[j], key[l]) => LexLess(key[i], key[l])
    BY LexTotal
  <2> QED
    BY <2>1 DEF Before
<1>3. i # j => Before(key, i, j) \/ Before(key, j, i)
  <2>1. key[i] # key[j] => LexLess(key[i], key[j]) \/ LexLess(key[j], key[i])
    BY LexTotal, ZenonT(30)
  <2> QED
    BY <2>1 DEF Before
<1> QED
  BY <1>1, <1>2, <1>3

Place(n, key, i) == Cardinality({j \in 1..n : Before(key, j, i)}) + 1

LEMMA PlacesAreTaken ==
  ASSUME NEW n \in Nat, NEW m \in Nat, NEW key \in [1..n -> [1..m -> Int]]
  PROVE  /\ \A i \in 1..n : Place(n, key, i) \in 1..n
         /\ \A i, j \in 1..n : Before(key, i, j) => Place(n, key, i) < Place(n, key, j)
         /\ \A k \in 1..n : \E i \in 1..n : Place(n, key, i) = k
<1> DEFINE earlier(i) == {j \in 1..n : Before(key, j, i)}
           place == [i \in 1..n |-> Place(n, key, i)]
<1>1. IsFiniteSet(1..n) /\ Cardinality(1..n) = n
  BY FS_Interval
<1>2. ASSUME NEW i \in 1..n
      PROVE  IsFiniteSet(earlier(i)) /\ Cardinality(earlier(i)) \in Nat
  <2>1. earlier(i) \in SUBSET (1..n)
    OBVIOUS
  <2> QED
    BY <1>1, <2>1, FS_Subset, FS_CardinalityType
<1>3. ASSUME NEW i \in 1..n
      PROVE  Place(n, key, i) \in 1..n
  <2>1. earlier(i) \in SUBSET (1..n) /\ earlier(i) # 1..n
    BY BeforeTotal
  <2> HIDE DEF earlier
  <2>2. Cardinality(earlier(i)) <= n /\ Cardinality(earlier(i)) # n
    BY <1>1, <2>1, FS_Subset
  <2>3. Place(n, key, i) = Cardinality(earlier(i)) + 1
    BY DEF Place, earlier
  <2> QED
    BY <1>2, <2>2, <2>3
<1>4. ASSUME NEW i \in 1..n, NEW j \in 1..n, Before(key, i, j)
      PROVE  Place(n, key, i) < Place(n, key, j)
  <2>1. earlier(i) \in SUBSET earlier(j) /\ i \in earlier(j) /\ i \notin earlier(i)
    BY <1>4, BeforeTotal
  <2>2. Place(n, key, i) = Cardinality(earlier(i)) + 1 /\ Place(n, key, j) = Cardinality(earlier(j)) + 1
    BY DEF Place
  <2> HIDE DEF earlier
  <2>3. Cardinality(earlier(i)) <= Cardinality(earlier(j)) /\ Cardinality(earlier(i)) # Cardinality(earlier(j))
    BY <1>2, <2>1, FS_Subset
  <2> QED
    BY <1>2, <2>2, <2>3
<1>5. place \in Injection(1..n, 1..n)
  <2>1. ASSUME NEW i \in 1..n, NEW j \in 1..n, i # j
        PROVE  Place(n, key, i) # Place(n, key, j)
    <3>1. Place(n, key, i) \in 1..n /\ Place(n, key, j) \in 1..n
      BY <1>3
    <3>2. Before(key, i, j) \/ Before(key, j, i)
      BY <2>1, BeforeTotal
    <3>3. Place(n, key, i) < Place(n, key, j) \/ Place(n, key, j) < Place(n, key, i)
      BY <1>4, <3>2
    <3> QED
      BY <3>1, <3>3
  <2> QED
    BY <1>3, <2>1 DEF Injection, IsInjective
<1>6. place \in Surjection(1..n, 1..n)
  BY <1>1, <1>5, FS_Injection
<1> QED
  BY <1>3, <1>4, <1>6 DEF Surjection

AreKeys(key, n, m) == key \in [1..n -> [1..m -> Int]]

Rearranges(at, n) == at \in [1..n -> 1..n] /\ \A i \in 1..n : \E k \in 1..n : at[k] = i

Sorts(at, n, s, key) ==
  /\ Rearranges(at, n)
  /\ StableSort(s, key) = [k \in 1..n |-> s[at[k]]]
  /\ \A k, l \in 1..n : k < l => Before(key, at[k], at[l])

(* Sorting rearranges: each element has a place, and they are in order.    *)
LEMMA Sorted ==
  ASSUME NEW n \in Nat, NEW s, DOMAIN s = 1..n, NEW m \in Nat, NEW key, AreKeys(key, n, m)
  PROVE  \E at : Sorts(at, n, s, key)
<1> DEFINE at == [k \in 1..n |-> CHOOSE i \in 1..n : Place(n, key, i) = k]
<1> USE DEF AreKeys
<1>1. StableSort(s, key) = [k \in 1..n |-> s[at[k]]]
  BY DEF StableSort, Place, Before
<1>2. ASSUME NEW k \in 1..n PROVE at[k] \in 1..n /\ Place(n, key, at[k]) = k
  BY PlacesAreTaken
<1>3. ASSUME NEW i \in 1..n PROVE at[Place(n, key, i)] = i
  <2> DEFINE k == Place(n, key, i)
  <2>1. k \in 1..n
    BY PlacesAreTaken
  <2>2. at[k] \in 1..n /\ Place(n, key, at[k]) = k
    BY <1>2, <2>1
  <2> HIDE DEF at
  <2>3. \A a, b \in 1..n : Before(key, a, b) => Place(n, key, a) < Place(n, key, b)
    BY PlacesAreTaken
  <2>4. ~Before(key, i, at[k]) /\ ~Before(key, at[k], i)
    BY <2>1, <2>2, <2>3
  <2> QED
    BY <2>2, <2>4, BeforeTotal
<1>4. ASSUME NEW k \in 1..n, NEW l \in 1..n, k < l
      PROVE  Before(key, at[k], at[l])
  <2>1. at[k] \in 1..n /\ at[l] \in 1..n /\ Place(n, key, at[k]) = k /\ Place(n, key, at[l]) = l
    BY <1>2
  <2> HIDE DEF at
  <2>2. \A a, b \in 1..n : Before(key, a, b) => Place(n, key, a) < Place(n, key, b)
    BY PlacesAreTaken
  <2>3. at[k] # at[l] /\ ~Before(key, at[l], at[k])
    BY <1>4, <2>1, <2>2
  <2> QED
    BY <2>1, <2>3, BeforeTotal
<1>5. at \in [1..n -> 1..n]
  BY <1>2
<1>6. \A i \in 1..n : Place(n, key, i) \in 1..n
  BY PlacesAreTaken
<1> HIDE DEF at
<1> QED
  BY <1>1, <1>3, <1>4, <1>5, <1>6 DEF Sorts, Rearranges
-----------------------------------------------------------------------------
(* Port forwards.                                                          *)
LEMMA ForwardMatches ==
  ASSUME NEW f, NEW k \in NewPackets, k.iface # "lo", NEW sets
  PROVE  /\ Matches(ForwardRule(f), k, sets) <=> Applies(f, k)
         /\ ForwardRule(f).arg = << f.to, ToPort(f) >>
<1> DEFINE proto == IF f.proto = None THEN "tcp" ELSE f.proto
           m == [AnyPacket EXCEPT !.proto = {proto}, !.dport = {f.ext},
                   !.peer = OrAny(f.from, Addresses),
                   !.family = {"v4"},
                   !.iface = IF f.iif = None THEN Interfaces ELSE {f.iif}]
<1>1. ForwardRule(f) = Rule(m, "dnat", << f.to, ToPort(f) >>)
  BY DEF ForwardRule
<1>2. ForwardRule(f).arg = << f.to, ToPort(f) >>
  BY <1>1 DEF Rule
<1>3. /\ m.proto = {proto} /\ m.dport = {f.ext} /\ m.family = {"v4"} /\ m.state = {"new", "established"}
      /\ m.over = BOOLEAN
      /\ m.peer = IF f.from = None THEN Addresses ELSE f.from
      /\ m.iface = IF f.iif = None THEN Interfaces ELSE {f.iif}
  BY DEF AnyPacket, OrAny
<1> HIDE DEF m
<1>4. Fits(m, k) <=> Applies(f, k)
  BY <1>3, NewPacketType DEF Fits, Applies
<1> QED
  BY <1>1, <1>2, <1>4, MatchesRule

LEMMA NATOf ==
  ASSUME NEW p
  PROVE  /\ NATTable \in DOMAIN CompileTables(p) <=> p.forwards # << >> \/ p.masquerade # << >>
         /\ NATTable \in DOMAIN CompileTables(p) =>
              CompileTables(p)[NATTable] = CompileNATTable(p.forwards, p.masquerade)
         /\ CompileNATTable(p.forwards, p.masquerade).chains["prerouting"].rules =
              LET fws == StableSort(p.forwards, [i \in DOMAIN p.forwards |-> ForwardKey(p.forwards[i])])
              IN  [i \in DOMAIN fws |-> ForwardRule(fws[i])]
<1>1. /\ NATTable \in DOMAIN CompileTables(p) <=> p.forwards # << >> \/ p.masquerade # << >>
      /\ NATTable \in DOMAIN CompileTables(p) =>
           CompileTables(p)[NATTable] = CompileNATTable(p.forwards, p.masquerade)
  BY DEF CompileTables, PresetsTable, NATTable, MarksTable, CTTable
<1> QED
  BY <1>1 DEF CompileNATTable

(* Sorting the forwards loses none, and each rule is that of a forward.    *)
LEMMA ForwardRules ==
  ASSUME NEW p, IsPresets(p)
  PROVE  /\ Len(p.forwards) \in Nat /\ DOMAIN p.forwards = 1..Len(p.forwards)
         /\ \E at : /\ Rearranges(at, Len(p.forwards))
                    /\ CompileNATTable(p.forwards, p.masquerade).chains["prerouting"].rules
                         = [k \in 1..Len(p.forwards) |-> ForwardRule(p.forwards[at[k]])]
<1> DEFINE F == [proto : {None, "tcp", "udp"}, iif : Optional(Interfaces), from : Optional(Networks),
                 ext : Int, to : DOMAIN Rank, toPort : Int]
           s == p.forwards
           n == Len(s)
           key == [i \in DOMAIN s |-> ForwardKey(s[i])]
           fws == StableSort(s, key)
<1>1. s \in [1..n -> F] /\ n \in Nat /\ DOMAIN s = 1..n
  <2>1. s \in Seq(F)
    BY DEF IsPresets
  <2> HIDE DEF F
  <2> QED
    BY <2>1
<1>2. AreKeys(key, n, 3)
  <2>1. ASSUME NEW f \in F PROVE ForwardKey(f) \in [1..3 -> Int]
    <3>1. f.ext \in Int /\ Rank[f.proto] \in Int /\ Rank[f.to] \in Int
      BY RankAssumption, PresetAssumption
    <3> QED
      BY <3>1 DEF ForwardKey
  <2> QED
    BY <1>1, <2>1 DEF AreKeys
<1> HIDE DEF F, s, n, key
<1>3. PICK at : Rearranges(at, n) /\ fws = [k \in 1..n |-> s[at[k]]]
  <2>1. 3 \in Nat
    OBVIOUS
  <2> QED
    BY <1>1, <1>2, <2>1, Sorted, SMTT(30) DEF Sorts
<1> HIDE DEF fws
<1>4. CompileNATTable(p.forwards, p.masquerade).chains["prerouting"].rules
        = [i \in DOMAIN fws |-> ForwardRule(fws[i])]
  BY NATOf DEF s, key, fws
<1>5. [i \in DOMAIN fws |-> ForwardRule(fws[i])] = [k \in 1..n |-> ForwardRule(s[at[k]])]
  BY <1>3
<1> QED
  BY <1>1, <1>3, <1>4, <1>5 DEF s, n
-----------------------------------------------------------------------------
(* Marks.                                                                  *)
LEMMA MarkMatches ==
  ASSUME NEW m, NEW k \in NewPackets, NEW sets
  PROVE  /\ Matches(MarkRule(m), k, sets) <=> Concerns(m, k)
         /\ MarkRule(m).arg = m.set
<1> DEFINE w == [AnyPacket EXCEPT !.iface = IF m.oif = None THEN Interfaces ELSE {m.oif},
                   !.peer = OrAny(m.daddr, Addresses),
                   !.proto = IF m.proto = None THEN Protocols
                             ELSE IF m.proto = "icmp" THEN {"ping"} ELSE {m.proto},
                   !.family = IF m.proto = "icmp" THEN {"v4"} ELSE Families,
                   !.dport = IF m.dport = 0 THEN Ports ELSE {m.dport}]
<1>1. MarkRule(m) = Rule(w, "mark", m.set) /\ MarkRule(m).arg = m.set
  BY DEF MarkRule, Rule
<1>2. /\ w.iface = IF m.oif = None THEN Interfaces ELSE {m.oif}
      /\ w.peer = IF m.daddr = None THEN Addresses ELSE m.daddr
      /\ w.proto = IF m.proto = None THEN Protocols
                   ELSE IF m.proto = "icmp" THEN {"ping"} ELSE {m.proto}
      /\ w.family = IF m.proto = "icmp" THEN {"v4"} ELSE Families
      /\ w.dport = IF m.dport = 0 THEN Ports ELSE {m.dport}
      /\ w.state = {"new", "established"} /\ w.over = BOOLEAN
  BY DEF AnyPacket, OrAny
<1> HIDE DEF w
<1>3. Fits(w, k) <=> Concerns(m, k)
  <2>1. /\ k.peer \in Addresses /\ k.family \in Families /\ k.proto \in Protocols
        /\ k.dport \in Ports /\ k.iface \in Interfaces /\ k.state = "new" /\ k.over \in BOOLEAN
    BY NewPacketType
  <2>2. k.iface \in w.iface <=> (m.oif # None => k.iface = m.oif)
    BY <1>2, <2>1
  <2>3. k.peer \in w.peer <=> (m.daddr # None => k.peer \in m.daddr)
    BY <1>2, <2>1
  <2>4. k.dport \in w.dport <=> (m.dport # 0 => k.dport = m.dport)
    BY <1>2, <2>1
  <2>5. k.proto \in w.proto /\ k.family \in w.family
          <=> (m.proto # None => \/ k.proto = m.proto
                                 \/ m.proto = "icmp" /\ k.proto = "ping" /\ k.family = "v4")
    BY <1>2, <2>1, PresetAssumption DEF Protocols
  <2>6. k.state \in w.state /\ k.over \in w.over
    BY <1>2, <2>1
  <2> QED
    BY <2>2, <2>3, <2>4, <2>5, <2>6 DEF Fits, Concerns
<1> QED
  BY <1>1, <1>3, MatchesRule

LEMMA MarksOf ==
  ASSUME NEW p
  PROVE  /\ MarksTable \in DOMAIN CompileTables(p) <=> p.marks # << >>
         /\ MarksTable \in DOMAIN CompileTables(p) =>
              CompileTables(p)[MarksTable] = CompileMarksTable(p.marks)
         /\ CompileMarksTable(p.marks).chains["output"].rules =
              LET sorted == StableSort(p.marks,
                              [i \in DOMAIN p.marks |-> << p.marks[i].set, Rank[p.marks[i].name] >>])
              IN  [i \in DOMAIN sorted |-> MarkRule(sorted[i])]
<1>1. /\ MarksTable \in DOMAIN CompileTables(p) <=> p.marks # << >>
      /\ MarksTable \in DOMAIN CompileTables(p) =>
           CompileTables(p)[MarksTable] = CompileMarksTable(p.marks)
  BY DEF CompileTables, PresetsTable, NATTable, MarksTable, CTTable
<1> QED
  BY <1>1 DEF CompileMarksTable, MarkTable

(* Sorting the marks loses none, and puts the larger ones last.            *)
LEMMA MarkRules ==
  ASSUME NEW p, IsPresets(p)
  PROVE  /\ Len(p.marks) \in Nat /\ DOMAIN p.marks = 1..Len(p.marks)
         /\ \A i \in 1..Len(p.marks) : p.marks[i].set \in Nat
         /\ \E at : /\ Rearranges(at, Len(p.marks))
                    /\ CompileMarksTable(p.marks).chains["output"].rules
                         = [k \in 1..Len(p.marks) |-> MarkRule(p.marks[at[k]])]
                    /\ \A k, l \in 1..Len(p.marks) :
                         k < l => p.marks[at[k]].set <= p.marks[at[l]].set
<1> DEFINE M == [name : DOMAIN Rank, daddr : Optional(Networks), proto : {None, "tcp", "udp", "icmp"},
                 dport : Int, oif : Optional(Interfaces), set : Nat]
           s == p.marks
           n == Len(s)
           key == [i \in DOMAIN s |-> << s[i].set, Rank[s[i].name] >>]
           sorted == StableSort(s, key)
<1>1. s \in [1..n -> M] /\ n \in Nat /\ DOMAIN s = 1..n
  <2>1. s \in Seq(M)
    BY DEF IsPresets
  <2> HIDE DEF M
  <2> QED
    BY <2>1
<1>2. ASSUME NEW m \in M PROVE m.set \in Nat /\ << m.set, Rank[m.name] >> \in [1..2 -> Int]
  <2>1. m.set \in Nat /\ Rank[m.name] \in Int
    BY RankAssumption
  <2> QED
    BY <2>1
<1> HIDE DEF M
<1>3. AreKeys(key, n, 2) /\ \A i \in 1..n : s[i].set \in Nat
  BY <1>1, <1>2 DEF AreKeys
<1>4. \A i \in 1..n : key[i] = << s[i].set, Rank[s[i].name] >>
  BY <1>1
<1> HIDE DEF s, n, key
<1>5. PICK at : /\ Rearranges(at, n)
                /\ sorted = [k \in 1..n |-> s[at[k]]]
                /\ \A k, l \in 1..n : k < l => Before(key, at[k], at[l])
  <2>1. 2 \in Nat
    OBVIOUS
  <2>2. \E at : Sorts(at, n, s, key)
    BY <1>1, <1>3, <2>1, Sorted
  <2> QED
    BY <2>2, Zenon DEF Sorts
<1> HIDE DEF sorted
<1>6. CompileMarksTable(p.marks).chains["output"].rules = [i \in DOMAIN sorted |-> MarkRule(sorted[i])]
  BY MarksOf DEF s, key, sorted
<1>7. [i \in DOMAIN sorted |-> MarkRule(sorted[i])] = [k \in 1..n |-> MarkRule(s[at[k]])]
  BY <1>5
<1>8. ASSUME NEW i \in 1..n, NEW j \in 1..n, Before(key, i, j)
      PROVE  s[i].set <= s[j].set
  <2>1. /\ key[i] = << s[i].set, Rank[s[i].name] >> /\ key[j] = << s[j].set, Rank[s[j].name] >>
        /\ s[i].set \in Nat /\ s[j].set \in Nat
    BY <1>3, <1>4
  <2>2. CASE key[i] = key[j]
    BY <2>1, <2>2
  <2>3. CASE LexLess(key[i], key[j])
    <3>1. PICK x \in DOMAIN key[i] : key[i][x] < key[j][x] /\ \A y \in 1..(x - 1) : key[i][y] = key[j][y]
      BY <2>3 DEF LexLess
    <3>2. x \in 1..2
      BY <2>1, <3>1
    <3>3. CASE x = 1
      BY <2>1, <3>1, <3>3
    <3>4. CASE x = 2
      <4>1. key[i][1] = key[j][1]
        BY <3>1, <3>4
      <4> QED
        BY <2>1, <4>1
    <3> QED
      BY <3>2, <3>3, <3>4
  <2> QED
    BY <1>8, <2>2, <2>3 DEF Before
<1>9. \A k, l \in 1..n : k < l => s[at[k]].set <= s[at[l]].set
  BY <1>5, <1>8 DEF Rearranges
<1> QED
  BY <1>1, <1>3, <1>5, <1>6, <1>7, <1>9 DEF s, n
-----------------------------------------------------------------------------
(* Tables and chains are records.                                          *)
Plain(t) ==
  /\ t = [chains |-> t.chains, sets |-> t.sets]
  /\ \A c \in DOMAIN t.chains : t.chains[c] = [policy |-> t.chains[c].policy, rules |-> t.chains[c].rules]

LEMMA BlockOfScript ==
  ASSUME NEW old, Plain(old), NEW new
  PROVE  LET t == AddTable(Flush(old), new)
         IN  /\ Plain(t)
             /\ \A c \in DOMAIN new.chains : \A R :
                  new.chains[c].rules \in Seq(R) =>
                    /\ c \in DOMAIN t.chains
                    /\ t.chains[c].rules = new.chains[c].rules
                    /\ new.chains[c].policy # "none" => t.chains[c].policy = new.chains[c].policy
             /\ \A s \in DOMAIN new.sets : s \in DOMAIN t.sets /\ new.sets[s] \subseteq t.sets[s]
<1> DEFINE fl == Flush(old)
           t  == AddTable(fl, new)
<1>1. /\ DOMAIN fl.chains = DOMAIN old.chains
      /\ \A c \in DOMAIN old.chains : fl.chains[c] = [policy |-> old.chains[c].policy, rules |-> << >>]
  <2>1. fl.chains = [c \in DOMAIN old.chains |-> [old.chains[c] EXCEPT !.rules = << >>]]
    BY DEF Flush, Plain
  <2>2. \A c \in DOMAIN old.chains :
          [old.chains[c] EXCEPT !.rules = << >>] = [policy |-> old.chains[c].policy, rules |-> << >>]
    BY DEF Plain
  <2> QED
    BY <2>1, <2>2
<1> HIDE DEF fl
<1>2. ASSUME NEW c
      PROVE  /\ Lookup(fl.chains, c, FreshChain).rules = << >>
             /\ c \in DOMAIN fl.chains => fl.chains[c] = [policy |-> fl.chains[c].policy, rules |-> fl.chains[c].rules]
  <2>1. CASE c \in DOMAIN fl.chains
    <3>1. fl.chains[c] = [policy |-> old.chains[c].policy, rules |-> << >>]
      BY <1>1, <2>1
    <3> QED
      BY <2>1, <3>1 DEF Lookup
  <2>2. CASE c \notin DOMAIN fl.chains
    BY <2>2 DEF Lookup, FreshChain
  <2> QED
    BY <2>1, <2>2
<1>3. /\ DOMAIN t.chains = DOMAIN fl.chains \cup DOMAIN new.chains
      /\ \A c \in DOMAIN new.chains :
           t.chains[c] = AddChain(Lookup(fl.chains, c, FreshChain), new.chains[c])
      /\ \A c \in DOMAIN fl.chains \ DOMAIN new.chains : t.chains[c] = fl.chains[c]
      /\ DOMAIN t.sets = DOMAIN fl.sets \cup DOMAIN new.sets
      /\ \A s \in DOMAIN new.sets : t.sets[s] = Lookup(fl.sets, s, {}) \cup Lookup(new.sets, s, {})
      /\ t = [chains |-> t.chains, sets |-> t.sets]
  BY DEF AddTable
<1> HIDE DEF t
<1>4. Plain(t)
  <2>1. ASSUME NEW c \in DOMAIN t.chains
        PROVE  t.chains[c] = [policy |-> t.chains[c].policy, rules |-> t.chains[c].rules]
    <3>1. CASE c \in DOMAIN new.chains
      <4>1. t.chains[c] = AddChain(Lookup(fl.chains, c, FreshChain), new.chains[c])
        BY <1>3, <3>1
      <4> QED
        BY <4>1 DEF AddChain
    <3>2. CASE c \notin DOMAIN new.chains
      <4>1. c \in DOMAIN fl.chains /\ t.chains[c] = fl.chains[c]
        BY <1>3, <2>1, <3>2
      <4> QED
        BY <1>2, <4>1
    <3> QED
      BY <3>1, <3>2
  <2> QED
    BY <1>3, <2>1 DEF Plain
<1>5. ASSUME NEW c \in DOMAIN new.chains, NEW R, new.chains[c].rules \in Seq(R)
      PROVE  /\ c \in DOMAIN t.chains
             /\ t.chains[c].rules = new.chains[c].rules
             /\ new.chains[c].policy # "none" => t.chains[c].policy = new.chains[c].policy
  <2> DEFINE was == Lookup(fl.chains, c, FreshChain)
             is  == new.chains[c]
  <2>1. << >> \o is.rules = is.rules
    BY <1>5
  <2>2. t.chains[c] = AddChain(was, is) /\ was.rules = << >>
    BY <1>2, <1>3
  <2>3. /\ AddChain(was, is).rules = was.rules \o is.rules
        /\ is.policy # "none" => AddChain(was, is).policy = is.policy
    BY DEF AddChain
  <2> HIDE DEF was, is
  <2>4. /\ t.chains[c].rules = is.rules
        /\ is.policy # "none" => t.chains[c].policy = is.policy
    BY <2>1, <2>2, <2>3
  <2> QED
    BY <1>3, <2>4 DEF is
<1>6. ASSUME NEW s \in DOMAIN new.sets
      PROVE  s \in DOMAIN t.sets /\ new.sets[s] \subseteq t.sets[s]
  BY <1>3 DEF Lookup
<1> QED
  BY <1>4, <1>5, <1>6 DEF t, fl

(* What the kernel runs: every table of the presets in force, with the     *)
(* rules and policies that they compile to.  An input chain that an        *)
(* earlier run left is that of some presets.                               *)
NATRules(p)  == CompileNATTable(p.forwards, p.masquerade).chains["prerouting"].rules
MarksRules(p) == CompileMarksTable(p.marks).chains["output"].rules

KernelRuns(k, p) ==
  /\ \A n \in DOMAIN k : Plain(k[n])
  /\ PresetsTable \in DOMAIN k => \E q : IsPresets(q) /\ RunsInput(k[PresetsTable], q)
  /\ HasFilterPresets(p) => /\ PresetsTable \in DOMAIN k
                            /\ RunsInput(k[PresetsTable], p)
                            /\ RunsOutput(k[PresetsTable], p)
  /\ NATTable \in DOMAIN CompileTables(p) =>
       NATTable \in DOMAIN k /\ k[NATTable].chains["prerouting"].rules = NATRules(p)
  /\ MarksTable \in DOMAIN CompileTables(p) =>
       MarksTable \in DOMAIN k /\ k[MarksTable].chains["output"].rules = MarksRules(p)

LEMMA FiltersRun ==
  ASSUME NEW p, IsPresets(p), Loads(p), NEW old, Plain(old)
  PROVE  LET t == AddTable(Flush(old), Compile(p)) IN RunsInput(t, p) /\ RunsOutput(t, p)
<1> DEFINE new == Compile(p)
           t   == AddTable(Flush(old), new)
<1>1. /\ new.chains["input"] = InputChain(p)
      /\ "input" \in DOMAIN new.chains
      /\ Active(p.outbound) => /\ "output" \in DOMAIN new.chains
                               /\ new.chains["output"] = OutboundChain(p.outbound, p.blockSets)
      /\ new.sets = [s \in DOMAIN p.blockSets |-> CompileBlockSet(p.blockSets[s])]
  BY FilterTable DEF CompileBlockSet
<1> HIDE DEF new
<1>2. /\ \A c \in DOMAIN new.chains : \A R :
           new.chains[c].rules \in Seq(R) =>
             /\ c \in DOMAIN t.chains
             /\ t.chains[c].rules = new.chains[c].rules
             /\ new.chains[c].policy # "none" => t.chains[c].policy = new.chains[c].policy
      /\ \A s \in DOMAIN new.sets : s \in DOMAIN t.sets /\ new.sets[s] \subseteq t.sets[s]
  BY BlockOfScript
<1> HIDE DEF t
<1>3. RunsInput(t, p)
  <2>1. \E R : InputChain(p).rules \in Seq(R)
    BY InputHits DEF Uniform
  <2>2. InputChain(p).policy # "none"
    BY DEF InputChain
  <2> QED
    BY <1>1, <1>2, <2>1, <2>2 DEF RunsInput
<1>4. ASSUME Active(p.outbound)
      PROVE  /\ "output" \in DOMAIN t.chains
             /\ t.chains["output"].rules = OutboundChain(p.outbound, p.blockSets).rules
             /\ t.chains["output"].policy = OutboundChain(p.outbound, p.blockSets).policy
             /\ \A s \in DOMAIN p.blockSets : CompileBlockSet(p.blockSets[s]) \subseteq t.sets[s]
  <2>1. \E R : OutboundChain(p.outbound, p.blockSets).rules \in Seq(R)
    <3> DEFINE bl == BlockRules(p.outbound, p.blockSets)
               al == When(p.outbound.restrict, AllowRules(p.outbound))
               R  == {bl[i] : i \in DOMAIN bl} \cup {al[i] : i \in DOMAIN al}
    <3>1. /\ OutboundChain(p.outbound, p.blockSets).rules = bl \o al
          /\ Uniform(bl, "drop") /\ Uniform(al, "accept")
      BY <1>4, OutboundLists DEF InARow
    <3> HIDE DEF bl, al
    <3>2. bl \in Seq(R) /\ al \in Seq(R)
      BY <3>1 DEF Uniform
    <3>3. bl \o al \in Seq(R)
      BY <3>2
    <3> QED
      BY <3>1, <3>3
  <2>2. OutboundChain(p.outbound, p.blockSets).policy # "none"
    BY DEF OutboundChain
  <2>3. \A s \in DOMAIN p.blockSets : CompileBlockSet(p.blockSets[s]) \subseteq t.sets[s]
    BY <1>1, <1>2
  <2> QED
    BY <1>1, <1>2, <1>4, <2>1, <2>2, <2>3
<1> QED
  BY <1>3, <1>4 DEF RunsOutput, t, new

(* The NAT and mark tables: their chains have rules and no policy.         *)
LEMMA RoutingRuns ==
  ASSUME NEW p, IsPresets(p), NEW old, Plain(old)
  PROVE  /\ AddTable(Flush(old), CompileNATTable(p.forwards, p.masquerade)).chains["prerouting"].rules = NATRules(p)
         /\ AddTable(Flush(old), CompileMarksTable(p.marks)).chains["output"].rules = MarksRules(p)
<1>1. \A new, c, R : c \in DOMAIN new.chains /\ new.chains[c].rules \in Seq(R) =>
        AddTable(Flush(old), new).chains[c].rules = new.chains[c].rules
  BY BlockOfScript
<1>2. /\ "prerouting" \in DOMAIN CompileNATTable(p.forwards, p.masquerade).chains
      /\ "output" \in DOMAIN CompileMarksTable(p.marks).chains
  BY DEF CompileNATTable, CompileMarksTable, MarkTable
<1>3. \A n \in Nat : \A f : f = [i \in 1..n |-> f[i]] => f \in Seq({f[i] : i \in 1..n})
  OBVIOUS
<1>4. \E R : NATRules(p) \in Seq(R)
  <2>1. PICK at : NATRules(p) = [i \in 1..Len(p.forwards) |-> ForwardRule(p.forwards[at[i]])]
    BY ForwardRules DEF NATRules
  <2>2. Len(p.forwards) \in Nat
    BY ForwardRules
  <2> DEFINE n == Len(p.forwards)
             f == NATRules(p)
  <2>3. f = [i \in 1..n |-> f[i]]
    BY <2>1
  <2> HIDE DEF f, n
  <2>4. f \in Seq({f[i] : i \in 1..n})
    BY <1>3, <2>2, <2>3 DEF n
  <2> QED
    BY <2>4 DEF f
<1>5. \E R : MarksRules(p) \in Seq(R)
  <2>1. PICK at : MarksRules(p) = [i \in 1..Len(p.marks) |-> MarkRule(p.marks[at[i]])]
    BY MarkRules DEF MarksRules
  <2>2. Len(p.marks) \in Nat
    BY MarkRules
  <2> DEFINE n == Len(p.marks)
             f == MarksRules(p)
  <2>3. f = [i \in 1..n |-> f[i]]
    BY <2>1
  <2> HIDE DEF f, n
  <2>4. f \in Seq({f[i] : i \in 1..n})
    BY <1>3, <2>2, <2>3 DEF n
  <2> QED
    BY <2>4 DEF f
<1> QED
  BY <1>1, <1>2, <1>4, <1>5 DEF NATRules, MarksRules

LEMMA ApplyRuns ==
  ASSUME NEW held, \A n \in DOMAIN held : Plain(held[n]),
         PresetsTable \in DOMAIN held => \E q : IsPresets(q) /\ RunsInput(held[PresetsTable], q),
         NEW p, IsPresets(p), Loads(p)
  PROVE  KernelRuns(Apply(held, CompileTables(p)), p)
<1> DEFINE k == Apply(held, CompileTables(p))
           rs == CompileTables(p)
           old(n) == Lookup(held, n, FreshTable)
<1>1. \A n : Plain(old(n))
  <2>1. Plain(FreshTable)
    BY DEF Plain, FreshTable
  <2> QED
    BY <2>1 DEF Lookup
<1>2. /\ DOMAIN k = DOMAIN held \cup DOMAIN rs
      /\ \A n \in DOMAIN rs : k[n] = AddTable(Flush(old(n)), rs[n])
      /\ \A n \in DOMAIN held \ DOMAIN rs : k[n] = held[n]
  BY DEF Apply
<1>3. /\ PresetsTable \in DOMAIN rs <=> HasFilterPresets(p)
      /\ HasFilterPresets(p) => rs[PresetsTable] = Compile(p)
      /\ NATTable \in DOMAIN rs => rs[NATTable] = CompileNATTable(p.forwards, p.masquerade)
      /\ MarksTable \in DOMAIN rs => rs[MarksTable] = CompileMarksTable(p.marks)
  BY FilterTable, NATOf, MarksOf
<1> HIDE DEF k, rs, old
<1>4. \A n \in DOMAIN k : Plain(k[n])
  <2> SUFFICES ASSUME NEW n \in DOMAIN k PROVE Plain(k[n])
    OBVIOUS
  <2>1. CASE n \in DOMAIN rs
    BY <1>1, <1>2, <2>1, BlockOfScript
  <2>2. CASE n \notin DOMAIN rs
    BY <1>2, <2>2
  <2> QED
    BY <2>1, <2>2
<1>5. HasFilterPresets(p) => /\ PresetsTable \in DOMAIN k
                             /\ RunsInput(k[PresetsTable], p)
                             /\ RunsOutput(k[PresetsTable], p)
  BY <1>1, <1>2, <1>3, FiltersRun
<1>6. PresetsTable \in DOMAIN k => \E q : IsPresets(q) /\ RunsInput(k[PresetsTable], q)
  <2>1. CASE HasFilterPresets(p)
    BY <1>5, <2>1
  <2>2. CASE ~HasFilterPresets(p)
    BY <1>2, <1>3, <2>2
  <2> QED
    BY <2>1, <2>2
<1>7. NATTable \in DOMAIN rs =>
        NATTable \in DOMAIN k /\ k[NATTable].chains["prerouting"].rules = NATRules(p)
  BY <1>1, <1>2, <1>3, RoutingRuns
<1>8. MarksTable \in DOMAIN rs =>
        MarksTable \in DOMAIN k /\ k[MarksTable].chains["output"].rules = MarksRules(p)
  BY <1>1, <1>2, <1>3, RoutingRuns
<1> QED
  BY <1>4, <1>5, <1>6, <1>7, <1>8 DEF KernelRuns, k, rs
-----------------------------------------------------------------------------
(* The inductive invariant.                                                *)
Tracked(c) == c.peer \in Addresses /\ c.proto \in Protocols /\ c.iface \in Interfaces

TrafficInv ==
  /\ IsPresets(presets)
  /\ Loads(presets)
  /\ \A c \in connections : Tracked(c)
  /\ KernelRuns(kernel, presets)

LEMMA TrafficInvariant == Spec => []TrafficInv
<1>1. Init => TrafficInv
  <2> SUFFICES ASSUME Init PROVE TrafficInv
    OBVIOUS
  <2>1. /\ IsPresets(presets) /\ Loads(presets) /\ connections = {}
        /\ kernel = Apply(Bare, CompileTables(presets)) /\ DOMAIN Bare = {}
    BY PresetAssumption DEF Init, Bare
  <2>2. KernelRuns(Apply(Bare, CompileTables(presets)), presets)
    BY <2>1, ApplyRuns
  <2> QED
    BY <2>1, <2>2 DEF TrafficInv
<1>2. TrafficInv /\ [Next]_vars => TrafficInv'
  <2> SUFFICES ASSUME TrafficInv, [Next]_vars PROVE TrafficInv'
    OBVIOUS
  <2>1. ASSUME NEW p \in Stageable, PutInForce(p)
        PROVE  TrafficInv'
    <3>1. /\ IsPresets(p) /\ Loads(p) /\ presets' = p /\ connections' = connections
          /\ kernel' = Apply(kernel, CompileTables(p))
      BY <2>1, PresetAssumption DEF PutInForce
    <3>2. KernelRuns(Apply(kernel, CompileTables(p)), p)
      BY <3>1, ApplyRuns DEF TrafficInv, KernelRuns
    <3> QED
      BY <3>1, <3>2 DEF TrafficInv
  <2>2. ASSUME NEW k \in NewPackets, Arrive(k) \/ ArriveRedirected(k) \/ Leave(k)
        PROVE  TrafficInv'
    <3>1. \A from, to : Tracked(Connection(k, from, to))
      BY NewPacketType DEF Connection, Tracked
    <3>2. PICK from, to : Track(Connection(k, from, to))
      BY <2>2 DEF Arrive, ArriveRedirected, Leave
    <3> QED
      BY <3>1, <3>2 DEF Track, TrafficInv
  <2>3. ASSUME NEW c \in connections, Close(c)
        PROVE  TrafficInv'
    BY <2>3 DEF Close, TrafficInv
  <2>4. CASE UNCHANGED vars
    BY <2>4 DEF vars, TrafficInv
  <2> QED
    BY <2>1, <2>2, <2>3, <2>4 DEF Next
<1> QED
  BY <1>1, <1>2, PTL DEF Spec
-----------------------------------------------------------------------------
(* What the filters do, in a state of the invariant.                       *)
LEMMA InputIs ==
  ASSUME TrafficInv, NEW k
  PROVE  /\ k \in NewPackets => /\ InputVerdict(k) = "accept" => MayComeIn(presets, k)
                                /\ MayComeIn(presets, k) /\ ~Left(PresetsTable) => InputVerdict(k) = "accept"
         /\ Fits(AnyPacket, k) /\ k.state = "established" => InputVerdict(k) = "accept"
         /\ InputVerdict(k) \in {"accept", "drop"}
<1> DEFINE t == kernel[PresetsTable]
<1>1. IsPresets(presets) /\ KernelRuns(kernel, presets)
  BY DEF TrafficInv
<1>2. CASE PresetsTable \in DOMAIN kernel
  <2>1. PICK q : IsPresets(q) /\ RunsInput(t, q)
    BY <1>1, <1>2 DEF KernelRuns
  <2>2. InputVerdict(k) = Verdict(t, "input", k)
    BY <1>2 DEF InputVerdict
  <2> HIDE DEF t
  <2>3. /\ Fits(AnyPacket, k) /\ k.state = "established" => InputVerdict(k) = "accept"
        /\ InputVerdict(k) \in {"accept", "drop"}
    BY <2>1, <2>2, InputRuns
  <2>4. CASE HasFilterPresets(presets)
    <3>1. RunsInput(t, presets)
      BY <1>1, <2>4 DEF KernelRuns, t
    <3>2. k \in NewPackets => (InputVerdict(k) = "accept" <=> MayComeIn(presets, k))
      BY <1>1, <2>2, <3>1, InputRuns
    <3> QED
      BY <2>3, <3>2
  <2>5. CASE ~HasFilterPresets(presets)
    <3>1. MayComeIn(presets, k) /\ Left(PresetsTable)
      BY <1>2, <2>5, FilterTable DEF MayComeIn, HasFilterPresets, Left
    <3> QED
      BY <2>3, <3>1
  <2> QED
    BY <2>4, <2>5
<1>3. CASE PresetsTable \notin DOMAIN kernel
  <2>1. ~presets.deny
    BY <1>1, <1>3 DEF KernelRuns, HasFilterPresets
  <2> QED
    BY <1>3, <2>1 DEF InputVerdict, MayComeIn
<1> QED
  BY <1>2, <1>3

LEMMA OutputIs ==
  ASSUME TrafficInv, NEW k, Fits(AnyPacket, k), k.family = AddressFamily[k.peer]
  PROVE  /\ k.peer \in Blocked(presets) => OutputVerdict(k) = "drop"
         /\ k \in NewPackets =>
              /\ OutputVerdict(k) = "accept" => MayGoOut(presets, k)
              /\ MayGoOut(presets, k) /\ ~OutputIsLeft /\ k.peer \notin StillBlocked => OutputVerdict(k) = "accept"
         /\ k.state = "established" /\ k.peer \notin Blocked(presets) \cup StillBlocked /\ ~OutputIsLeft =>
              OutputVerdict(k) = "accept"
<1> DEFINE t == kernel[PresetsTable]
<1>1. IsPresets(presets) /\ Loads(presets) /\ KernelRuns(kernel, presets)
  BY DEF TrafficInv
<1>2. CASE Active(presets.outbound)
  <2>1. PresetsTable \in DOMAIN kernel /\ RunsOutput(t, presets)
    BY <1>1, <1>2 DEF KernelRuns, HasFilterPresets
  <2>2. OutputVerdict(k) = Verdict(t, "output", k)
    BY <2>1 DEF OutputVerdict
  <2>3. StillBlocked = Kept(t, presets)
    BY DEF StillBlocked, Kept
  <2> HIDE DEF t
  <2> QED
    BY <1>1, <1>2, <2>1, <2>2, <2>3, OutputRuns
<1>3. CASE ~Active(presets.outbound)
  <2>1. Blocked(presets) = {} /\ MayGoOut(presets, k)
    <3>1. CASE presets.outbound = None
      BY <3>1 DEF Blocked, MayGoOut
    <3>2. CASE presets.outbound # None
      <4>1. ~presets.outbound.restrict /\ presets.outbound.block = {} /\ presets.outbound.refs = {}
        BY <1>3, <3>2 DEF Active
      <4> QED
        BY <4>1 DEF Blocked, MayGoOut
    <3> QED
      BY <3>1, <3>2
  <2>2. ~OutputIsLeft => OutputVerdict(k) = "accept"
    BY <1>3 DEF OutputIsLeft, OutputVerdict, Verdict
  <2> QED
    BY <2>1, <2>2
<1> QED
  BY <1>2, <1>3

LEMMA NewPacketFits ==
  ASSUME NEW k \in NewPackets
  PROVE  Fits(AnyPacket, k) /\ k.family = AddressFamily[k.peer]
BY NewPacketType DEF Fits, AnyPacket

(* The chains do to a first packet what the presets say, for any presets   *)
(* one after another: no list loses a network when it is split by family,  *)
(* no default is missed, no rule shadows another that it should not, and   *)
(* what earlier presets left lets nothing through.                         *)
THEOREM FilterIsAlwaysAsConfigured == Spec => []FilterIsAsConfigured
<1>1. TrafficInv => FilterIsAsConfigured
  <2> SUFFICES ASSUME TrafficInv, NEW k \in NewPackets
               PROVE  /\ InputVerdict(k) = "accept" => MayComeIn(presets, k)
                      /\ OutputVerdict(k) = "accept" => MayGoOut(presets, k)
                      /\ MayComeIn(presets, k) /\ ~Left(PresetsTable) => InputVerdict(k) = "accept"
                      /\ MayGoOut(presets, k) /\ ~OutputIsLeft /\ k.peer \notin StillBlocked =>
                           OutputVerdict(k) = "accept"
    BY DEF FilterIsAsConfigured
  <2> QED
    BY NewPacketFits, InputIs, OutputIs
<1> QED
  BY <1>1, TrafficInvariant, PTL

LEMMA OpenPacket ==
  ASSUME NEW c, Tracked(c), NEW dport \in Ports, NEW over \in BOOLEAN
  PROVE  LET k == Packet(c, dport, over)
         IN  /\ Fits(AnyPacket, k) /\ k.peer = c.peer /\ k.state = "established"
             /\ k.family = AddressFamily[k.peer]
BY AddressAssumption DEF Packet, Tracked, Fits, AnyPacket

(* Whatever presets follow one another, what comes in on an open           *)
(* connection to the host is accepted, and what goes out unless its peer   *)
(* is blocked or an output chain or elements of a block set are left.      *)
THEOREM OpenConnectionsAreAlwaysKept == Spec => []OpenConnectionsAreKept
<1>1. TrafficInv => OpenConnectionsAreKept
  <2> SUFFICES ASSUME TrafficInv, NEW c \in connections, NEW dport \in Ports, NEW over \in BOOLEAN
               PROVE  /\ InputVerdict(Packet(c, dport, over)) = "accept"
                      /\ c.peer \notin Blocked(presets) \cup StillBlocked /\ ~OutputIsLeft =>
                           OutputVerdict(Packet(c, dport, over)) = "accept"
    BY DEF OpenConnectionsAreKept
  <2> DEFINE k == Packet(c, dport, over)
  <2>1. Tracked(c)
    BY DEF TrafficInv
  <2>2. /\ Fits(AnyPacket, k) /\ k.peer = c.peer /\ k.state = "established"
        /\ k.family = AddressFamily[k.peer]
    BY <2>1, OpenPacket
  <2> HIDE DEF k
  <2>3. /\ InputVerdict(k) = "accept"
        /\ k.peer \notin Blocked(presets) \cup StillBlocked /\ ~OutputIsLeft => OutputVerdict(k) = "accept"
    BY <2>2, InputIs, OutputIs
  <2> QED
    BY <2>2, <2>3 DEF k
<1> QED
  BY <1>1, TrafficInvariant, PTL

(* The host sends nothing to a blocked peer, whatever presets went before: *)
(* what a set kept from them only blocks more.                             *)
THEOREM BlockedAlwaysHearNothing == Spec => []BlockedHearNothing
<1>1. TrafficInv => BlockedHearNothing
  <2> SUFFICES ASSUME TrafficInv, NEW c \in connections, NEW dport \in Ports, NEW over \in BOOLEAN,
                      c.peer \in Blocked(presets)
               PROVE  OutputVerdict(Packet(c, dport, over)) = "drop"
    BY DEF BlockedHearNothing
  <2> DEFINE k == Packet(c, dport, over)
  <2>1. Tracked(c)
    BY DEF TrafficInv
  <2>2. Fits(AnyPacket, k) /\ k.peer = c.peer /\ k.family = AddressFamily[k.peer]
    BY <2>1, OpenPacket
  <2> HIDE DEF k
  <2>3. OutputVerdict(k) = "drop"
    BY <2>2, OutputIs
  <2> QED
    BY <2>3 DEF k
<1> QED
  BY <1>1, TrafficInvariant, PTL
-----------------------------------------------------------------------------
(* The cards of the services.                                              *)
LEMMA PromisedBy ==
  ASSUME NEW key, NEW ports, NEW from, NEW k
  PROVE  /\ Promised(Inbound(key, ports, from), k)
              <=> k.proto = "tcp" /\ k.dport \in ports /\ (from # {} => k.peer \in UNION from)
         /\ ~Promised(Closed(key), k)
         /\ Inbound(key, ports, from).key = key
<1>1. CASE from = {}
  BY <1>1 DEF Promised, Inbound, Closed
<1>2. CASE from # {}
  BY <1>2 DEF Promised, Inbound, Closed
<1> QED
  BY <1>1, <1>2

SshCard(p)  == IF p.ssh = None THEN Closed("ssh") ELSE Inbound("ssh", {CardPort(p.ssh.port, 22)}, p.ssh.from)
WebCard(p)  == IF p.caddy THEN Inbound("web", {80, 443}, {}) ELSE Closed("web")
DbCard(p)   == IF p.db = None THEN Closed("db") ELSE Inbound("db", {CardPort(p.db.port, 5432)}, p.db.from)
MailCard(p) == IF MailPorts(p.mail) = {} THEN Closed("mail") ELSE Inbound("mail", MailPorts(p.mail), {})

LEMMA CardsSay ==
  ASSUME NEW p, IsPresets(p), NEW k
  PROVE  /\ Promised(SshCard(p), k)
              <=> /\ p.ssh # None /\ k.proto = "tcp" /\ k.dport = SshPort(p.ssh)
                  /\ p.ssh.from # {} => k.peer \in UNION p.ssh.from
         /\ Promised(WebCard(p), k) <=> p.caddy /\ k.proto = "tcp" /\ k.dport \in {80, 443}
         /\ Promised(DbCard(p), k) <=> p.db # None /\ DbAdmits(p.db, k)
         /\ Promised(MailCard(p), k) <=> k.proto = "tcp" /\ k.dport \in p.mail
         /\ WebCard(p).key = "web" /\ DbCard(p).key = "db" /\ MailCard(p).key = "mail"
         /\ SshCard(p).key = "ssh"
<1> DEFINE S == {SshPort(p.ssh)}
           D == {DbPort(p.db)}
           W == {80, 443}
           ssh  == Inbound("ssh", S, p.ssh.from)
           web  == Inbound("web", W, {})
           base == Inbound("db", D, p.db.from)
           mail == Inbound("mail", p.mail, {})
<1>1. /\ Promised(ssh, k) <=> /\ k.proto = "tcp" /\ k.dport = SshPort(p.ssh)
                              /\ p.ssh.from # {} => k.peer \in UNION p.ssh.from
      /\ Promised(web, k) <=> k.proto = "tcp" /\ k.dport \in {80, 443}
      /\ Promised(base, k) <=> DbAdmits(p.db, k)
      /\ Promised(mail, k) <=> k.proto = "tcp" /\ k.dport \in p.mail
      /\ ssh.key = "ssh" /\ web.key = "web" /\ base.key = "db" /\ mail.key = "mail"
  <2>1. (k.dport \in S <=> k.dport = SshPort(p.ssh)) /\ (k.dport \in D <=> k.dport = DbPort(p.db))
    OBVIOUS
  <2> HIDE DEF S, D, W
  <2>2. /\ Promised(ssh, k) <=> k.proto = "tcp" /\ k.dport \in S /\ (p.ssh.from # {} => k.peer \in UNION p.ssh.from)
        /\ ssh.key = "ssh"
    BY PromisedBy
  <2>3. /\ Promised(web, k) <=> k.proto = "tcp" /\ k.dport \in W
        /\ web.key = "web"
    BY PromisedBy
  <2>4. /\ Promised(base, k) <=> k.proto = "tcp" /\ k.dport \in D /\ (p.db.from # {} => k.peer \in UNION p.db.from)
        /\ base.key = "db"
    <3>1. \A from : /\ Promised(Inbound("db", D, from), k)
                         <=> k.proto = "tcp" /\ k.dport \in D /\ (from # {} => k.peer \in UNION from)
                    /\ Inbound("db", D, from).key = "db"
      BY PromisedBy
    <3> QED
      BY <3>1, Zenon
  <2>5. /\ Promised(mail, k) <=> k.proto = "tcp" /\ k.dport \in p.mail
        /\ mail.key = "mail"
    BY PromisedBy
  <2> HIDE DEF ssh, web, base, mail
  <2> QED
    BY <2>1, <2>2, <2>3, <2>4, <2>5 DEF DbAdmits, W
<1>2. /\ SshCard(p) = IF p.ssh = None THEN Closed("ssh") ELSE ssh
      /\ WebCard(p) = IF p.caddy THEN web ELSE Closed("web")
      /\ DbCard(p) = IF p.db = None THEN Closed("db") ELSE base
      /\ MailCard(p) = IF p.mail = {} THEN Closed("mail") ELSE mail
  <2>1. MailPorts(p.mail) = p.mail
    BY DEF MailPorts, IsPresets
  <2> QED
    BY <2>1 DEF SshCard, WebCard, DbCard, MailCard, CardPort, SshPort, DbPort, Default
<1>3. \A key : ~Promised(Closed(key), k) /\ Closed(key).key = key
  BY PromisedBy DEF Closed
<1> HIDE DEF ssh, web, base, mail
<1>4. CASE p.caddy
  BY <1>1, <1>2, <1>3, <1>4
<1>5. CASE ~p.caddy
  BY <1>1, <1>2, <1>3, <1>5
<1> QED
  BY <1>4, <1>5

(* The cards promise what the presets let in, but for the limits of SSH.   *)
LEMMA CardsAgree ==
  ASSUME NEW p, IsPresets(p), p.deny, NEW k, k.iface # "lo"
  PROVE  /\ MayComeIn(p, k) => \E c \in ServiceCards(p) : Promised(c, k)
         /\ \A c \in ServiceCards(p) :
              /\ Promised(c, k)
              /\ ~(c.key = "ssh" /\ (p.ssh.interfaces # {} \/ p.ssh.limited))
              => MayComeIn(p, k)
<1>1. ServiceCards(p) = {SshCard(p), WebCard(p), DbCard(p), MailCard(p)}
  BY DEF ServiceCards, SshCard, WebCard, DbCard, MailCard
<1>2. MayComeIn(p, k) <=> \/ p.ssh # None /\ SshAdmits(p.ssh, k)
                          \/ Promised(WebCard(p), k) \/ Promised(DbCard(p), k) \/ Promised(MailCard(p), k)
  <2>1. k.dport \in p.mail \cup (IF p.caddy THEN {80, 443} ELSE {})
          <=> k.dport \in p.mail \/ (p.caddy /\ k.dport \in {80, 443})
    <3>1. CASE p.caddy
      BY <3>1
    <3>2. CASE ~p.caddy
      BY <3>2
    <3> QED
      BY <3>1, <3>2
  <2>2. /\ Promised(WebCard(p), k) <=> p.caddy /\ k.proto = "tcp" /\ k.dport \in {80, 443}
        /\ Promised(DbCard(p), k) <=> p.db # None /\ DbAdmits(p.db, k)
        /\ Promised(MailCard(p), k) <=> k.proto = "tcp" /\ k.dport \in p.mail
    BY CardsSay, ZenonT(30)
  <2> QED
    BY <2>1, <2>2, Zenon DEF MayComeIn
<1>3. p.ssh # None /\ SshAdmits(p.ssh, k) => Promised(SshCard(p), k)
  BY CardsSay, Zenon DEF SshAdmits
<1>4. Promised(SshCard(p), k) /\ ~(p.ssh.interfaces # {} \/ p.ssh.limited)
        => p.ssh # None /\ SshAdmits(p.ssh, k)
  <2>1. Promised(SshCard(p), k)
          <=> /\ p.ssh # None /\ k.proto = "tcp" /\ k.dport = SshPort(p.ssh)
              /\ p.ssh.from # {} => k.peer \in UNION p.ssh.from
    BY CardsSay
  <2> QED
    BY <2>1, Zenon DEF SshAdmits
<1>5. SshCard(p).key = "ssh"
  BY CardsSay
<1>6. MayComeIn(p, k) => \E c \in ServiceCards(p) : Promised(c, k)
  BY <1>1, <1>2, <1>3
<1>7. ASSUME NEW c \in ServiceCards(p), Promised(c, k),
             ~(c.key = "ssh" /\ (p.ssh.interfaces # {} \/ p.ssh.limited))
      PROVE  MayComeIn(p, k)
  <2>1. CASE c = SshCard(p)
    BY <1>2, <1>4, <1>5, <1>7, <2>1, Zenon
  <2>2. CASE c \in {WebCard(p), DbCard(p), MailCard(p)}
    BY <1>2, <1>7, <2>2
  <2> QED
    BY <1>1, <2>1, <2>2
<1> QED
  BY <1>6, <1>7, Zenon

(* Default-deny compiles to a table of filters.                            *)
LEMMA DenyIsNotLeft == presets.deny => ~Left(PresetsTable)
BY FilterTable DEF Left, HasFilterPresets

(* The dashboard's service cards, worked out beside the compiler, agree    *)
(* with what the compiled chain does to every packet from outside.         *)
THEOREM CardsAreAlwaysTrue == Spec => []CardsAreTrue
<1>1. TrafficInv => CardsAreTrue
  <2> SUFFICES ASSUME TrafficInv, presets.deny, NEW k \in FromOutside
               PROVE  /\ InputVerdict(k) = "accept" => \E c \in ServiceCards(presets) : Promised(c, k)
                      /\ (\E c \in ServiceCards(presets) : Promised(c, k) /\ ~Unstated(c))
                           => InputVerdict(k) = "accept"
    BY DEF CardsAreTrue
  <2>1. k \in NewPackets /\ k.iface # "lo" /\ IsPresets(presets)
    BY DEF FromOutside, TrafficInv
  <2>2. InputVerdict(k) = "accept" <=> MayComeIn(presets, k)
    BY <2>1, InputIs, DenyIsNotLeft
  <2>3. /\ MayComeIn(presets, k) => \E c \in ServiceCards(presets) : Promised(c, k)
        /\ \A c \in ServiceCards(presets) : Promised(c, k) /\ ~Unstated(c) => MayComeIn(presets, k)
    BY <2>1, CardsAgree, Zenon DEF Unstated
  <2> QED
    BY <2>2, <2>3
<1> QED
  BY <1>1, TrafficInvariant, PTL
-----------------------------------------------------------------------------
(* The ports on which Caddy listens in vain.                               *)
LEMMA PortsLetIn ==
  ASSUME NEW p, IsPresets(p), p.deny, NEW k, k.iface # "lo", k.proto = "tcp"
  PROVE  MayComeIn(p, k)
           <=> /\ k.dport \in AllowedInboundPorts(p)
               /\ \/ p.ssh # None /\ SshAdmits(p.ssh, k)
                  \/ p.db # None /\ DbAdmits(p.db, k)
                  \/ k.dport \in p.mail
                  \/ p.caddy /\ k.dport \in {80, 443}
<1> DEFINE S == IF p.ssh = None THEN {} ELSE {CardPort(p.ssh.port, 22)}
           C == IF p.caddy THEN {80, 443} ELSE {}
           D == IF p.db = None THEN {} ELSE {CardPort(p.db.port, 5432)}
<1>1. /\ k.dport \in S <=> p.ssh # None /\ k.dport = SshPort(p.ssh)
      /\ k.dport \in D <=> p.db # None /\ k.dport = DbPort(p.db)
  BY DEF SshPort, DbPort, CardPort, Default
<1>2. k.dport \in C <=> p.caddy /\ k.dport \in {80, 443}
  <2>1. CASE p.caddy
    BY <2>1
  <2>2. CASE ~p.caddy
    BY <2>2
  <2> QED
    BY <2>1, <2>2
<1>3. k.dport \in AllowedInboundPorts(p) <=> k.dport \in S \/ k.dport \in C \/ k.dport \in D \/ k.dport \in p.mail
  <2>1. AllowedInboundPorts(p) = S \cup C \cup D \cup p.mail
    BY DEF AllowedInboundPorts, MailPorts, IsPresets
  <2> HIDE DEF S, C, D
  <2> QED
    BY <2>1
<1>4. k.dport \in p.mail \cup C <=> k.dport \in p.mail \/ k.dport \in C
  <2> HIDE DEF C
  <2> QED
    OBVIOUS
<1> HIDE DEF S, D
<1> QED
  BY <1>1, <1>2, <1>3, <1>4, ZenonT(30) DEF MayComeIn, SshAdmits, DbAdmits

(* Every service that is on admits somebody: its list holds no network     *)
(* without an address, and SSH is not limited to the loopback interface.   *)
AdmitsSomebody(p) ==
  /\ p.ssh # None => /\ p.ssh.from # {} => UNION p.ssh.from # {}
                     /\ p.ssh.interfaces # {} => (p.ssh.interfaces \cap Interfaces) \ {"lo"} # {}
  /\ p.db # None => (p.db.from # {} => UNION p.db.from # {})

(* A TCP packet from outside.                                              *)
Knock(peer, iface, port) ==
  [peer |-> peer, family |-> AddressFamily[peer], proto |-> "tcp", dport |-> port,
   iface |-> iface, state |-> "new", over |-> FALSE]

LEMMA KnockType ==
  ASSUME NEW peer \in Addresses, NEW iface \in Interfaces, iface # "lo", NEW port \in Ports, port # 0
  PROVE  Knock(peer, iface, port) \in FromOutside
<1>1. AddressFamily[peer] \in Families
  BY AddressAssumption
<1> QED
  BY <1>1 DEF Knock, FromOutside, NewPackets, Packets, Protocols

LEMMA SomebodyKnocks ==
  ASSUME NEW p, IsPresets(p), p.deny, AdmitsSomebody(p), NEW peer \in Addresses,
         NEW iface \in Interfaces, iface # "lo",
         NEW port \in Ports, port # 0, port \in AllowedInboundPorts(p)
  PROVE  \E k \in FromOutside : k.proto = "tcp" /\ k.dport = port /\ MayComeIn(p, k)
<1> DEFINE S == IF p.ssh = None THEN {} ELSE {CardPort(p.ssh.port, 22)}
           C == IF p.caddy THEN {80, 443} ELSE {}
           D == IF p.db = None THEN {} ELSE {CardPort(p.db.port, 5432)}
<1>1. port \in S \/ port \in C \/ port \in D \/ port \in p.mail
  <2>1. AllowedInboundPorts(p) = S \cup C \cup D \cup p.mail
    BY DEF AllowedInboundPorts, MailPorts, IsPresets
  <2> HIDE DEF S, C, D
  <2> QED
    BY <2>1
<1>2. ASSUME NEW a \in Addresses, NEW i \in Interfaces, i # "lo",
             \/ p.ssh # None /\ SshAdmits(p.ssh, Knock(a, i, port))
             \/ p.db # None /\ DbAdmits(p.db, Knock(a, i, port))
             \/ port \in p.mail
             \/ p.caddy /\ port \in {80, 443}
      PROVE  \E k \in FromOutside : k.proto = "tcp" /\ k.dport = port /\ MayComeIn(p, k)
  <2> DEFINE k == Knock(a, i, port)
  <2>1. k \in FromOutside /\ k.proto = "tcp" /\ k.dport = port /\ k.iface # "lo"
    BY <1>2, KnockType DEF Knock
  <2>2. k.dport \in AllowedInboundPorts(p)
    BY <2>1
  <2> HIDE DEF k
  <2>3. MayComeIn(p, k)
    BY <1>2, <2>1, <2>2, PortsLetIn DEF k
  <2> QED
    BY <2>1, <2>3
<1>3. CASE port \in S
  <2>1. p.ssh # None /\ port = SshPort(p.ssh)
    BY <1>3 DEF SshPort, CardPort, Default
  <2>2. \E a \in Addresses : p.ssh.from # {} => a \in UNION p.ssh.from
    <3>1. p.ssh.from \subseteq Networks
      BY <2>1 DEF IsPresets
    <3>2. UNION p.ssh.from \subseteq Addresses
      BY <3>1 DEF Networks
    <3> QED
      BY <2>1, <3>2 DEF AdmitsSomebody
  <2>3. PICK a \in Addresses : p.ssh.from # {} => a \in UNION p.ssh.from
    BY <2>2
  <2>4. PICK i \in Interfaces : i # "lo" /\ (p.ssh.interfaces # {} => i \in p.ssh.interfaces)
    BY <2>1 DEF AdmitsSomebody
  <2>5. SshAdmits(p.ssh, Knock(a, i, port))
    <3> DEFINE k == Knock(a, i, port)
    <3>1. k.proto = "tcp" /\ k.dport = port /\ k.peer = a /\ k.iface = i /\ ~k.over
      BY DEF Knock
    <3> HIDE DEF k
    <3>2. SshAdmits(p.ssh, k)
      BY <2>1, <2>3, <2>4, <3>1, Zenon DEF SshAdmits
    <3> QED
      BY <3>2 DEF k
  <2> QED
    BY <1>2, <2>1, <2>4, <2>5
<1>4. CASE port \in D
  <2>1. p.db # None /\ port = DbPort(p.db)
    BY <1>4 DEF DbPort, CardPort, Default
  <2>2. \E a \in Addresses : p.db.from # {} => a \in UNION p.db.from
    <3>1. p.db.from \subseteq Networks
      BY <2>1 DEF IsPresets
    <3>2. UNION p.db.from \subseteq Addresses
      BY <3>1 DEF Networks
    <3> QED
      BY <2>1, <3>2 DEF AdmitsSomebody
  <2>3. PICK a \in Addresses : p.db.from # {} => a \in UNION p.db.from
    BY <2>2
  <2>4. DbAdmits(p.db, Knock(a, iface, port))
    BY <2>1, <2>3 DEF DbAdmits, Knock
  <2> QED
    BY <1>2, <2>1, <2>4
<1>5. CASE port \in C \/ port \in p.mail
  <2>1. port \in C => p.caddy /\ port \in {80, 443}
    <3>1. CASE p.caddy
      BY <3>1
    <3>2. CASE ~p.caddy
      BY <3>2
    <3> QED
      BY <3>1, <3>2
  <2> HIDE DEF C
  <2> QED
    BY <1>2, <1>5, <2>1
<1> QED
  BY <1>1, <1>3, <1>4, <1>5

LEMMA StaysConfigured == Spec => [](presets \in Booted \cup Stageable)
<1>1. Init => presets \in Booted \cup Stageable
  BY DEF Init
<1>2. presets \in Booted \cup Stageable /\ [Next]_vars => (presets \in Booted \cup Stageable)'
  BY DEF Next, vars, PutInForce, Arrive, ArriveRedirected, Leave, Track, Close
<1> QED
  BY <1>1, <1>2, PTL DEF Spec

(* The panel warns of exactly the ports that no packet reaches.            *)
THEOREM GapsAreAlwaysExact ==
  ASSUME Addresses # {}, Interfaces # {"lo"},
         \A p \in Booted \cup Stageable : AdmitsSomebody(p)
  PROVE  Spec => []GapsAreExact
<1> DEFINE Inv == TrafficInv /\ presets \in Booted \cup Stageable
<1>1. Spec => []Inv
  BY TrafficInvariant, StaysConfigured, PTL
<1>2. Inv => GapsAreExact
  <2> SUFFICES ASSUME TrafficInv, presets \in Booted \cup Stageable, presets.deny
               PROVE  CaddyPortGaps(presets, Ports) =
                        {port \in Ports \ {0} :
                           \A k \in FromOutside : k.proto = "tcp" /\ k.dport = port => InputVerdict(k) = "drop"}
    BY DEF GapsAreExact
  <2>1. IsPresets(presets) /\ AdmitsSomebody(presets)
    BY DEF TrafficInv
  <2>2. ASSUME NEW k \in FromOutside
        PROVE  InputVerdict(k) = "drop" <=> ~MayComeIn(presets, k)
    <3>1. k \in NewPackets
      BY DEF FromOutside
    <3> QED
      BY <3>1, InputIs, DenyIsNotLeft
  <2>3. ASSUME NEW port \in Ports \ {0}
        PROVE  port \notin AllowedInboundPorts(presets)
                 <=> \A k \in FromOutside : k.proto = "tcp" /\ k.dport = port => InputVerdict(k) = "drop"
    <3>1. ASSUME port \notin AllowedInboundPorts(presets), NEW k \in FromOutside, k.proto = "tcp", k.dport = port
          PROVE  InputVerdict(k) = "drop"
      <4>1. k.iface # "lo"
        BY DEF FromOutside
      <4> QED
        BY <2>1, <2>2, <3>1, <4>1, PortsLetIn
    <3>2. ASSUME port \in AllowedInboundPorts(presets)
          PROVE  \E k \in FromOutside : k.proto = "tcp" /\ k.dport = port /\ InputVerdict(k) # "drop"
      <4>1. PICK peer \in Addresses : TRUE
        OBVIOUS
      <4>2. PICK iface \in Interfaces : iface # "lo"
        BY InterfaceAssumption
      <4> QED
        BY <2>1, <2>2, <3>2, <4>1, <4>2, SomebodyKnocks
    <3> QED
      BY <3>1, <3>2
  <2> QED
    BY <2>3 DEF CaddyPortGaps, CaddyPorts
<1> QED
  BY <1>1, <1>2, PTL
-----------------------------------------------------------------------------
(* The outbound card: what its phrases mean is what the presets let out.   *)
LEMMA CardIsTrue ==
  ASSUME NEW k \in NewPackets, presets.outbound # None => presets.outbound.refs = {}
  PROVE  LET card == OutboundCard(presets.outbound)
             blocked == IF presets.outbound = None THEN {} ELSE UNION presets.outbound.block
         IN  /\ card.status = "open" => MayGoOut(presets, k)
             /\ k.iface # "lo" =>
                  (MayGoOut(presets, k)
                     <=> k.peer \notin blocked /\ \E phrase \in card.label : Means(phrase, k))
<1> DEFINE o == presets.outbound
           card == OutboundCard(o)
           blocked == IF o = None THEN {} ELSE UNION o.block
           said == \E phrase \in card.label : Means(phrase, k)
<1>1. Means("anything", k) /\ Means("anything except blocked", k) /\ ~Means("nothing", k)
  BY DEF Means
<1>4. /\ Means("dns", k) <=> k.proto \in {"tcp", "udp"} /\ k.dport = 53
      /\ Means("https", k) <=> k.proto = "tcp" /\ k.dport = 443
      /\ Means("http", k) <=> k.proto = "tcp" /\ k.dport = 80
      /\ Means("ntp", k) <=> k.proto = "udp" /\ k.dport = 123
      /\ Means("smtp", k) <=> k.proto = "tcp" /\ k.dport \in {25, 465, 587}
      /\ Means("ping", k) <=> k.proto = "ping"
      /\ Means("custom", k) <=> k.proto = "tcp" /\ k.dport \in o.custom
  BY DEF Means
<1> DEFINE Agrees == /\ card.status = "open" => MayGoOut(presets, k)
                     /\ k.iface # "lo" => (MayGoOut(presets, k) <=> k.peer \notin blocked /\ said)
<1>2. ASSUME o = None PROVE Agrees
  <2>1. card = [status |-> "open", label |-> {"anything"}] /\ Blocked(presets) = {}
    BY <1>2 DEF OutboundCard, Blocked
  <2>2. MayGoOut(presets, k) /\ blocked = {}
    BY <1>2, <2>1 DEF MayGoOut
  <2>3. said
    <3>1. "anything" \in card.label
      BY <2>1
    <3> QED
      BY <1>1, <3>1, Zenon
  <2> HIDE DEF card, blocked, said
  <2> QED
    BY <2>2, <2>3
<1>3. ASSUME o # None PROVE Agrees
  <2>1. Blocked(presets) = UNION o.block
    BY <1>3 DEF Blocked
  <2>2. MayGoOut(presets, k) <=> /\ k.peer \notin UNION o.block
                                 /\ o.restrict => k.iface = "lo" \/ k.dport \in OpenPorts(o, k.proto)
    BY <1>3, <2>1, Zenon DEF MayGoOut
  <2>3. CASE ~o.restrict /\ o.block = {}
    <3>1. card = [status |-> "open", label |-> {"anything"}]
      BY <2>3 DEF OutboundCard
    <3>2. said
      <4>1. "anything" \in card.label
        BY <3>1
      <4> QED
        BY <1>1, <4>1, Zenon
    <3> HIDE DEF said, card
    <3> QED
      BY <1>3, <2>2, <2>3, <3>2
  <2>4. CASE ~o.restrict /\ o.block # {}
    <3>1. card.status = "restricted" /\ card.label = {"anything except blocked"}
      BY <1>3, <2>4 DEF OutboundCard
    <3>2. said /\ card.status # "open"
      <4>1. "anything except blocked" \in card.label
        BY <3>1
      <4>2. card.status # "open"
        BY <3>1
      <4> QED
        BY <1>1, <4>1, <4>2, Zenon
    <3> HIDE DEF said, card
    <3> QED
      BY <1>3, <2>2, <2>4, <3>2
  <2>5. CASE o.restrict
    <3>1. /\ card.status = "restricted"
          /\ card.label = IF OutboundAllowedNames(o) = {} THEN {"nothing"} ELSE OutboundAllowedNames(o)
      BY <1>3, <2>5 DEF OutboundCard
    <3> DEFINE names == OutboundAllowedNames(o)
    <3>2. /\ names \subseteq {"dns", "https", "http", "ntp", "smtp", "ping", "custom"}
          /\ \A n \in {"dns", "https", "http", "ntp", "smtp", "ping"} : n \in names <=> n \in o.allow
          /\ "custom" \in names <=> o.custom # {}
      BY DEF OutboundAllowedNames
    <3> HIDE DEF names
    <3>3. k.dport \in OpenPorts(o, k.proto) <=> \E n \in names : Means(n, k)
      <4>1. ASSUME NEW n \in names, Means(n, k)
            PROVE  k.dport \in OpenPorts(o, k.proto)
        <5>1. \/ n = "dns" \/ n = "http" \/ n = "https" \/ n = "ntp" \/ n = "smtp" \/ n = "ping" \/ n = "custom"
          BY <3>2
        <5>2. n # "custom" => n \in o.allow
          BY <3>2, <5>1
        <5>3. \/ n = "dns" /\ Means("dns", k)
              \/ n = "http" /\ Means("http", k)
              \/ n = "https" /\ Means("https", k)
              \/ n = "ntp" /\ Means("ntp", k)
              \/ n = "smtp" /\ Means("smtp", k)
              \/ n = "ping" /\ Means("ping", k)
              \/ n = "custom" /\ Means("custom", k)
          BY <4>1, <5>1, Zenon
        <5> QED
          BY <1>4, <5>2, <5>3, OpenPortsOf
      <4>2. ASSUME k.dport \in OpenPorts(o, k.proto)
            PROVE  \E n \in names : Means(n, k)
        <5>1. \/ "dns" \in names /\ Means("dns", k)
              \/ "http" \in names /\ Means("http", k)
              \/ "https" \in names /\ Means("https", k)
              \/ "ntp" \in names /\ Means("ntp", k)
              \/ "smtp" \in names /\ Means("smtp", k)
              \/ "ping" \in names /\ Means("ping", k)
              \/ "custom" \in names /\ Means("custom", k)
          BY <1>4, <3>2, <4>2, OpenPortsOf
        <5> QED
          BY <5>1, Zenon
      <4> QED
        BY <4>1, <4>2
    <3>4. said <=> \E n \in names : Means(n, k)
      <4>1. CASE names = {}
        <5>1. card.label = {"nothing"}
          BY <3>1, <4>1 DEF names
        <5>2. ~said
          BY <1>1, <5>1, Zenon
        <5> QED
          BY <4>1, <5>2, Zenon
      <4>2. CASE names # {}
        <5>1. card.label = names
          BY <3>1, <4>2 DEF names
        <5> QED
          BY <5>1, Zenon
      <4> QED
        BY <4>1, <4>2
    <3> HIDE DEF said, card
    <3> QED
      BY <1>3, <2>2, <2>5, <3>1, <3>3, <3>4
  <2> QED
    BY <2>3, <2>4, <2>5
<1> QED
  BY <1>2, <1>3 DEF Agrees, card, blocked, said

(* The outbound card tells exactly what leaves the host, whatever the      *)
(* stanza is, unless it refers to block sets or an output chain is left.   *)
THEOREM OutboundCardIsAlwaysTrue == Spec => []OutboundCardIsTrue
<1>1. TrafficInv => OutboundCardIsTrue
  <2> SUFFICES ASSUME TrafficInv, ~OutputIsLeft, presets.outbound # None => presets.outbound.refs = {}
               PROVE  LET card == OutboundCard(presets.outbound)
                          blocked == IF presets.outbound = None THEN {} ELSE UNION presets.outbound.block
                      IN  /\ card.status = "open" => \A k \in NewPackets : OutputVerdict(k) = "accept"
                          /\ \A k \in FromOutside :
                               OutputVerdict(k) = "accept" <=>
                                 k.peer \notin blocked /\ \E phrase \in card.label : Means(phrase, k)
    BY DEF OutboundCardIsTrue
  <2>1. StillBlocked = {}
    <3>1. CASE ~Active(presets.outbound)
      BY <3>1 DEF StillBlocked
    <3>2. CASE Active(presets.outbound)
      <4>1. presets.outbound.refs = {}
        BY <3>2 DEF Active
      <4> QED
        BY <4>1 DEF StillBlocked
    <3> QED
      BY <3>1, <3>2
  <2>2. \A k \in NewPackets : OutputVerdict(k) = "accept" <=> MayGoOut(presets, k)
    BY <2>1, NewPacketFits, OutputIs
  <2>3. \A k \in FromOutside : k \in NewPackets /\ k.iface # "lo"
    BY DEF FromOutside
  <2> QED
    BY <2>2, <2>3, CardIsTrue, ZenonT(30)
<1> QED
  BY <1>1, TrafficInvariant, PTL
-----------------------------------------------------------------------------
(* For any list of forwards, however it is ordered, a packet that some of  *)
(* them apply to goes where one of these says, and no other is redirected  *)
(* by a table that the presets compile to.                                 *)
THEOREM ForwardsAlwaysReachTheirHosts == Spec => []ForwardsReachTheirHosts
<1>1. TrafficInv => ForwardsReachTheirHosts
  <2> SUFFICES ASSUME TrafficInv, NEW k \in NewPackets
               PROVE  LET targets == {<< f.to, ToPort(f) >> : f \in {g \in Range(presets.forwards) : Applies(g, k)}}
                      IN  IF targets # {} THEN Redirection(k) \in targets
                          ELSE Redirection(k) = None \/ Left(NATTable)
    BY DEF ForwardsReachTheirHosts
  <2> DEFINE s == presets.forwards
             n == Len(s)
             targets == {<< f.to, ToPort(f) >> : f \in {g \in Range(s) : Applies(g, k)}}
             rules == NATRules(presets)
             hits == Hits(rules, k, kernel[NATTable].sets)
  <2>1. IsPresets(presets) /\ KernelRuns(kernel, presets)
    BY DEF TrafficInv
  <2>2. PICK at : /\ DOMAIN s = 1..n /\ n \in Nat
                  /\ rules = [i \in 1..n |-> ForwardRule(s[at[i]])]
                  /\ at \in [1..n -> 1..n] /\ \A i \in 1..n : \E j \in 1..n : at[j] = i
    <3> HIDE DEF s
    <3>1. n \in Nat /\ DOMAIN s = 1..n
      BY <2>1, ForwardRules DEF s
    <3>2. \E at : /\ Rearranges(at, n)
                  /\ rules = [i \in 1..n |-> ForwardRule(s[at[i]])]
      BY <2>1, ForwardRules DEF s, NATRules
    <3> QED
      BY <3>1, <3>2 DEF Rearranges
  <2>3. Range(s) = {s[i] : i \in 1..n}
    BY <2>2 DEF Range
  <2>4. CASE k.iface = "lo"
    <3>1. targets = {}
      BY <2>4 DEF Applies
    <3> QED
      BY <2>4, <3>1 DEF Redirection
  <2>5. CASE NATTable \notin DOMAIN CompileTables(presets)
    <3>1. s = << >>
      BY <2>5, NATOf
    <3>2. targets = {}
      BY <3>1 DEF Range
    <3>3. Redirection(k) = None \/ Left(NATTable)
      BY <2>5 DEF Redirection, Left
    <3> QED
      BY <3>2, <3>3
  <2>6. CASE k.iface # "lo" /\ NATTable \in DOMAIN CompileTables(presets)
    <3>1. NATTable \in DOMAIN kernel /\ kernel[NATTable].chains["prerouting"].rules = rules
      BY <2>1, <2>6 DEF KernelRuns
    <3>2. Redirection(k) = IF hits = {} THEN None ELSE rules[Earliest(hits)].arg
      BY <2>6, <3>1 DEF Redirection, Redirect
    <3> HIDE DEF rules, s, n
    <3>3. hits = {i \in 1..n : Applies(s[at[i]], k)}
      BY <2>2, <2>6, ForwardMatches DEF Hits
    <3>4. hits = {} => targets = {}
      <4>1. ASSUME NEW i \in 1..n, Applies(s[i], k) PROVE hits # {}
        <5>1. PICK j \in 1..n : at[j] = i
          BY <2>2
        <5> QED
          BY <3>3, <4>1, <5>1
      <4> HIDE DEF hits
      <4> QED
        BY <2>3, <4>1
    <3>5. hits # {} => rules[Earliest(hits)].arg \in targets
      <4> SUFFICES ASSUME hits # {} PROVE rules[Earliest(hits)].arg \in targets
        OBVIOUS
      <4>1. hits \in SUBSET Nat
        BY <3>3
      <4>2. PICK e : e = Earliest(hits) /\ e \in hits
        BY <4>1, LeastOf DEF Earliest
      <4>3. e \in 1..n /\ Applies(s[at[e]], k)
        BY <3>3, <4>2
      <4>4. rules[e].arg = << s[at[e]].to, ToPort(s[at[e]]) >>
        BY <2>2, <2>6, <4>3, ForwardMatches
      <4> QED
        BY <2>2, <2>3, <4>2, <4>3, <4>4
    <3> HIDE DEF hits, targets
    <3>6. IF targets # {} THEN Redirection(k) \in targets ELSE Redirection(k) = None
      <4>1. hits # {} => targets # {}
        BY <3>5
      <4> QED
        BY <3>2, <3>4, <3>5, <4>1
    <3> QED
      BY <3>6 DEF targets, s
  <2> QED
    BY <2>4, <2>5, <2>6
<1> QED
  BY <1>1, TrafficInvariant, PTL
-----------------------------------------------------------------------------
(* The sort makes the file's order of marks irrelevant: whatever the list, *)
(* the last rule that a packet hits sets the largest of its marks.         *)
THEOREM LargestMarkAlwaysWins == Spec => []LargestMarkWins
<1>1. TrafficInv => LargestMarkWins
  <2> SUFFICES ASSUME TrafficInv, NEW k \in NewPackets
               PROVE  LET marks == {m.set : m \in {n \in Range(presets.marks) : Concerns(n, k)}}
                      IN  \/ Mark(k) = (IF marks = {} THEN 0 ELSE CHOOSE x \in marks : \A y \in marks : y <= x)
                          \/ Left(MarksTable)
    BY DEF LargestMarkWins
  <2> DEFINE s == presets.marks
             n == Len(s)
             marks == {m.set : m \in {g \in Range(s) : Concerns(g, k)}}
             rules == MarksRules(presets)
             hits == Hits(rules, k, kernel[MarksTable].sets)
  <2>1. IsPresets(presets) /\ KernelRuns(kernel, presets)
    BY DEF TrafficInv
  <2>2. PICK at : /\ DOMAIN s = 1..n /\ n \in Nat /\ \A i \in 1..n : s[i].set \in Nat
                  /\ rules = [i \in 1..n |-> MarkRule(s[at[i]])]
                  /\ at \in [1..n -> 1..n] /\ \A i \in 1..n : \E j \in 1..n : at[j] = i
                  /\ \A i, j \in 1..n : i < j => s[at[i]].set <= s[at[j]].set
    <3> HIDE DEF s
    <3>1. n \in Nat /\ DOMAIN s = 1..n /\ \A i \in 1..n : s[i].set \in Nat
      BY <2>1, MarkRules DEF s
    <3>2. \E at : /\ Rearranges(at, n)
                  /\ rules = [i \in 1..n |-> MarkRule(s[at[i]])]
                  /\ \A i, j \in 1..n : i < j => s[at[i]].set <= s[at[j]].set
      BY <2>1, MarkRules DEF s, MarksRules
    <3> QED
      BY <3>1, <3>2 DEF Rearranges
  <2>3. Range(s) = {s[i] : i \in 1..n}
    BY <2>2 DEF Range
  <2>4. CASE MarksTable \notin DOMAIN CompileTables(presets)
    <3>1. s = << >>
      BY <2>4, MarksOf
    <3>2. marks = {}
      BY <3>1 DEF Range
    <3>3. Mark(k) = 0 \/ Left(MarksTable)
      BY <2>4 DEF Mark, Left
    <3> QED
      BY <3>2, <3>3
  <2>5. CASE MarksTable \in DOMAIN CompileTables(presets)
    <3>1. MarksTable \in DOMAIN kernel /\ kernel[MarksTable].chains["output"].rules = rules
      BY <2>1, <2>5 DEF KernelRuns
    <3>2. Mark(k) = IF hits = {} THEN 0 ELSE rules[Latest(hits)].arg
      BY <3>1 DEF Mark, MarkOf
    <3> HIDE DEF rules, s, n
    <3>3. hits = {i \in 1..n : Concerns(s[at[i]], k)}
      BY <2>2, MarkMatches DEF Hits
    <3>4. marks = {s[at[i]].set : i \in hits}
      <4>1. ASSUME NEW i \in 1..n, Concerns(s[i], k) PROVE \E j \in hits : at[j] = i
        BY <2>2, <3>3, <4>1
      <4>2. ASSUME NEW j \in hits PROVE at[j] \in 1..n /\ Concerns(s[at[j]], k)
        BY <2>2, <3>3
      <4> HIDE DEF hits
      <4>3. marks = {s[i].set : i \in {j \in 1..n : Concerns(s[j], k)}}
        BY <2>3
      <4> QED
        BY <4>1, <4>2, <4>3
    <3>5. CASE hits = {}
      <4>1. marks = {}
        BY <3>4, <3>5
      <4> HIDE DEF hits, marks
      <4>2. Mark(k) = IF marks = {} THEN 0 ELSE CHOOSE x \in marks : \A y \in marks : y <= x
        BY <3>2, <3>5, <4>1
      <4> QED
        BY <4>2 DEF marks, s
    <3>6. CASE hits # {}
      <4> HIDE DEF hits, marks
      <4>1. hits \in SUBSET (0..n) /\ hits \subseteq 1..n
        BY <2>2, <3>3
      <4>2. PICK e \in hits : e = Latest(hits) /\ \A i \in hits : i <= e
        <5>1. \E e \in hits : \A i \in hits : i <= e
          BY <2>2, <3>6, <4>1, GreatestOf
        <5> QED
          BY <5>1 DEF Latest
      <4>3. Mark(k) = s[at[e]].set
        <5>1. rules[e].arg = s[at[e]].set
          BY <2>2, <4>1, MarkMatches
        <5> QED
          BY <3>2, <3>6, <4>2, <5>1
      <4>4. s[at[e]].set \in marks /\ marks \subseteq Nat /\ \A y \in marks : y <= s[at[e]].set
        <5>1. ASSUME NEW i \in hits PROVE s[at[i]].set \in Nat /\ s[at[i]].set <= s[at[e]].set
          <6>1. i \in 1..n /\ e \in 1..n /\ i <= e
            BY <4>1, <4>2
          <6>2. s[at[i]].set \in Nat /\ s[at[e]].set \in Nat
            BY <2>2, <6>1
          <6>3. CASE i = e
            BY <6>2, <6>3
          <6>4. CASE i < e
            BY <2>2, <6>1, <6>4
          <6> QED
            BY <2>2, <6>1, <6>3, <6>4
        <5> QED
          BY <3>4, <5>1
      <4>5. (CHOOSE x \in marks : \A y \in marks : y <= x) = s[at[e]].set
        <5> DEFINE g == CHOOSE x \in marks : \A y \in marks : y <= x
        <5>1. g \in marks /\ \A y \in marks : y <= g
          BY <4>4
        <5> HIDE DEF g
        <5>2. g = s[at[e]].set
          <6> DEFINE h == s[at[e]].set
          <6>1. h \in marks /\ marks \subseteq Nat /\ \A y \in marks : y <= h
            BY <4>4
          <6> HIDE DEF h
          <6>2. g <= h /\ h <= g /\ g \in Nat /\ h \in Nat
            BY <5>1, <6>1
          <6> QED
            BY <6>2 DEF h
        <5> QED
          BY <5>2 DEF g
      <4>6. Mark(k) = IF marks = {} THEN 0 ELSE CHOOSE x \in marks : \A y \in marks : y <= x
        BY <4>3, <4>4, <4>5
      <4> QED
        BY <4>6 DEF marks, s
    <3> QED
      BY <3>5, <3>6
  <2> QED
    BY <2>4, <2>5
<1> QED
  BY <1>1, TrafficInvariant, PTL
=============================================================================
