---------------------------- MODULE WizardProofs ----------------------------
(***************************************************************************)
(* What is entered on one page of the wizard leaves all other services     *)
(* alone, and the review stages what it has inputs for, whatever presets   *)
(* the panel starts from and whatever is entered.                          *)
(***************************************************************************)
EXTENDS Wizard, FiniteSetTheorems, TLAPS

LEMMA OverDomain == ASSUME NEW f, NEW g PROVE DOMAIN Over(f, g) = DOMAIN f \cup DOMAIN g
BY DEF Over

LEMMA OverFirst ==
  ASSUME NEW f, NEW g, NEW x \in DOMAIN f
  PROVE  x \in DOMAIN Over(f, g) /\ Over(f, g)[x] = f[x]
BY DEF Over

LEMMA OverSecond ==
  ASSUME NEW f, NEW g, NEW x \in DOMAIN g, x \notin DOMAIN f
  PROVE  x \in DOMAIN Over(f, g) /\ Over(f, g)[x] = g[x]
BY DEF Over

LEMMA RestrictIs ==
  ASSUME NEW f, NEW S
  PROVE  DOMAIN Restrict(f, S) = S /\ \A x \in S : Restrict(f, S)[x] = f[x]
BY DEF Restrict

(* If no row is left out the list is as it was.                            *)
LEMMA AllRows ==
  ASSUME NEW R, NEW rows \in Seq(R)
  PROVE  RowsAt(rows, DOMAIN rows) = rows
<1> DEFINE n == Len(rows)
<1>1. n \in Nat /\ DOMAIN rows = 1..n
  OBVIOUS
<1>2. IsFiniteSet(1..n) /\ Cardinality(1..n) = n
  BY <1>1, FS_Interval, SMTT(30)
<1>3. ASSUME NEW i \in 1..n PROVE Cardinality({j \in 1..n : j < i}) = i - 1
  <2>1. {j \in 1..n : j < i} = 1..(i - 1)
    BY <1>1
  <2>2. Cardinality(1..(i - 1)) = i - 1
    BY <1>1, FS_Interval
  <2> QED
    BY <2>1, <2>2
<1> DEFINE nth(k) == CHOOSE i \in 1..n : Cardinality({j \in 1..n : j < i}) = k - 1
<1>4. ASSUME NEW k \in 1..n PROVE nth(k) = k
  <2>1. \E i \in 1..n : Cardinality({j \in 1..n : j < i}) = k - 1
    BY <1>3
  <2>2. nth(k) \in 1..n /\ Cardinality({j \in 1..n : j < nth(k)}) = k - 1
    BY <2>1
  <2> HIDE DEF nth
  <2>3. nth(k) - 1 = k - 1
    BY <1>3, <2>2
  <2> QED
    BY <1>1, <2>2, <2>3
<1>5. RowsAt(rows, DOMAIN rows) = [k \in 1..n |-> rows[nth(k)]]
  BY <1>1, <1>2 DEF RowsAt
<1> HIDE DEF nth
<1>6. [k \in 1..n |-> rows[nth(k)]] = [k \in 1..n |-> rows[k]]
  BY <1>4
<1>7. [k \in 1..n |-> rows[k]] = rows
  BY <1>1
<1> QED
  BY <1>5, <1>6, <1>7
-----------------------------------------------------------------------------
(* What is read from a posted page, input by input.                        *)
PlainInputs ==
  {"default_deny_inbound", "ssh_port", "ssh_interfaces", "ssh_rate_limit", "db_port", "mail",
   "out_restrict", "out_allow", "out_custom_tcp", "out_block", "out_block_refs", "block_sets_raw", "ct"}

LEMMA BlankDomain ==
  DOMAIN Blank = PlainInputs \cup {"ssh_enabled", "ssh_from", "caddy_box", "db_enabled", "db_from", "pf", "mq", "mk"}
BY DEF Blank, PlainInputs

LEMMA ParsePlain ==
  ASSUME NEW post, NEW x \in PlainInputs
  PROVE  Parse(post)[x] = Over(post, Blank)[x]
<1> DEFINE value == Over(post, Blank)
           g == Restrict(value, DOMAIN Blank)
<1>1. g[x] = value[x] /\ x \in DOMAIN g
  BY BlankDomain, RestrictIs
<1> HIDE DEF g
<1> QED
  BY <1>1 DEF Parse, PlainInputs, g

(* Whether a service is on: as the radio button says, or the box.          *)
IsOn(post, radio, box) ==
  IF radio \in DOMAIN post /\ post[radio] # None THEN post[radio] # "off" ELSE Over(post, Blank)[box]

(* Whom it admits: nobody by name if the radio button says `any`.          *)
Trusted(post, radio, list) ==
  IF radio \in DOMAIN post /\ post[radio] = "any" THEN {} ELSE Over(post, Blank)[list]

LEMMA ParseServices ==
  ASSUME NEW post
  PROVE  /\ Parse(post).ssh_enabled = IsOn(post, "ssh_audience", "ssh_enabled")
         /\ Parse(post).ssh_from = Trusted(post, "ssh_audience", "ssh_from")
         /\ Parse(post).caddy_box = IsOn(post, "web_audience", "caddy_box")
         /\ Parse(post).db_enabled = IsOn(post, "db_audience", "db_enabled")
         /\ Parse(post).db_from = Trusted(post, "db_audience", "db_from")
<1> DEFINE value == Over(post, Blank)
           g == Restrict(value, DOMAIN Blank)
           asked(radio) == IF radio \in DOMAIN post THEN post[radio] ELSE None
           on(radio, box) == IF asked(radio) = None THEN value[box] ELSE asked(radio) # "off"
           trusted(radio, list) == IF asked(radio) = "any" THEN {} ELSE value[list]
<1>1. /\ g = [x \in DOMAIN Blank |-> g[x]]
      /\ {"ssh_enabled", "ssh_from", "caddy_box", "db_enabled", "db_from", "pf", "mq", "mk"} \subseteq DOMAIN g
  BY BlankDomain DEF Restrict
<1>2. \A radio, box : on(radio, box) = IsOn(post, radio, box)
  BY Zenon DEF IsOn
<1>3. \A radio, list : trusted(radio, list) = Trusted(post, radio, list)
  <2>1. None # "any"
    BY WizardAssumption
  <2> QED
    BY <2>1, Zenon DEF Trusted
<1> HIDE DEF g
<1>4. /\ Parse(post).ssh_enabled = on("ssh_audience", "ssh_enabled")
      /\ Parse(post).ssh_from = trusted("ssh_audience", "ssh_from")
      /\ Parse(post).caddy_box = on("web_audience", "caddy_box")
      /\ Parse(post).db_enabled = on("db_audience", "db_enabled")
      /\ Parse(post).db_from = trusted("db_audience", "db_from")
  BY <1>1 DEF Parse, g
<1> HIDE DEF on, trusted
<1> QED
  BY <1>2, <1>3, <1>4

LEMMA ParseRows ==
  ASSUME NEW post
  PROVE  LET value == Over(post, Blank)
         IN  /\ Parse(post).pf = RowsAt(value.pf, {i \in DOMAIN value.pf : value.pf[i].ext # 0 \/ value.pf[i].to # None})
             /\ Parse(post).mq = RowsAt(value.mq, {i \in DOMAIN value.mq : value.mq[i].oif # None \/ value.mq[i].source # None})
             /\ Parse(post).mk = RowsAt(value.mk, {i \in DOMAIN value.mk : value.mk[i].name # None \/ value.mk[i].set # 0})
<1> DEFINE value == Over(post, Blank)
           g == Restrict(value, DOMAIN Blank)
           pf == RowsAt(value.pf, {i \in DOMAIN value.pf : value.pf[i].ext # 0 \/ value.pf[i].to # None})
           mq == RowsAt(value.mq, {i \in DOMAIN value.mq : value.mq[i].oif # None \/ value.mq[i].source # None})
           mk == RowsAt(value.mk, {i \in DOMAIN value.mk : value.mk[i].name # None \/ value.mk[i].set # 0})
<1>1. /\ g = [x \in DOMAIN Blank |-> g[x]]
      /\ {"ssh_enabled", "ssh_from", "caddy_box", "db_enabled", "db_from", "pf", "mq", "mk"} \subseteq DOMAIN g
  BY BlankDomain DEF Restrict
<1>2. /\ Parse(post).pf = pf
      /\ Parse(post).mq = mq
      /\ Parse(post).mk = mk
  <2> HIDE DEF g
  <2> QED
    BY <1>1 DEF Parse, g
<1> QED
  BY <1>2

LEMMA ParseType ==
  ASSUME NEW post, WellFormed(Over(post, Blank))
  PROVE  WellFormed(Parse(post))
<1> DEFINE value == Over(post, Blank)
           form == Parse(post)
<1>1. \A x \in PlainInputs : form[x] = value[x]
  BY ParsePlain
<1>2. /\ form.default_deny_inbound = value.default_deny_inbound
      /\ form.ssh_port = value.ssh_port /\ form.ssh_interfaces = value.ssh_interfaces
      /\ form.ssh_rate_limit = value.ssh_rate_limit /\ form.db_port = value.db_port
      /\ form.out_restrict = value.out_restrict /\ form.out_allow = value.out_allow
      /\ form.out_custom_tcp = value.out_custom_tcp /\ form.out_block = value.out_block
      /\ form.out_block_refs = value.out_block_refs /\ form.block_sets_raw = value.block_sets_raw
  BY <1>1 DEF PlainInputs
<1>3. /\ form.ssh_enabled \in BOOLEAN /\ form.caddy_box \in BOOLEAN /\ form.db_enabled \in BOOLEAN
      /\ form.ssh_from \subseteq Cidrs /\ form.db_from \subseteq Cidrs
  <2> HIDE DEF form, value
  <2>1. {value.ssh_enabled, value.caddy_box, value.db_enabled} \subseteq BOOLEAN
        /\ value.ssh_from \subseteq Cidrs /\ value.db_from \subseteq Cidrs
    BY DEF WellFormed, value
  <2>2. \A radio : \A box : value[box] \in BOOLEAN => IsOn(post, radio, box) \in BOOLEAN
    BY DEF IsOn, value
  <2>3. \A radio : \A list : value[list] \subseteq Cidrs => Trusted(post, radio, list) \subseteq Cidrs
    BY DEF Trusted, value
  <2> QED
    BY <2>1, <2>2, <2>3, ParseServices DEF form
<1> HIDE DEF form
<1> QED
  BY <1>2, <1>3 DEF WellFormed, form
-----------------------------------------------------------------------------
(* Block sets survive as text: no set is without networks, and all of one  *)
(* are of its family.                                                      *)
LEMMA BlockSetsRoundTrip ==
  ASSUME NEW p, WellTyped(p), NftAccepts(p), \A s \in DOMAIN p.blockSets : p.blockSets[s].cidrs # {}
  PROVE  ParseBlockSets(Lines(p.blockSets)) = p.blockSets
<1> DEFINE sets == p.blockSets
           lines == Lines(sets)
           networks(name) == {l[2] : l \in {m \in lines : m[1] = name}}
<1>1. /\ \A s \in DOMAIN sets : sets[s] \in [family : Families, cidrs : SUBSET Cidrs]
      /\ \A s \in DOMAIN sets : sets[s].cidrs # {}
      /\ \A s \in DOMAIN sets : OfFamily(sets[s].cidrs, sets[s].family) = sets[s].cidrs
      /\ sets = [s \in DOMAIN sets |-> sets[s]]
  BY DEF WellTyped, NftAccepts
<1> HIDE DEF sets
<1>2. \A l : l \in lines <=> \E s \in DOMAIN sets : \E c \in sets[s].cidrs : l = << s, c >>
  BY DEF Lines
<1> HIDE DEF lines
<1>3. {l[1] : l \in lines} = DOMAIN sets
  <2>1. ASSUME NEW l \in lines PROVE l[1] \in DOMAIN sets
    BY <1>2
  <2>2. ASSUME NEW s \in DOMAIN sets PROVE \E l \in lines : l[1] = s
    <3>1. PICK c \in sets[s].cidrs : TRUE
      BY <1>1
    <3>2. << s, c >> \in lines
      BY <1>2
    <3> QED
      BY <3>2
  <2> QED
    BY <2>1, <2>2
<1>4. ASSUME NEW s \in DOMAIN sets PROVE networks(s) = sets[s].cidrs
  <2>1. ASSUME NEW l \in lines, l[1] = s PROVE l[2] \in sets[s].cidrs
    BY <1>2, <2>1
  <2>2. ASSUME NEW c \in sets[s].cidrs PROVE c \in networks(s)
    <3>1. << s, c >> \in lines /\ << s, c >>[1] = s /\ << s, c >>[2] = c
      BY <1>2
    <3> QED
      BY <3>1, Zenon
  <2>3. ASSUME NEW c \in networks(s) PROVE c \in sets[s].cidrs
    BY <2>1, <2>3
  <2> HIDE DEF networks
  <2> QED
    BY <2>2, <2>3
<1>5. ASSUME NEW s \in DOMAIN sets
      PROVE  (IF OfFamily(sets[s].cidrs, "v4") # {} THEN "v4" ELSE "v6") = sets[s].family
  <2> DEFINE C == sets[s].cidrs
             F == sets[s].family
  <2>1. C \subseteq Cidrs /\ C # {} /\ F \in Families /\ OfFamily(C, F) = C
    BY <1>1
  <2> SUFFICES (IF OfFamily(C, "v4") # {} THEN "v4" ELSE "v6") = F
    OBVIOUS
  <2> HIDE DEF C, F
  <2>2. CASE F = "v4"
    BY <2>1, <2>2
  <2>3. CASE F = "v6"
    <3>1. ASSUME NEW c \in C PROVE c \notin OfFamily(C, "v4")
      <4>1. PICK a \in c : TRUE
        BY <2>1 DEF Cidrs
      <4>2. AddressFamily[a] = "v6"
        BY <2>1, <2>3 DEF OfFamily
      <4> QED
        BY <4>2 DEF OfFamily
    <3>2. OfFamily(C, "v4") = {}
      BY <3>1 DEF OfFamily
    <3> QED
      BY <2>3, <3>2
  <2> QED
    BY <2>1, <2>2, <2>3 DEF Families
<1> DEFINE parsed == [name \in {l[1] : l \in lines} |->
                        [family |-> IF OfFamily(networks(name), "v4") # {} THEN "v4" ELSE "v6",
                         cidrs  |-> networks(name)]]
<1>6. ParseBlockSets(lines) = parsed
  BY DEF ParseBlockSets
<1> HIDE DEF networks
<1>7. \A s \in DOMAIN sets : parsed[s] = sets[s]
  BY <1>1, <1>3, <1>4, <1>5
<1>8. DOMAIN parsed = DOMAIN sets /\ parsed = [s \in DOMAIN parsed |-> parsed[s]]
  BY <1>3
<1> HIDE DEF parsed
<1>9. parsed = sets
  BY <1>1, <1>7, <1>8
<1> QED
  BY <1>6, <1>9 DEF lines, sets
-----------------------------------------------------------------------------
(* A form says of one kind of service what these presets say, and no page  *)
(* has lost a block set.                                                   *)
Agrees(kind, form, p) == \A x \in Fields(kind) : form[x] = FormFromPresets(p)[x]

Sound(p) == WellTyped(p) /\ Validate(p) /\ NftAccepts(p)

SetsShow(p) == \A s \in DOMAIN p.blockSets : p.blockSets[s].cidrs # {}

LEMMA FormIs ==
  ASSUME NEW p
  PROVE  LET F == FormFromPresets(p)
         IN  /\ F.ssh_enabled = (p.ssh # None)
             /\ F.db_enabled = (p.db # None)
             /\ p.ssh # None => /\ F.ssh_port = SshPort(p.ssh) /\ F.ssh_from = p.ssh.from
                                /\ F.ssh_interfaces = p.ssh.interfaces
             /\ p.ssh # None /\ p.ssh.limited \in BOOLEAN => F.ssh_rate_limit = p.ssh.limited
             /\ p.db # None => F.db_port = DbPort(p.db) /\ F.db_from = p.db.from
<1> DEFINE F == FormFromPresets(p)
<1>1. F.ssh_enabled = (p.ssh # None)
  BY SMT DEF FormFromPresets
<1>2. F.db_enabled = (p.db # None)
  BY SMT DEF FormFromPresets
<1>3. ASSUME p.ssh # None
      PROVE  F.ssh_port = SshPort(p.ssh) /\ F.ssh_from = p.ssh.from /\ F.ssh_interfaces = p.ssh.interfaces
  BY <1>3, SMT DEF FormFromPresets
<1>4. ASSUME p.ssh # None, p.ssh.limited \in BOOLEAN PROVE F.ssh_rate_limit = p.ssh.limited
  BY <1>4, SMT DEF FormFromPresets
<1>5. ASSUME p.db # None PROVE F.db_port = DbPort(p.db) /\ F.db_from = p.db.from
  BY <1>5, SMT DEF FormFromPresets
<1> QED
  BY <1>1, <1>2, <1>3, <1>4, <1>5, Zenon

(* A port that is not given has a default, and then it is given.           *)
LEMMA PortIs == ASSUME NEW n, IsPort(n) PROVE n \in Int /\ n # 0
BY SMT DEF IsPort

LEMMA DefaultPorts == IsPort(22) /\ IsPort(5432)
BY SMT DEF IsPort, MaxPort

LEMMA ValidPort ==
  ASSUME NEW n, PortOrZero(n), NEW d, IsPort(d)
  PROVE  IsPort(Default(n, d)) /\ Default(Default(n, d), d) = Default(n, d)
BY PortIs DEF Default, PortOrZero

LEMMA SshRoundTrip ==
  ASSUME NEW p, Sound(p), NEW form, Agrees("ssh", form, p)
  PROVE  LET ssh == ToPresets(form).ssh
         IN  /\ ssh = None <=> p.ssh = None
             /\ p.ssh # None => PortOrZero(ssh.port) /\ SshRules(ssh) = SshRules(p.ssh)
<1> DEFINE F == FormFromPresets(p)
<1>1. /\ form.ssh_enabled = F.ssh_enabled /\ form.ssh_port = F.ssh_port /\ form.ssh_from = F.ssh_from
      /\ form.ssh_interfaces = F.ssh_interfaces /\ form.ssh_rate_limit = F.ssh_rate_limit
  BY DEF Agrees, Fields
<1>2. CASE p.ssh = None
  <2>1. ~form.ssh_enabled
    BY <1>1, <1>2, FormIs
  <2> QED
    BY <1>2, <2>1 DEF ToPresets
<1>3. CASE p.ssh # None
  <2>1. p.ssh \in SshStanzas
    BY <1>3 DEF Sound, WellTyped, Optional
  <2>2. /\ form.ssh_enabled /\ form.ssh_port = SshPort(p.ssh) /\ form.ssh_from = p.ssh.from
        /\ form.ssh_interfaces = p.ssh.interfaces /\ form.ssh_rate_limit = p.ssh.limited
    BY <1>1, <1>3, <2>1, FormIs DEF SshStanzas
  <2> DEFINE ssh == [port |-> SshPort(p.ssh), from |-> p.ssh.from,
                     interfaces |-> p.ssh.interfaces, limited |-> p.ssh.limited]
  <2>3. SshPort(p.ssh) \in Int /\ Default(SshPort(p.ssh), 22) = SshPort(p.ssh)
        /\ PortOrZero(SshPort(p.ssh))
    <3>1. PortOrZero(p.ssh.port)
      BY <1>3 DEF Sound, Validate
    <3> QED
      BY <3>1, ValidPort, DefaultPorts, PortIs DEF SshPort, PortOrZero
  <2>4. ToPresets(form).ssh = ssh
    BY <2>2, <2>3 DEF ToPresets
  <2>5. ssh # None
    <3>1. ssh \in SshStanzas
      BY <2>1, <2>3 DEF SshStanzas
    <3> QED
      BY <3>1, WizardAssumption
  <2>6. SshRules(ssh) = SshRules(p.ssh)
    <3>1. /\ ssh.from = p.ssh.from /\ ssh.interfaces = p.ssh.interfaces /\ ssh.limited = p.ssh.limited
          /\ SshPort(ssh) = SshPort(p.ssh)
      BY <2>3 DEF SshPort
    <3> HIDE DEF ssh
    <3> QED
      BY <3>1 DEF SshRules
  <2>7. PortOrZero(ssh.port)
    BY <2>3
  <2> HIDE DEF ssh
  <2> QED
    BY <1>3, <2>4, <2>5, <2>6, <2>7
<1> QED
  BY <1>2, <1>3

LEMMA DbRoundTrip ==
  ASSUME NEW p, Sound(p), NEW form, Agrees("db", form, p)
  PROVE  LET db == ToPresets(form).db
         IN  /\ db = None <=> p.db = None
             /\ p.db # None => PortOrZero(db.port) /\ DbRules(db) = DbRules(p.db)
<1> DEFINE F == FormFromPresets(p)
<1>1. form.db_enabled = F.db_enabled /\ form.db_port = F.db_port /\ form.db_from = F.db_from
  BY DEF Agrees, Fields
<1>2. CASE p.db = None
  <2>1. ~form.db_enabled
    BY <1>1, <1>2, FormIs
  <2> QED
    BY <1>2, <2>1 DEF ToPresets
<1>3. CASE p.db # None
  <2>1. p.db \in DbStanzas
    BY <1>3 DEF Sound, WellTyped, Optional
  <2>2. form.db_enabled /\ form.db_port = DbPort(p.db) /\ form.db_from = p.db.from
    BY <1>1, <1>3, FormIs
  <2> DEFINE db == [port |-> DbPort(p.db), from |-> p.db.from]
  <2>3. DbPort(p.db) \in Int /\ Default(DbPort(p.db), 5432) = DbPort(p.db) /\ PortOrZero(DbPort(p.db))
    <3>1. PortOrZero(p.db.port)
      BY <1>3 DEF Sound, Validate
    <3> QED
      BY <3>1, ValidPort, DefaultPorts, PortIs DEF DbPort, PortOrZero
  <2>4. ToPresets(form).db = db
    BY <2>2, <2>3 DEF ToPresets
  <2>5. db # None
    <3>1. db \in DbStanzas
      BY <2>1, <2>3 DEF DbStanzas
    <3> QED
      BY <3>1, WizardAssumption
  <2>6. DbRules(db) = DbRules(p.db)
    <3>1. db.from = p.db.from /\ DbPort(db) = DbPort(p.db)
      BY <2>3 DEF DbPort
    <3> HIDE DEF db
    <3> QED
      BY <3>1 DEF DbRules
  <2>7. PortOrZero(db.port)
    BY <2>3
  <2> HIDE DEF db
  <2> QED
    BY <1>3, <2>4, <2>5, <2>6, <2>7
<1> QED
  BY <1>2, <1>3

(* An outbound stanza that restricts, blocks and allows nothing is lost,   *)
(* and has no effect.                                                      *)
LEMMA OutboundRoundTrip ==
  ASSUME NEW p, Sound(p), SetsShow(p), NEW form, Agrees("outbound", form, p)
  PROVE  LET q == ToPresets(form)
         IN  /\ q.blockSets = p.blockSets
             /\ q.outbound \in {None, p.outbound}
             /\ Active(p.outbound) => q.outbound = p.outbound
             /\ Active(q.outbound) <=> Active(p.outbound)
<1> DEFINE F == FormFromPresets(p)
           o == [restrict |-> form.out_restrict, allow |-> form.out_allow, custom |-> form.out_custom_tcp,
                 block |-> form.out_block, refs |-> form.out_block_refs]
<1>1. /\ form.out_restrict = F.out_restrict /\ form.out_allow = F.out_allow
      /\ form.out_custom_tcp = F.out_custom_tcp /\ form.out_block = F.out_block
      /\ form.out_block_refs = F.out_block_refs /\ form.block_sets_raw = F.block_sets_raw
  BY DEF Agrees, Fields
<1>2. ToPresets(form).blockSets = p.blockSets
  <2>1. F.block_sets_raw = Lines(p.blockSets)
    BY SMT DEF FormFromPresets
  <2>2. ToPresets(form).blockSets = ParseBlockSets(form.block_sets_raw)
    BY SMT DEF ToPresets
  <2> QED
    BY <1>1, <2>1, <2>2, BlockSetsRoundTrip DEF Sound, SetsShow
<1>3. ToPresets(form).outbound = IF Active(o) \/ o.allow # {} \/ o.custom # {} THEN o ELSE None
  <2>1. ToPresets(form).outbound = ToOutbound(form)
    BY SMT DEF ToPresets
  <2> QED
    BY <2>1, Zenon DEF ToOutbound
<1>4. CASE p.outbound = None
  <2>1. ~F.out_restrict /\ F.out_allow = {} /\ F.out_custom_tcp = {} /\ F.out_block = {} /\ F.out_block_refs = {}
    <3>1. F.out_restrict = (p.outbound # None /\ p.outbound.restrict)
      BY SMT DEF FormFromPresets
    <3>2. F.out_allow = {} /\ F.out_custom_tcp = {} /\ F.out_block = {} /\ F.out_block_refs = {}
      BY <1>4, SMT DEF FormFromPresets
    <3> QED
      BY <1>4, <3>1, <3>2, Zenon
  <2>2. ~Active(o) /\ o.allow = {} /\ o.custom = {}
    BY <1>1, <2>1 DEF Active
  <2> HIDE DEF o
  <2>3. ToPresets(form).outbound = None
    BY <1>3, <2>2
  <2> QED
    BY <1>2, <1>4, <2>3 DEF Active
<1>5. CASE p.outbound # None
  <2>1. p.outbound \in Outbounds
    BY <1>5 DEF Sound, WellTyped, Optional
  <2>2. /\ F.out_restrict = p.outbound.restrict /\ F.out_allow = p.outbound.allow
        /\ F.out_custom_tcp = p.outbound.custom /\ F.out_block = p.outbound.block
        /\ F.out_block_refs = p.outbound.refs
    <3>1. p.outbound.restrict \in BOOLEAN
      BY <2>1 DEF Outbounds
    <3> QED
      BY <1>5, <3>1, SMT DEF FormFromPresets
  <2>3. o = p.outbound
    BY <1>1, <2>1, <2>2 DEF Outbounds
  <2> HIDE DEF o
  <2> QED
    BY <1>2, <1>3, <1>5, <2>3 DEF Active
<1> QED
  BY <1>4, <1>5

LEMMA PlainRoundTrip ==
  ASSUME NEW p, NEW form
  PROVE  /\ Agrees("protection", form, p) => ToPresets(form).deny = p.deny
         /\ Agrees("web", form, p) => ToPresets(form).caddy = p.caddy
         /\ Agrees("mail", form, p) => ToPresets(form).mail = p.mail
         /\ Agrees("nat", form, p) => ToPresets(form).forwards = p.forwards /\ ToPresets(form).masquerade = p.masquerade
         /\ Agrees("marks", form, p) => ToPresets(form).marks = p.marks
         /\ Agrees("ct", form, p) => ToPresets(form).helpers = p.helpers
<1>1. LET F == FormFromPresets(p)
      IN  /\ F.default_deny_inbound = p.deny /\ F.caddy_box = p.caddy /\ F.mail = p.mail
          /\ F.pf = p.forwards /\ F.mq = p.masquerade /\ F.mk = p.marks /\ F.ct = p.helpers
  BY SMT DEF FormFromPresets
<1>2. LET q == ToPresets(form)
      IN  /\ q.deny = form.default_deny_inbound /\ q.caddy = form.caddy_box /\ q.mail = form.mail
          /\ q.forwards = form.pf /\ q.masquerade = form.mq /\ q.marks = form.mk /\ q.helpers = form.ct
  BY SMT DEF ToPresets
<1>3. /\ "default_deny_inbound" \in Fields("protection") /\ "caddy_box" \in Fields("web")
      /\ "mail" \in Fields("mail") /\ "pf" \in Fields("nat") /\ "mq" \in Fields("nat")
      /\ "mk" \in Fields("marks") /\ "ct" \in Fields("ct")
  BY DEF Fields
<1> QED
  BY <1>1, <1>2, <1>3 DEF Agrees

(* A form that says of a kind of service what the presets say has the same *)
(* effect on it.                                                           *)
LEMMA RoundTrip ==
  ASSUME NEW p, Sound(p), SetsShow(p), NEW form, NEW kind \in Kinds, Agrees(kind, form, p)
  PROVE  Effect(kind, ToPresets(form)) = Effect(kind, p)
<1> DEFINE q == ToPresets(form)
<1>1. CASE kind \in {"protection", "web", "mail", "nat", "marks", "ct"}
  BY <1>1, PlainRoundTrip DEF Effect
<1>2. CASE kind = "ssh"
  BY <1>2, SshRoundTrip DEF Effect
<1>3. CASE kind = "db"
  BY <1>3, DbRoundTrip DEF Effect
<1>4. CASE kind = "outbound"
  BY <1>4, OutboundRoundTrip DEF Effect
<1> QED
  BY <1>1, <1>2, <1>3, <1>4 DEF Kinds

LEMMA AsShownIsValid ==
  ASSUME NEW p, Sound(p), SetsShow(p), NEW form, \A kind \in Kinds : Agrees(kind, form, p)
  PROVE  Validate(ToPresets(form))
<1> DEFINE q == ToPresets(form)
<1>1. q.ssh # None => PortOrZero(q.ssh.port)
  BY SshRoundTrip DEF Kinds
<1>2. q.db # None => PortOrZero(q.db.port)
  BY DbRoundTrip DEF Kinds
<1>3. q.outbound \in {None, p.outbound} /\ q.blockSets = p.blockSets
  BY OutboundRoundTrip DEF Kinds
<1>4. q.forwards = p.forwards /\ q.masquerade = p.masquerade /\ q.marks = p.marks
  BY PlainRoundTrip DEF Kinds
<1>5. Validate(p)
  BY DEF Sound
<1> HIDE DEF q
<1>6. ValidRouting(q)
  BY <1>4, <1>5 DEF Validate, ValidRouting
<1>7. q.outbound # None =>
        /\ \A n \in q.outbound.custom : IsPort(n)
        /\ q.outbound.refs \subseteq DOMAIN q.blockSets
  BY <1>3, <1>5 DEF Validate
<1>8. Validate(q)
  BY <1>1, <1>2, <1>6, <1>7 DEF Validate
<1> QED
  BY <1>8 DEF q
-----------------------------------------------------------------------------
(* Which inputs are whose.                                                 *)
LEMMA FormDomain == ASSUME NEW p PROVE DOMAIN FormFromPresets(p) = DOMAIN Blank
<1>1. DOMAIN FormFromPresets(p) = PlainInputs \cup {"ssh_enabled", "ssh_from", "caddy_box", "db_enabled", "db_from", "pf", "mq", "mk"}
  BY SMT DEF FormFromPresets, PlainInputs
<1> QED
  BY <1>1, BlankDomain

LEMMA FieldsAreInputs == ASSUME NEW kind \in Kinds PROVE Fields(kind) \subseteq DOMAIN Blank
BY BlankDomain DEF Fields, Kinds, PlainInputs

Radios == {"ssh_audience", "web_audience", "db_audience"}

LEMMA RadiosAreNotFields == Radios \cap DOMAIN Blank = {}
BY BlankDomain DEF Radios, PlainInputs

LEMMA InputsAreSeparate ==
  ASSUME NEW k \in Kinds, NEW kind \in Kinds, k # kind
  PROVE  Inputs(k) \cap Inputs(kind) = {}
<1>1. CASE k = "ssh"
  BY <1>1, SMT DEF Inputs, Fields, Kinds
<1>2. CASE k = "web"
  BY <1>2, SMT DEF Inputs, Fields, Kinds
<1>3. CASE k = "db"
  BY <1>3, SMT DEF Inputs, Fields, Kinds
<1>4. CASE k = "mail"
  BY <1>4, SMT DEF Inputs, Fields, Kinds
<1>5. CASE k = "protection"
  BY <1>5, SMT DEF Inputs, Fields, Kinds
<1>6. CASE k = "outbound"
  BY <1>6, SMT DEF Inputs, Fields, Kinds
<1>7. CASE k = "nat"
  BY <1>7, SMT DEF Inputs, Fields, Kinds
<1>8. CASE k = "marks"
  BY <1>8, SMT DEF Inputs, Fields, Kinds
<1>9. CASE k = "ct"
  BY <1>9, SMT DEF Inputs, Fields, Kinds
<1> QED
  BY <1>1, <1>2, <1>3, <1>4, <1>5, <1>6, <1>7, <1>8, <1>9 DEF Kinds

LEMMA ShownInputs ==
  ASSUME NEW kind \in Kinds, NEW form
  PROVE  DOMAIN Shown(kind, form) \subseteq Inputs(kind)
<1>1. CASE kind = "ssh"
  <2> DEFINE radio == [ssh_audience |-> Audience(form.ssh_enabled, form.ssh_from)]
             own == Restrict(form, Fields("ssh") \ {"ssh_enabled"})
  <2>1. Shown(kind, form) = Over(radio, own)
    BY <1>1 DEF Shown
  <2>2. DOMAIN radio = {"ssh_audience"} /\ DOMAIN own \subseteq Fields("ssh")
    BY RestrictIs
  <2> HIDE DEF radio, own
  <2>3. "ssh_audience" \in Inputs("ssh") /\ Fields("ssh") \subseteq Inputs("ssh")
    BY DEF Inputs
  <2> QED
    BY <1>1, <2>1, <2>2, <2>3, OverDomain
<1>2. CASE kind = "db"
  <2> DEFINE radio == [db_audience |-> Audience(form.db_enabled, form.db_from)]
             own == Restrict(form, Fields("db") \ {"db_enabled"})
  <2>1. Shown(kind, form) = Over(radio, own)
    BY <1>2 DEF Shown
  <2>2. DOMAIN radio = {"db_audience"} /\ DOMAIN own \subseteq Fields("db")
    BY RestrictIs
  <2> HIDE DEF radio, own
  <2>3. "db_audience" \in Inputs("db") /\ Fields("db") \subseteq Inputs("db")
    BY DEF Inputs
  <2> QED
    BY <1>2, <2>1, <2>2, <2>3, OverDomain
<1>3. CASE kind = "web"
  BY <1>3 DEF Shown, Inputs
<1>4. CASE kind = "marks"
  <2>1. DOMAIN Shown(kind, form) = {"mk"}
    BY <1>4 DEF Shown
  <2> QED
    BY <1>4, <2>1 DEF Inputs, Fields
<1>5. CASE kind \notin {"ssh", "db", "web", "marks"}
  <2>1. Shown(kind, form) = Restrict(form, Fields(kind))
    BY <1>5 DEF Shown
  <2> QED
    BY <2>1, RestrictIs DEF Inputs
<1> QED
  BY <1>1, <1>2, <1>3, <1>4, <1>5

RadioOf(kind) == Inputs(kind) \ Fields(kind)

LEMMA RadioOfIs ==
  /\ RadioOf("ssh") = {"ssh_audience"} /\ RadioOf("web") = {"web_audience"} /\ RadioOf("db") = {"db_audience"}
BY DEF RadioOf, Inputs, Fields

(* Inputs that are posted with the presets' values, and no radio button    *)
(* that says otherwise: the form agrees.                                   *)
LEMMA PostedAgrees ==
  ASSUME NEW p, Sound(p), NEW post, NEW kind \in Kinds,
         \A x \in Fields(kind) : x \in DOMAIN post /\ post[x] = FormFromPresets(p)[x],
         RadioOf(kind) \cap DOMAIN post = {}
  PROVE  Agrees(kind, Parse(post), p)
<1> DEFINE value == Over(post, Blank)
           F == FormFromPresets(p)
<1>1. \A x \in Fields(kind) : value[x] = F[x]
  <2>1. \A x \in DOMAIN post : Over(post, Blank)[x] = post[x]
    BY OverFirst
  <2> QED
    BY <2>1, Zenon
<1> HIDE DEF value
<1>2. ASSUME NEW x \in Fields(kind), x \in PlainInputs PROVE Parse(post)[x] = F[x]
  BY <1>1, <1>2, ParsePlain DEF value
<1>3. CASE kind = "ssh"
  <2>1. /\ {"ssh_enabled", "ssh_from"} \subseteq Fields(kind)
        /\ Fields(kind) \ {"ssh_enabled", "ssh_from"} \subseteq PlainInputs
    BY <1>3 DEF Fields, PlainInputs
  <2>2. "ssh_audience" \notin DOMAIN post
    BY <1>3, RadioOfIs
  <2>3. Parse(post).ssh_enabled = value.ssh_enabled /\ Parse(post).ssh_from = value.ssh_from
    BY <2>2, ParseServices DEF IsOn, Trusted, value
  <2> QED
    BY <1>1, <1>2, <2>1, <2>3 DEF Agrees
<1>4. CASE kind = "db"
  <2>1. /\ {"db_enabled", "db_from"} \subseteq Fields(kind)
        /\ Fields(kind) \ {"db_enabled", "db_from"} \subseteq PlainInputs
    BY <1>4 DEF Fields, PlainInputs
  <2>2. "db_audience" \notin DOMAIN post
    BY <1>4, RadioOfIs
  <2>3. Parse(post).db_enabled = value.db_enabled /\ Parse(post).db_from = value.db_from
    BY <2>2, ParseServices DEF IsOn, Trusted, value
  <2> QED
    BY <1>1, <1>2, <2>1, <2>3 DEF Agrees
<1>5. CASE kind = "web"
  <2>1. Fields(kind) = {"caddy_box"}
    BY <1>5 DEF Fields
  <2>2. "web_audience" \notin DOMAIN post
    BY <1>5, RadioOfIs
  <2>3. Parse(post).caddy_box = value.caddy_box
    BY <2>2, ParseServices DEF IsOn, value
  <2> QED
    BY <1>1, <2>1, <2>3 DEF Agrees
<1>6. CASE kind = "nat"
  <2>1. Fields(kind) = {"pf", "mq"} /\ F.pf = p.forwards /\ F.mq = p.masquerade
    <3>1. F.pf = p.forwards /\ F.mq = p.masquerade
      BY SMT DEF FormFromPresets
    <3> QED
      BY <1>6, <3>1 DEF Fields
  <2>2. value.pf = p.forwards /\ value.mq = p.masquerade
    BY <1>1, <2>1
  <2>3. /\ p.forwards \in Seq(Forwards) /\ \A i \in DOMAIN p.forwards : p.forwards[i].to # None
        /\ p.masquerade \in Seq(Masquerades) /\ \A i \in DOMAIN p.masquerade : p.masquerade[i].oif # None
    BY DEF Sound, WellTyped, Validate, ValidRouting
  <2>4. Parse(post).pf = RowsAt(p.forwards, DOMAIN p.forwards)
    <3> DEFINE kept == {i \in DOMAIN value.pf : value.pf[i].ext # 0 \/ value.pf[i].to # None}
    <3>1. Parse(post).pf = RowsAt(value.pf, kept)
      BY ParseRows, Zenon DEF value
    <3>2. kept = DOMAIN p.forwards
      BY <2>2, <2>3
    <3> QED
      BY <2>2, <3>1, <3>2
  <2>5. Parse(post).mq = RowsAt(p.masquerade, DOMAIN p.masquerade)
    <3> DEFINE kept == {i \in DOMAIN value.mq : value.mq[i].oif # None \/ value.mq[i].source # None}
    <3>1. Parse(post).mq = RowsAt(value.mq, kept)
      BY ParseRows, Zenon DEF value
    <3>2. kept = DOMAIN p.masquerade
      BY <2>2, <2>3
    <3> QED
      BY <2>2, <3>1, <3>2
  <2>6. Parse(post).pf = F.pf /\ Parse(post).mq = F.mq
    BY <2>1, <2>3, <2>4, <2>5, AllRows
  <2> QED
    BY <2>1, <2>6 DEF Agrees
<1>7. CASE kind = "marks"
  <2>1. Fields(kind) = {"mk"} /\ F.mk = p.marks
    <3>1. F.mk = p.marks
      BY SMT DEF FormFromPresets
    <3> QED
      BY <1>7, <3>1 DEF Fields
  <2>2. value.mk = p.marks
    BY <1>1, <2>1
  <2>3. p.marks \in Seq(Marks) /\ \A i \in DOMAIN p.marks : p.marks[i].name # None
    BY DEF Sound, WellTyped, Validate, ValidRouting
  <2>4. Parse(post).mk = RowsAt(p.marks, DOMAIN p.marks)
    <3> DEFINE kept == {i \in DOMAIN value.mk : value.mk[i].name # None \/ value.mk[i].set # 0}
    <3>1. Parse(post).mk = RowsAt(value.mk, kept)
      BY ParseRows, Zenon DEF value
    <3>2. kept = DOMAIN p.marks
      BY <2>2, <2>3
    <3> QED
      BY <2>2, <3>1, <3>2
  <2>5. Parse(post).mk = F.mk
    BY <2>1, <2>3, <2>4, AllRows
  <2> QED
    BY <2>1, <2>5 DEF Agrees
<1>8. CASE kind \notin {"ssh", "db", "web", "nat", "marks"}
  <2>1. Fields(kind) \subseteq PlainInputs
    BY <1>8 DEF Kinds, Fields, PlainInputs
  <2> QED
    BY <1>2, <2>1 DEF Agrees
<1> QED
  BY <1>3, <1>4, <1>5, <1>6, <1>7, <1>8

(* Every other kind of service goes through a page in its hidden inputs.   *)
LEMMA OthersAgree ==
  ASSUME NEW p, Sound(p), NEW kind \in Kinds, NEW edit \in Edits(kind), NEW k \in Kinds, k # kind
  PROVE  Agrees(k, Parse(Posted(kind, FormFromPresets(p), edit)), p)
<1> DEFINE F == FormFromPresets(p)
           shown == Shown(kind, F)
           hidden == Hidden(kind, F)
           post == Posted(kind, F, edit)
<1>1. /\ DOMAIN edit \subseteq Inputs(kind) /\ DOMAIN shown \subseteq Inputs(kind)
      /\ Inputs(k) \cap Inputs(kind) = {}
  BY WizardAssumption, ShownInputs, InputsAreSeparate
<1>2. Fields(kind) \subseteq Inputs(kind) /\ Fields(k) \subseteq Inputs(k)
  BY Zenon DEF Inputs
<1>3. /\ DOMAIN hidden = DOMAIN Blank \ Fields(kind)
      /\ \A x \in DOMAIN Blank \ Fields(kind) : hidden[x] = F[x]
  <2>1. hidden = Restrict(F, DOMAIN Blank \ Fields(kind))
    BY FormDomain DEF Hidden
  <2> QED
    BY <2>1, RestrictIs
<1>4. post = Over(edit, Over(shown, hidden))
  BY Zenon DEF Posted
<1> HIDE DEF shown, hidden, post, F
<1>5. ASSUME NEW x \in Fields(k) PROVE x \in DOMAIN post /\ post[x] = F[x]
  <2>1. x \in DOMAIN hidden /\ x \notin DOMAIN shown /\ x \notin DOMAIN edit
    BY <1>1, <1>2, <1>3, FieldsAreInputs
  <2>2. x \in DOMAIN Over(shown, hidden) /\ Over(shown, hidden)[x] = hidden[x]
    BY <2>1, OverSecond
  <2>3. x \in DOMAIN post /\ post[x] = hidden[x]
    BY <1>4, <2>1, <2>2, OverSecond
  <2> QED
    BY <1>3, <2>1, <2>3
<1>6. RadioOf(k) \cap DOMAIN post = {}
  <2>1. RadioOf(k) \subseteq Radios
    <3>1. RadioOf(k) \subseteq {"ssh_audience", "web_audience", "db_audience"}
      BY DEF RadioOf, Inputs
    <3> QED
      BY <3>1 DEF Radios
  <2>2. DOMAIN post = DOMAIN edit \cup (DOMAIN shown \cup DOMAIN hidden)
    <3>1. DOMAIN Over(shown, hidden) = DOMAIN shown \cup DOMAIN hidden
      BY OverDomain
    <3>2. DOMAIN Over(edit, Over(shown, hidden)) = DOMAIN edit \cup DOMAIN Over(shown, hidden)
      BY OverDomain
    <3> QED
      BY <1>4, <3>1, <3>2
  <2>3. RadioOf(k) \subseteq Inputs(k)
    BY DEF RadioOf
  <2> QED
    BY <1>1, <1>3, <2>1, <2>2, <2>3, RadiosAreNotFields
<1>7. Agrees(k, Parse(post), p)
  BY <1>5, <1>6, PostedAgrees DEF F
<1> QED
  BY <1>7 DEF post, F

(* And a page submitted as it is shown says what it was opened with.       *)
LEMMA UntouchedAgrees ==
  ASSUME NEW p, Sound(p), NEW kind \in Kinds, Showable(kind, p), NEW edit, DOMAIN edit = {}
  PROVE  Agrees(kind, Parse(Posted(kind, FormFromPresets(p), edit)), p)
<1> DEFINE F == FormFromPresets(p)
           shown == Shown(kind, F)
           hidden == Hidden(kind, F)
           post == Posted(kind, F, edit)
<1>1. /\ DOMAIN hidden = DOMAIN Blank \ Fields(kind)
      /\ \A x \in DOMAIN Blank \ Fields(kind) : hidden[x] = F[x]
  <2>1. hidden = Restrict(F, DOMAIN Blank \ Fields(kind))
    BY FormDomain DEF Hidden
  <2> QED
    BY <2>1, RestrictIs
<1>2. post = Over(edit, Over(shown, hidden))
  BY Zenon DEF Posted
<1>3. Fields(kind) \subseteq DOMAIN Blank
  BY FieldsAreInputs
<1> HIDE DEF hidden, post
<1>4. ASSUME NEW x \in DOMAIN shown PROVE x \in DOMAIN post /\ post[x] = shown[x]
  <2> HIDE DEF shown
  <2>1. x \in DOMAIN Over(shown, hidden) /\ Over(shown, hidden)[x] = shown[x]
    BY OverFirst
  <2>2. x \notin DOMAIN edit
    OBVIOUS
  <2> QED
    BY <1>2, <2>1, <2>2, OverSecond
<1>5. DOMAIN post = DOMAIN shown \cup DOMAIN hidden
  <2> HIDE DEF shown
  <2>1. DOMAIN post = DOMAIN edit \cup (DOMAIN shown \cup DOMAIN hidden)
    <3>1. DOMAIN Over(shown, hidden) = DOMAIN shown \cup DOMAIN hidden
      BY OverDomain
    <3>2. DOMAIN Over(edit, Over(shown, hidden)) = DOMAIN edit \cup DOMAIN Over(shown, hidden)
      BY OverDomain
    <3> QED
      BY <1>2, <3>1, <3>2
  <2> QED
    BY <2>1
<1>6. CASE kind \notin {"ssh", "db", "web"}
  <2>1. DOMAIN shown = Fields(kind) /\ \A x \in Fields(kind) : shown[x] = F[x]
    <3>1. CASE kind = "marks"
      <4>1. F.mk = p.marks
        BY SMT DEF FormFromPresets
      <4>2. p.marks = [i \in DOMAIN p.marks |-> p.marks[i]] /\ \A i \in DOMAIN p.marks : p.marks[i].proto # "icmp"
        BY <3>1 DEF Sound, WellTyped, Showable
      <4>3. shown = [mk |-> [i \in DOMAIN F.mk |-> IF F.mk[i].proto = "icmp" THEN [F.mk[i] EXCEPT !.proto = None] ELSE F.mk[i]]]
        BY <3>1 DEF Shown
      <4> HIDE DEF F, shown
      <4>4. shown = [mk |-> F.mk]
        BY <4>1, <4>2, <4>3
      <4> QED
        BY <3>1, <4>4 DEF Fields
    <3>2. CASE kind # "marks"
      <4>1. shown = Restrict(F, Fields(kind))
        BY <1>6, <3>2 DEF Shown
      <4> HIDE DEF shown, F
      <4> QED
        BY <4>1, RestrictIs
    <3> QED
      BY <3>1, <3>2
  <2>2. RadioOf(kind) = {}
    BY <1>6 DEF RadioOf, Inputs
  <2> HIDE DEF shown, F
  <2>3. \A x \in Fields(kind) : x \in DOMAIN post /\ post[x] = F[x]
    BY <1>4, <2>1
  <2>4. Agrees(kind, Parse(post), p)
    BY <2>2, <2>3, PostedAgrees DEF F
  <2> QED
    BY <2>4 DEF post, F
<1>7. CASE kind = "ssh"
  <2> DEFINE radio == [ssh_audience |-> Audience(F.ssh_enabled, F.ssh_from)]
             own == Restrict(F, Fields("ssh") \ {"ssh_enabled"})
  <2>1. shown = Over(radio, own) /\ DOMAIN radio = {"ssh_audience"}
        /\ radio.ssh_audience = Audience(F.ssh_enabled, F.ssh_from)
    BY <1>7 DEF Shown
  <2>2. Fields("ssh") = {"ssh_enabled", "ssh_port", "ssh_from", "ssh_interfaces", "ssh_rate_limit"}
    BY DEF Fields
  <2>3. DOMAIN own = Fields("ssh") \ {"ssh_enabled"} /\ \A x \in Fields("ssh") \ {"ssh_enabled"} : own[x] = F[x]
    BY RestrictIs
  <2>4. F.ssh_enabled = (p.ssh # None) /\ (p.ssh = None => F.ssh_from = {})
    <3>1. p.ssh = None => F.ssh_from = {}
      BY SMT DEF FormFromPresets
    <3> QED
      BY <3>1, FormIs, Zenon
  <2> HIDE DEF radio, own, F, shown
  <2>5. "ssh_audience" \in DOMAIN shown /\ shown.ssh_audience = Audience(F.ssh_enabled, F.ssh_from)
    BY <2>1, OverFirst
  <2>6. \A x \in Fields("ssh") \ {"ssh_enabled"} : x \in DOMAIN shown /\ shown[x] = F[x]
    BY <2>1, <2>2, <2>3, OverSecond
  <2>7. /\ "ssh_audience" \in DOMAIN post /\ post.ssh_audience = Audience(F.ssh_enabled, F.ssh_from)
        /\ \A x \in Fields("ssh") \ {"ssh_enabled"} : x \in DOMAIN post /\ post[x] = F[x]
    BY <1>4, <2>5, <2>6
  <2>8. \A x \in Fields("ssh") \ {"ssh_enabled"} : Over(post, Blank)[x] = F[x]
    BY <2>7, OverFirst
  <2>9. /\ Parse(post).ssh_enabled = (post.ssh_audience # "off")
        /\ Parse(post).ssh_from = IF post.ssh_audience = "any" THEN {} ELSE Over(post, Blank).ssh_from
    <3>1. post.ssh_audience # None
      BY <2>7, WizardAssumption DEF Audience
    <3> QED
      BY <2>7, <3>1, ParseServices DEF IsOn, Trusted
  <2>10. Parse(post).ssh_enabled = F.ssh_enabled /\ Parse(post).ssh_from = F.ssh_from
    BY <2>2, <2>4, <2>7, <2>8, <2>9 DEF Audience
  <2>11. \A x \in {"ssh_port", "ssh_interfaces", "ssh_rate_limit"} : Parse(post)[x] = F[x]
    BY <2>2, <2>8, ParsePlain DEF PlainInputs
  <2>12. \A x \in Fields("ssh") : Parse(post)[x] = F[x]
    BY <2>2, <2>10, <2>11
  <2> QED
    BY <1>7, <2>12 DEF Agrees, F, post
<1>8. CASE kind = "db"
  <2> DEFINE radio == [db_audience |-> Audience(F.db_enabled, F.db_from)]
             own == Restrict(F, Fields("db") \ {"db_enabled"})
  <2>1. shown = Over(radio, own) /\ DOMAIN radio = {"db_audience"}
        /\ radio.db_audience = Audience(F.db_enabled, F.db_from)
    BY <1>8 DEF Shown
  <2>2. Fields("db") = {"db_enabled", "db_port", "db_from"}
    BY DEF Fields
  <2>3. DOMAIN own = Fields("db") \ {"db_enabled"} /\ \A x \in Fields("db") \ {"db_enabled"} : own[x] = F[x]
    BY RestrictIs
  <2>4. F.db_enabled = (p.db # None) /\ (p.db = None => F.db_from = {})
    <3>1. p.db = None => F.db_from = {}
      BY SMT DEF FormFromPresets
    <3> QED
      BY <3>1, FormIs, Zenon
  <2> HIDE DEF radio, own, F, shown
  <2>5. "db_audience" \in DOMAIN shown /\ shown.db_audience = Audience(F.db_enabled, F.db_from)
    BY <2>1, OverFirst
  <2>6. \A x \in Fields("db") \ {"db_enabled"} : x \in DOMAIN shown /\ shown[x] = F[x]
    BY <2>1, <2>2, <2>3, OverSecond
  <2>7. /\ "db_audience" \in DOMAIN post /\ post.db_audience = Audience(F.db_enabled, F.db_from)
        /\ \A x \in Fields("db") \ {"db_enabled"} : x \in DOMAIN post /\ post[x] = F[x]
    BY <1>4, <2>5, <2>6
  <2>8. \A x \in Fields("db") \ {"db_enabled"} : Over(post, Blank)[x] = F[x]
    BY <2>7, OverFirst
  <2>9. /\ Parse(post).db_enabled = (post.db_audience # "off")
        /\ Parse(post).db_from = IF post.db_audience = "any" THEN {} ELSE Over(post, Blank).db_from
    <3>1. post.db_audience # None
      BY <2>7, WizardAssumption DEF Audience
    <3> QED
      BY <2>7, <3>1, ParseServices DEF IsOn, Trusted
  <2>10. Parse(post).db_enabled = F.db_enabled /\ Parse(post).db_from = F.db_from
    BY <2>2, <2>4, <2>7, <2>8, <2>9 DEF Audience
  <2>11. Parse(post).db_port = F.db_port
    BY <2>2, <2>8, ParsePlain DEF PlainInputs
  <2>12. \A x \in Fields("db") : Parse(post)[x] = F[x]
    BY <2>2, <2>10, <2>11
  <2> QED
    BY <1>8, <2>12 DEF Agrees, F, post
<1>9. CASE kind = "web"
  <2>1. shown = [web_audience |-> IF F.caddy_box THEN "any" ELSE "off"]
    BY <1>9 DEF Shown
  <2>2. F.caddy_box \in BOOLEAN
    <3>1. F.caddy_box = p.caddy
      BY SMT DEF FormFromPresets
    <3> QED
      BY <3>1 DEF Sound, WellTyped
  <2> HIDE DEF F, shown
  <2>3. "web_audience" \in DOMAIN post /\ post.web_audience = IF F.caddy_box THEN "any" ELSE "off"
    BY <1>4, <2>1
  <2>4. Parse(post).caddy_box = (post.web_audience # "off")
    <3>1. post.web_audience # None
      BY <2>3, WizardAssumption
    <3> QED
      BY <2>3, <3>1, ParseServices DEF IsOn
  <2>5. Parse(post).caddy_box = F.caddy_box
    BY <2>2, <2>3, <2>4
  <2> QED
    BY <1>9, <2>5 DEF Agrees, Fields, F, post
<1> QED
  BY <1>6, <1>7, <1>8, <1>9
-----------------------------------------------------------------------------
(* From the review to what is staged.                                      *)
ReviewNames ==
  {"default_deny_inbound", "ssh_enabled", "ssh_port", "ssh_from", "caddy_box", "db_enabled", "db_port",
   "db_from", "mail", "out_restrict", "out_allow", "out_custom_tcp", "out_block"}

LEMMA ReviewedInputs ==
  ASSUME NEW form
  PROVE  LET value == Over(ReviewInputs(form), Blank)
         IN  /\ \A x \in ReviewNames : value[x] = form[x]
             /\ \A x \in DOMAIN Blank \ ReviewNames : value[x] = Blank[x]
             /\ DOMAIN ReviewInputs(form) = ReviewNames
<1> DEFINE post == ReviewInputs(form)
<1>1. DOMAIN post = ReviewNames /\ \A x \in ReviewNames : post[x] = form[x]
  <2>1. post = Restrict(form, ReviewNames)
    BY DEF ReviewInputs, ReviewNames
  <2> QED
    BY <2>1, RestrictIs
<1> HIDE DEF post
<1>2. \A x \in ReviewNames : Over(post, Blank)[x] = form[x]
  BY <1>1, OverFirst
<1>3. \A x \in DOMAIN Blank \ ReviewNames : Over(post, Blank)[x] = Blank[x]
  BY <1>1, OverSecond
<1> QED
  BY <1>1, <1>2, <1>3 DEF post

(* What the stage form does not carry is lost, and the rest stays.         *)
LEMMA StagedForm ==
  ASSUME NEW form
  PROVE  LET f == Parse(ReviewInputs(form))
         IN  /\ \A x \in ReviewNames : f[x] = form[x]
             /\ f.ssh_interfaces = {} /\ f.ssh_rate_limit = FALSE
             /\ f.out_block_refs = {} /\ f.block_sets_raw = {}
             /\ f.pf = << >> /\ f.mq = << >> /\ f.mk = << >>
<1> DEFINE post == ReviewInputs(form)
           value == Over(post, Blank)
<1>1. \A x \in ReviewNames : value[x] = form[x]
  BY ReviewedInputs
<1>2. \A x \in DOMAIN Blank \ ReviewNames : value[x] = Blank[x]
  BY ReviewedInputs
<1>3. "ssh_audience" \notin DOMAIN post /\ "web_audience" \notin DOMAIN post /\ "db_audience" \notin DOMAIN post
  BY ReviewedInputs DEF ReviewNames
<1> HIDE DEF post, value
<1>4. /\ Parse(post).ssh_enabled = value.ssh_enabled /\ Parse(post).ssh_from = value.ssh_from
      /\ Parse(post).caddy_box = value.caddy_box
      /\ Parse(post).db_enabled = value.db_enabled /\ Parse(post).db_from = value.db_from
  BY <1>3, ParseServices DEF IsOn, Trusted, value
<1>5. \A x \in PlainInputs : Parse(post)[x] = value[x]
  BY ParsePlain DEF value
<1>6. ASSUME NEW x \in ReviewNames PROVE Parse(post)[x] = form[x]
  BY <1>1, <1>4, <1>5 DEF ReviewNames, PlainInputs
<1>7. /\ value.ssh_interfaces = {} /\ value.ssh_rate_limit = FALSE
      /\ value.out_block_refs = {} /\ value.block_sets_raw = {}
      /\ value.pf = << >> /\ value.mq = << >> /\ value.mk = << >>
  <2>1. /\ Blank.ssh_interfaces = {} /\ Blank.ssh_rate_limit = FALSE
        /\ Blank.out_block_refs = {} /\ Blank.block_sets_raw = {}
        /\ Blank.pf = << >> /\ Blank.mq = << >> /\ Blank.mk = << >>
    BY SMT DEF Blank
  <2> QED
    BY <1>2, <2>1, BlankDomain DEF PlainInputs, ReviewNames
<1>8. /\ Parse(post).ssh_interfaces = {} /\ Parse(post).ssh_rate_limit = FALSE
      /\ Parse(post).out_block_refs = {} /\ Parse(post).block_sets_raw = {}
  BY <1>5, <1>7 DEF PlainInputs
<1>9. ASSUME NEW R, NEW rows \in Seq(R), rows = << >>, NEW kept, kept \subseteq DOMAIN rows
      PROVE  RowsAt(rows, kept) = << >>
  <2>1. kept = DOMAIN rows
    BY <1>9
  <2> QED
    BY <1>9, <2>1, AllRows
<1>10. Parse(post).pf = << >> /\ Parse(post).mq = << >> /\ Parse(post).mk = << >>
  <2>1. \A kept \in SUBSET {} : RowsAt(<< >>, kept) = << >>
    <3>1. << >> \in Seq({})  /\ DOMAIN << >> = {}
      OBVIOUS
    <3> QED
      BY <1>9, <3>1
  <2>2. \A rows : rows = << >> => DOMAIN rows = {}
    OBVIOUS
  <2>3. ASSUME value.pf = << >>
        PROVE  {i \in DOMAIN value.pf : value.pf[i].ext # 0 \/ value.pf[i].to # None} \in SUBSET {}
    BY <2>3
  <2>4. ASSUME value.mq = << >>
        PROVE  {i \in DOMAIN value.mq : value.mq[i].oif # None \/ value.mq[i].source # None} \in SUBSET {}
    BY <2>4
  <2>5. ASSUME value.mk = << >>
        PROVE  {i \in DOMAIN value.mk : value.mk[i].name # None \/ value.mk[i].set # 0} \in SUBSET {}
    BY <2>5
  <2>6. /\ Parse(post).pf = RowsAt(value.pf, {i \in DOMAIN value.pf : value.pf[i].ext # 0 \/ value.pf[i].to # None})
        /\ Parse(post).mq = RowsAt(value.mq, {i \in DOMAIN value.mq : value.mq[i].oif # None \/ value.mq[i].source # None})
        /\ Parse(post).mk = RowsAt(value.mk, {i \in DOMAIN value.mk : value.mk[i].name # None \/ value.mk[i].set # 0})
    BY ParseRows, Zenon DEF value
  <2> QED
    BY <1>7, <2>1, <2>3, <2>4, <2>5, <2>6
<1> QED
  BY <1>6, <1>8, <1>10 DEF post

LEMMA PresetsType ==
  ASSUME NEW form, WellFormed(form),
         form.pf \in Seq(Forwards), form.mq \in Seq(Masquerades), form.mk \in Seq(Marks)
  PROVE  WellTyped(ToPresets(form))
<1> DEFINE q == ToPresets(form)
<1>1. /\ q.deny = form.default_deny_inbound /\ q.caddy = form.caddy_box
      /\ q.forwards = form.pf /\ q.masquerade = form.mq /\ q.marks = form.mk
      /\ q.outbound = ToOutbound(form) /\ q.blockSets = ParseBlockSets(form.block_sets_raw)
  BY SMT DEF ToPresets
<1>2. q.ssh \in Optional(SshStanzas)
  <2>1. Default(form.ssh_port, 22) \in Int
    BY DEF WellFormed, Default
  <2>2. q.ssh = IF form.ssh_enabled
                THEN [port |-> Default(form.ssh_port, 22), from |-> form.ssh_from,
                      interfaces |-> form.ssh_interfaces, limited |-> form.ssh_rate_limit]
                ELSE None
    BY SMT DEF ToPresets
  <2> HIDE DEF q
  <2>3. [port |-> Default(form.ssh_port, 22), from |-> form.ssh_from,
         interfaces |-> form.ssh_interfaces, limited |-> form.ssh_rate_limit] \in SshStanzas
    BY <2>1 DEF SshStanzas, WellFormed
  <2> QED
    BY <2>2, <2>3 DEF Optional
<1>3. q.db \in Optional(DbStanzas)
  <2>1. Default(form.db_port, 5432) \in Int
    BY SMT DEF WellFormed, Default
  <2>2. q.db = IF form.db_enabled
               THEN [port |-> Default(form.db_port, 5432), from |-> form.db_from]
               ELSE None
    BY SMT DEF ToPresets
  <2> HIDE DEF q
  <2>3. [port |-> Default(form.db_port, 5432), from |-> form.db_from] \in DbStanzas
    BY <2>1, SMT DEF DbStanzas, WellFormed
  <2> QED
    BY <2>2, <2>3, SMT DEF Optional
<1>4. ToOutbound(form) \in Optional(Outbounds)
  <2> DEFINE o == [restrict |-> form.out_restrict, allow |-> form.out_allow, custom |-> form.out_custom_tcp,
                   block |-> form.out_block, refs |-> form.out_block_refs]
  <2>1. ToOutbound(form) \in {o, None}
    BY DEF ToOutbound
  <2>2. o \in Outbounds
    BY DEF Outbounds, WellFormed
  <2> HIDE DEF o
  <2> QED
    BY <2>1, <2>2 DEF Optional
<1>5. LET sets == ParseBlockSets(form.block_sets_raw)
      IN  sets \in [DOMAIN sets -> [family : Families, cidrs : SUBSET Cidrs]]
  <2> DEFINE lines == form.block_sets_raw
             networks(name) == {l[2] : l \in {m \in lines : m[1] = name}}
             family(name) == IF OfFamily(networks(name), "v4") # {} THEN "v4" ELSE "v6"
             names == {l[1] : l \in lines}
  <2>1. \A name : networks(name) \in SUBSET Cidrs
    BY DEF WellFormed
  <2>2. \A name : family(name) \in Families
    BY DEF Families
  <2>3. ParseBlockSets(lines) = [name \in names |-> [family |-> family(name), cidrs |-> networks(name)]]
    BY DEF ParseBlockSets
  <2> HIDE DEF networks, family, names, lines
  <2>4. [name \in names |-> [family |-> family(name), cidrs |-> networks(name)]]
          \in [names -> [family : Families, cidrs : SUBSET Cidrs]]
    BY <2>1, <2>2
  <2>5. LET sets == ParseBlockSets(lines)
        IN  sets \in [DOMAIN sets -> [family : Families, cidrs : SUBSET Cidrs]]
    BY <2>3, <2>4
  <2> QED
    BY <2>5 DEF lines
<1>6. q.deny \in BOOLEAN /\ q.caddy \in BOOLEAN
  BY <1>1 DEF WellFormed
<1> HIDE DEF q
<1>7. WellTyped(q)
  BY <1>1, <1>2, <1>3, <1>4, <1>5, <1>6 DEF WellTyped
<1> QED
  BY <1>7 DEF q

LEMMA StagedType ==
  ASSUME NEW form, WellFormed(form)
  PROVE  WellTyped(ToPresets(Parse(ReviewInputs(form))))
<1> DEFINE f == Parse(ReviewInputs(form))
<1>1. /\ \A x \in ReviewNames : f[x] = form[x]
      /\ f.ssh_interfaces = {} /\ f.ssh_rate_limit = FALSE
      /\ f.out_block_refs = {} /\ f.block_sets_raw = {}
      /\ f.pf = << >> /\ f.mq = << >> /\ f.mk = << >>
  BY StagedForm
<1> HIDE DEF f
<1>2. /\ f.default_deny_inbound = form.default_deny_inbound /\ f.ssh_enabled = form.ssh_enabled
      /\ f.ssh_port = form.ssh_port /\ f.ssh_from = form.ssh_from /\ f.caddy_box = form.caddy_box
      /\ f.db_enabled = form.db_enabled /\ f.db_port = form.db_port /\ f.db_from = form.db_from
      /\ f.out_restrict = form.out_restrict /\ f.out_allow = form.out_allow
      /\ f.out_custom_tcp = form.out_custom_tcp /\ f.out_block = form.out_block
  BY <1>1 DEF ReviewNames
<1>3. WellFormed(f)
  BY <1>1, <1>2 DEF WellFormed
<1>4. f.pf \in Seq(Forwards) /\ f.mq \in Seq(Masquerades) /\ f.mk \in Seq(Marks)
  BY <1>1
<1>5. WellTyped(ToPresets(f))
  BY <1>3, <1>4, PresetsType
<1> QED
  BY <1>5 DEF f

LEMMA NoSetsToRefer == DOMAIN SetToSeq({}) = {}
<1>1. Cardinality({}) = 0
  BY FS_EmptySet
<1> DEFINE e == [i \in 1..0 |-> i]
<1>2. e \in [1..0 -> {}] /\ IsInjective(e)
  BY DEF IsInjective
<1> HIDE DEF e
<1>3. \E f \in [1..Cardinality({}) -> {}] : IsInjective(f)
  BY <1>1, <1>2
<1>4. SetToSeq({}) \in [1..Cardinality({}) -> {}]
  BY <1>3 DEF SetToSeq
<1> QED
  BY <1>1, <1>4

(* What is carried means what was reviewed.                                *)
LEMMA CarriedIsStaged ==
  ASSUME NEW form, WellFormed(form), NEW kind \in Kinds, Carried(kind, ToPresets(form))
  PROVE  Effect(kind, ToPresets(Parse(ReviewInputs(form)))) = Effect(kind, ToPresets(form))
<1> DEFINE f == Parse(ReviewInputs(form))
           q == ToPresets(form)
           r == ToPresets(f)
<1>1. /\ \A x \in ReviewNames : f[x] = form[x]
      /\ f.ssh_interfaces = {} /\ f.ssh_rate_limit = FALSE
      /\ f.out_block_refs = {} /\ f.block_sets_raw = {}
  BY StagedForm
<1> HIDE DEF f
<1>2. /\ f.default_deny_inbound = form.default_deny_inbound /\ f.ssh_enabled = form.ssh_enabled
      /\ f.ssh_port = form.ssh_port /\ f.ssh_from = form.ssh_from /\ f.caddy_box = form.caddy_box
      /\ f.db_enabled = form.db_enabled /\ f.db_port = form.db_port /\ f.db_from = form.db_from
      /\ f.mail = form.mail
      /\ f.out_restrict = form.out_restrict /\ f.out_allow = form.out_allow
      /\ f.out_custom_tcp = form.out_custom_tcp /\ f.out_block = form.out_block
  BY <1>1 DEF ReviewNames
<1>3. CASE kind \in {"protection", "web", "mail"}
  <2>1. /\ q.deny = form.default_deny_inbound /\ q.caddy = form.caddy_box /\ q.mail = form.mail
        /\ r.deny = f.default_deny_inbound /\ r.caddy = f.caddy_box /\ r.mail = f.mail
    BY SMT DEF ToPresets
  <2> HIDE DEF q, r
  <2>2. Effect(kind, r) = Effect(kind, q)
    BY <1>2, <1>3, <2>1 DEF Effect
  <2> QED
    BY <2>2 DEF q, r, f
<1>4. CASE kind = "db"
  <2>1. q.db = r.db
    BY <1>2, SMT DEF ToPresets
  <2> HIDE DEF q, r
  <2>2. Effect(kind, r) = Effect(kind, q)
    BY <1>4, <2>1 DEF Effect
  <2> QED
    BY <2>2 DEF q, r, f
<1>5. CASE kind = "ssh"
  <2> DEFINE ssh == [port |-> Default(form.ssh_port, 22), from |-> form.ssh_from,
                     interfaces |-> form.ssh_interfaces, limited |-> form.ssh_rate_limit]
  <2>1. q.ssh = IF form.ssh_enabled THEN ssh ELSE None
    BY SMT DEF ToPresets
  <2>2. r.ssh = IF f.ssh_enabled
                THEN [port |-> Default(f.ssh_port, 22), from |-> f.ssh_from,
                      interfaces |-> f.ssh_interfaces, limited |-> f.ssh_rate_limit]
                ELSE None
    BY SMT DEF ToPresets
  <2> HIDE DEF q, r
  <2>3. CASE form.ssh_enabled
    <3>1. ssh # None
      <4>1. Default(form.ssh_port, 22) \in Int
        BY DEF WellFormed, Default
      <4>2. ssh \in SshStanzas
        BY <4>1 DEF SshStanzas, WellFormed
      <4> QED
        BY <4>2, WizardAssumption
    <3>2. q.ssh = ssh
      BY <2>1, <2>3
    <3>3. Carried("ssh", q)
      BY <1>5 DEF q
    <3>4. q.ssh.interfaces = {} /\ ~q.ssh.limited
      BY <3>1, <3>2, <3>3 DEF Carried
    <3>5. form.ssh_interfaces = {} /\ form.ssh_rate_limit = FALSE
      BY <3>2, <3>4 DEF WellFormed
    <3> HIDE DEF ssh
    <3>6. r.ssh = q.ssh
      BY <1>1, <1>2, <2>2, <2>3, <3>2, <3>5, ZenonT(30) DEF ssh
    <3>7. Effect(kind, r) = Effect(kind, q)
      BY <1>5, <3>6 DEF Effect
    <3> QED
      BY <3>7 DEF q, r, f
  <2>4. CASE ~form.ssh_enabled
    <3>1. q.ssh = None /\ r.ssh = None
      BY <1>2, <2>1, <2>2, <2>4
    <3>2. Effect(kind, r) = Effect(kind, q)
      BY <1>5, <3>1 DEF Effect
    <3> QED
      BY <3>2 DEF q, r, f
  <2> QED
    BY <2>3, <2>4
<1>6. CASE kind = "outbound"
  <2> DEFINE o == [restrict |-> form.out_restrict, allow |-> form.out_allow, custom |-> form.out_custom_tcp,
                   block |-> form.out_block, refs |-> form.out_block_refs]
             u == [restrict |-> f.out_restrict, allow |-> f.out_allow, custom |-> f.out_custom_tcp,
                   block |-> f.out_block, refs |-> f.out_block_refs]
  <2>1. q.outbound = IF Active(o) \/ o.allow # {} \/ o.custom # {} THEN o ELSE None
    <3>1. q.outbound = ToOutbound(form)
      BY SMT DEF ToPresets
    <3> QED
      BY <3>1, Zenon DEF ToOutbound
  <2>2. r.outbound = IF Active(u) \/ u.allow # {} \/ u.custom # {} THEN u ELSE None
    <3>1. r.outbound = ToOutbound(f)
      BY SMT DEF ToPresets
    <3> QED
      BY <3>1, Zenon DEF ToOutbound
  <2>3. o # None
    <3>1. o \in Outbounds
      BY DEF Outbounds, WellFormed
    <3> QED
      BY <3>1, WizardAssumption
  <2>4. Carried("outbound", q)
    BY <1>6 DEF q
  <2>5. o.refs = {}
    <3> HIDE DEF o, q
    <3>1. CASE Active(o)
      BY <2>1, <2>3, <2>4, <3>1 DEF Carried
    <3>2. CASE ~Active(o)
      BY <2>3, <3>2 DEF Active
    <3> QED
      BY <3>1, <3>2
  <2>6. u = o
    BY <1>1, <1>2, <2>5
  <2> HIDE DEF q, r, o, u
  <2>7. r.outbound = q.outbound /\ (q.outbound = None \/ q.outbound.refs = {})
    BY <2>1, <2>2, <2>5, <2>6
  <2>8. ASSUME NEW b, q.outbound # None
        PROVE  BlockRules(q.outbound, b) = PerFamily(q.outbound.block, AnyPacket, "drop") \o << >>
    <3>1. q.outbound.refs = {}
      BY <2>7, <2>8
    <3> DEFINE refs == SetToSeq(q.outbound.refs)
               rules == [i \in DOMAIN refs |-> [Drop([AnyPacket EXCEPT !.family = {b[refs[i]].family}])
                                                  EXCEPT !.peerSet = refs[i]]]
    <3>2. DOMAIN refs = {}
      BY <3>1, NoSetsToRefer
    <3>3. BlockRules(q.outbound, b) = PerFamily(q.outbound.block, AnyPacket, "drop") \o rules
      BY DEF BlockRules
    <3> HIDE DEF refs
    <3>4. rules = << >>
      BY <3>2
    <3> QED
      BY <3>3, <3>4
  <2>9. ASSUME q.outbound # None
        PROVE  OutboundChain(q.outbound, r.blockSets) = OutboundChain(q.outbound, q.blockSets)
    <3>1. BlockRules(q.outbound, r.blockSets) = BlockRules(q.outbound, q.blockSets)
      BY <2>8, <2>9
    <3> QED
      BY <3>1 DEF OutboundChain
  <2>10. ASSUME q.outbound # None
         PROVE  [s \in q.outbound.refs |-> CompileBlockSet(r.blockSets[s])]
                  = [s \in q.outbound.refs |-> CompileBlockSet(q.blockSets[s])]
    <3>1. q.outbound.refs = {}
      BY <2>7, <2>10
    <3> QED
      BY <3>1
  <2>11. Effect(kind, r) = Effect(kind, q)
    <3>1. CASE Active(q.outbound)
      <4>1. q.outbound # None
        BY <3>1 DEF Active
      <4> QED
        BY <1>6, <2>7, <2>9, <2>10, <3>1, <4>1 DEF Effect
    <3>2. CASE ~Active(q.outbound)
      BY <1>6, <2>7, <3>2 DEF Effect
    <3> QED
      BY <3>1, <3>2
  <2> QED
    BY <2>11 DEF q, r, f
<1> QED
  BY <1>3, <1>4, <1>5, <1>6 DEF Carried, Kinds
-----------------------------------------------------------------------------
(* What is posted is of the types of the inputs.                           *)
LEMMA BlankType == WellFormed(Blank)
<1>1. /\ Blank.default_deny_inbound = FALSE /\ Blank.ssh_enabled = FALSE /\ Blank.ssh_rate_limit = FALSE
      /\ Blank.caddy_box = FALSE /\ Blank.db_enabled = FALSE /\ Blank.out_restrict = FALSE
      /\ Blank.ssh_port = 0 /\ Blank.db_port = 0
      /\ Blank.ssh_from = {} /\ Blank.db_from = {} /\ Blank.out_block = {}
      /\ Blank.ssh_interfaces = {} /\ Blank.out_allow = {} /\ Blank.out_block_refs = {}
      /\ Blank.out_custom_tcp = {} /\ Blank.block_sets_raw = {}
  BY SMT DEF Blank
<1>2. {Blank.default_deny_inbound, Blank.ssh_enabled, Blank.ssh_rate_limit, Blank.caddy_box,
       Blank.db_enabled, Blank.out_restrict} \subseteq {FALSE}
  BY <1>1, Zenon
<1>3. /\ Blank.ssh_port \in Int /\ Blank.db_port \in Int
      /\ Blank.ssh_from \cup Blank.db_from \cup Blank.out_block \subseteq Cidrs
      /\ Blank.ssh_interfaces \subseteq Interfaces
      /\ Blank.out_allow \cup Blank.out_block_refs \subseteq STRING
      /\ Blank.out_custom_tcp \subseteq Int
      /\ \A l \in Blank.block_sets_raw : l[2] \in Cidrs
  BY <1>1
<1> QED
  BY <1>2, <1>3, Zenon DEF WellFormed

LEMMA FormType ==
  ASSUME NEW p, WellTyped(p)
  PROVE  WellFormed(FormFromPresets(p))
<1> DEFINE F == FormFromPresets(p)
<1>1. /\ F.default_deny_inbound = p.deny /\ F.caddy_box = p.caddy
      /\ F.ssh_enabled = (p.ssh # None) /\ F.db_enabled = (p.db # None)
      /\ F.ssh_rate_limit = (p.ssh # None /\ p.ssh.limited)
      /\ F.out_restrict = (p.outbound # None /\ p.outbound.restrict)
  BY SMT DEF FormFromPresets
<1>2. /\ F.ssh_port = (IF p.ssh = None THEN 22 ELSE SshPort(p.ssh))
      /\ F.ssh_from = (IF p.ssh = None THEN {} ELSE p.ssh.from)
      /\ F.ssh_interfaces = (IF p.ssh = None THEN {} ELSE p.ssh.interfaces)
      /\ F.db_port = (IF p.db = None THEN 5432 ELSE DbPort(p.db))
      /\ F.db_from = (IF p.db = None THEN {} ELSE p.db.from)
  BY SMT DEF FormFromPresets
<1>3. /\ F.out_allow = (IF p.outbound = None THEN {} ELSE p.outbound.allow)
      /\ F.out_custom_tcp = (IF p.outbound = None THEN {} ELSE p.outbound.custom)
      /\ F.out_block = (IF p.outbound = None THEN {} ELSE p.outbound.block)
      /\ F.out_block_refs = (IF p.outbound = None THEN {} ELSE p.outbound.refs)
      /\ F.block_sets_raw = Lines(p.blockSets)
  BY SMT DEF FormFromPresets
<1> HIDE DEF F
<1>4. F.ssh_port \in Int /\ F.ssh_from \subseteq Cidrs /\ F.ssh_interfaces \subseteq Interfaces
  <2>1. p.ssh # None => p.ssh.port \in Int /\ p.ssh.from \subseteq Cidrs /\ p.ssh.interfaces \subseteq Interfaces
    BY DEF WellTyped, Optional, SshStanzas
  <2>2. p.ssh # None => SshPort(p.ssh) \in Int
    BY <2>1 DEF SshPort, Default
  <2> QED
    BY <1>2, <2>1, <2>2, SMT
<1>5. F.db_port \in Int /\ F.db_from \subseteq Cidrs
  <2>1. p.db # None => p.db.port \in Int /\ p.db.from \subseteq Cidrs
    BY DEF WellTyped, Optional, DbStanzas
  <2>2. p.db # None => DbPort(p.db) \in Int
    BY <2>1, SMT DEF DbPort, Default
  <2> QED
    BY <1>2, <2>1, <2>2, SMT
<1>6. /\ F.out_allow \subseteq STRING /\ F.out_block_refs \subseteq STRING
      /\ F.out_custom_tcp \subseteq Int /\ F.out_block \subseteq Cidrs
  <2>1. p.outbound # None => /\ p.outbound.allow \subseteq STRING /\ p.outbound.refs \subseteq STRING
                             /\ p.outbound.custom \subseteq Int /\ p.outbound.block \subseteq Cidrs
    BY DEF WellTyped, Optional, Outbounds
  <2> QED
    BY <1>3, <2>1
<1>7. \A l \in F.block_sets_raw : l[2] \in Cidrs
  <2>1. \A s \in DOMAIN p.blockSets : p.blockSets[s].cidrs \subseteq Cidrs
    BY DEF WellTyped
  <2> QED
    BY <1>3, <2>1 DEF Lines
<1>8. {F.default_deny_inbound, F.ssh_enabled, F.ssh_rate_limit, F.caddy_box,
       F.db_enabled, F.out_restrict} \subseteq BOOLEAN
  <2>1. F.default_deny_inbound \in BOOLEAN /\ F.caddy_box \in BOOLEAN
    BY <1>1 DEF WellTyped
  <2>2. F.ssh_enabled \in BOOLEAN /\ F.db_enabled \in BOOLEAN
    BY <1>1
  <2>3. F.ssh_rate_limit \in BOOLEAN /\ F.out_restrict \in BOOLEAN
    BY <1>1
  <2> QED
    BY <2>1, <2>2, <2>3
<1>9. WellFormed(F)
  BY <1>4, <1>5, <1>6, <1>7, <1>8 DEF WellFormed
<1> QED
  BY <1>9 DEF F

LEMMA ShownValues ==
  ASSUME NEW kind \in Kinds, NEW form, NEW x \in DOMAIN Shown(kind, form), x \in DOMAIN Blank, x # "mk"
  PROVE  Shown(kind, form)[x] = form[x]
<1>1. x \notin Radios
  BY RadiosAreNotFields
<1>2. CASE kind = "ssh"
  <2> DEFINE radio == [ssh_audience |-> Audience(form.ssh_enabled, form.ssh_from)]
             own == Restrict(form, Fields("ssh") \ {"ssh_enabled"})
  <2>1. Shown(kind, form) = Over(radio, own)
    BY <1>2 DEF Shown
  <2>2. DOMAIN radio = {"ssh_audience"} /\ \A y \in DOMAIN own : own[y] = form[y]
    BY RestrictIs
  <2> HIDE DEF radio, own
  <2>3. x \notin DOMAIN radio /\ x \in DOMAIN own
    <3>1. DOMAIN Over(radio, own) = DOMAIN radio \cup DOMAIN own
      BY OverDomain
    <3> QED
      BY <1>1, <2>1, <2>2, <3>1 DEF Radios
  <2> QED
    BY <2>1, <2>2, <2>3, OverSecond
<1>3. CASE kind = "db"
  <2> DEFINE radio == [db_audience |-> Audience(form.db_enabled, form.db_from)]
             own == Restrict(form, Fields("db") \ {"db_enabled"})
  <2>1. Shown(kind, form) = Over(radio, own)
    BY <1>3 DEF Shown
  <2>2. DOMAIN radio = {"db_audience"} /\ \A y \in DOMAIN own : own[y] = form[y]
    BY RestrictIs
  <2> HIDE DEF radio, own
  <2>3. x \notin DOMAIN radio /\ x \in DOMAIN own
    <3>1. DOMAIN Over(radio, own) = DOMAIN radio \cup DOMAIN own
      BY OverDomain
    <3> QED
      BY <1>1, <2>1, <2>2, <3>1 DEF Radios
  <2> QED
    BY <2>1, <2>2, <2>3, OverSecond
<1>4. CASE kind = "web"
  <2>1. DOMAIN Shown(kind, form) = {"web_audience"}
    BY <1>4 DEF Shown
  <2> QED
    BY <1>1, <2>1 DEF Radios
<1>5. CASE kind = "marks"
  <2>1. DOMAIN Shown(kind, form) = {"mk"}
    BY <1>5 DEF Shown
  <2> QED
    BY <2>1
<1>6. CASE kind \notin {"ssh", "db", "web", "marks"}
  <2>1. Shown(kind, form) = Restrict(form, Fields(kind))
    BY <1>6 DEF Shown
  <2> QED
    BY <2>1, RestrictIs
<1> QED
  BY <1>2, <1>3, <1>4, <1>5, <1>6

LEMMA PostedType ==
  ASSUME NEW p, WellTyped(p), NEW kind \in Kinds, NEW edit \in Edits(kind)
  PROVE  WellFormed(Over(Posted(kind, FormFromPresets(p), edit), Blank))
<1> DEFINE F == FormFromPresets(p)
           shown == Shown(kind, F)
           hidden == Hidden(kind, F)
           post == Posted(kind, F, edit)
           value == Over(post, Blank)
           entered == Over(edit, Blank)
<1>1. /\ DOMAIN hidden = DOMAIN Blank \ Fields(kind)
      /\ \A x \in DOMAIN Blank \ Fields(kind) : hidden[x] = F[x]
  <2>1. hidden = Restrict(F, DOMAIN Blank \ Fields(kind))
    BY FormDomain DEF Hidden
  <2> QED
    BY <2>1, RestrictIs
<1>2. post = Over(edit, Over(shown, hidden))
  BY Zenon DEF Posted
<1>3. \A x \in DOMAIN shown : x \in DOMAIN Blank /\ x # "mk" => shown[x] = F[x]
  BY ShownValues
<1>4. WellFormed(F) /\ WellFormed(Blank) /\ WellFormed(entered)
  BY FormType, BlankType, WizardAssumption
<1> HIDE DEF F, shown, hidden, post
<1>5. ASSUME NEW x \in DOMAIN Blank, x # "mk" PROVE value[x] \in {entered[x], F[x], Blank[x]}
  <2>1. CASE x \in DOMAIN edit
    <3>1. x \in DOMAIN post /\ post[x] = edit[x]
      BY <1>2, <2>1, OverFirst
    <3> QED
      BY <2>1, <3>1, OverFirst
  <2>2. CASE x \notin DOMAIN edit /\ x \in DOMAIN shown
    <3>1. x \in DOMAIN Over(shown, hidden) /\ Over(shown, hidden)[x] = F[x]
      BY <1>3, <1>5, <2>2, OverFirst
    <3>2. x \in DOMAIN post /\ post[x] = F[x]
      BY <1>2, <2>2, <3>1, OverSecond
    <3> QED
      BY <3>2, OverFirst
  <2>3. CASE x \notin DOMAIN edit /\ x \notin DOMAIN shown /\ x \in DOMAIN hidden
    <3>1. x \in DOMAIN Over(shown, hidden) /\ Over(shown, hidden)[x] = F[x]
      BY <1>1, <2>3, OverSecond
    <3>2. x \in DOMAIN post /\ post[x] = F[x]
      BY <1>2, <2>3, <3>1, OverSecond
    <3> QED
      BY <3>2, OverFirst
  <2>4. CASE x \notin DOMAIN edit /\ x \notin DOMAIN shown /\ x \notin DOMAIN hidden
    <3>1. x \notin DOMAIN post
      <4>1. DOMAIN Over(shown, hidden) = DOMAIN shown \cup DOMAIN hidden
        BY OverDomain
      <4>2. DOMAIN Over(edit, Over(shown, hidden)) = DOMAIN edit \cup DOMAIN Over(shown, hidden)
        BY OverDomain
      <4> QED
        BY <1>2, <2>4, <4>1, <4>2
    <3> QED
      BY <3>1, OverSecond
  <2> QED
    BY <2>1, <2>2, <2>3, <2>4
<1> HIDE DEF value, entered
<1>6. /\ value.default_deny_inbound \in {entered.default_deny_inbound, F.default_deny_inbound, Blank.default_deny_inbound}
      /\ value.ssh_enabled \in {entered.ssh_enabled, F.ssh_enabled, Blank.ssh_enabled}
      /\ value.ssh_rate_limit \in {entered.ssh_rate_limit, F.ssh_rate_limit, Blank.ssh_rate_limit}
      /\ value.caddy_box \in {entered.caddy_box, F.caddy_box, Blank.caddy_box}
      /\ value.db_enabled \in {entered.db_enabled, F.db_enabled, Blank.db_enabled}
      /\ value.out_restrict \in {entered.out_restrict, F.out_restrict, Blank.out_restrict}
      /\ value.ssh_port \in {entered.ssh_port, F.ssh_port, Blank.ssh_port}
      /\ value.db_port \in {entered.db_port, F.db_port, Blank.db_port}
  BY <1>5, BlankDomain DEF PlainInputs
<1>7. /\ value.ssh_from \in {entered.ssh_from, F.ssh_from, Blank.ssh_from}
      /\ value.db_from \in {entered.db_from, F.db_from, Blank.db_from}
      /\ value.out_block \in {entered.out_block, F.out_block, Blank.out_block}
      /\ value.ssh_interfaces \in {entered.ssh_interfaces, F.ssh_interfaces, Blank.ssh_interfaces}
      /\ value.out_allow \in {entered.out_allow, F.out_allow, Blank.out_allow}
      /\ value.out_block_refs \in {entered.out_block_refs, F.out_block_refs, Blank.out_block_refs}
      /\ value.out_custom_tcp \in {entered.out_custom_tcp, F.out_custom_tcp, Blank.out_custom_tcp}
      /\ value.block_sets_raw \in {entered.block_sets_raw, F.block_sets_raw, Blank.block_sets_raw}
  BY <1>5, BlankDomain DEF PlainInputs
<1>8. WellFormed(value)
  BY <1>4, <1>6, <1>7 DEF WellFormed
<1> QED
  BY <1>8 DEF value, post, F
-----------------------------------------------------------------------------
(* What the pages hold: a form that was read from what the page showed,    *)
(* the rest of it hidden, and what was entered.                            *)
PageIsCurrentThen ==
  page # None =>
    /\ page.kind \in Kinds
    /\ Sound(page.opened)
    /\ page.form = FormFromPresets(page.opened)

ReviewIsOfPage ==
  review # None =>
    /\ review.kind \in Kinds
    /\ Sound(review.opened)
    /\ \E edit \in Edits(review.kind) :
         /\ review.form = Parse(Posted(review.kind, FormFromPresets(review.opened), edit))
         /\ review.untouched = (DOMAIN edit = {})
    /\ review.presets = ToPresets(review.form)
    /\ review.valid = Validate(review.presets)

WizardInv ==
  /\ Sound(current)
  /\ PageIsCurrentThen
  /\ ReviewIsOfPage
  /\ staged # None => Sound(staged.presets)
  /\ BasicsAreStagedAsReviewed

LEMMA ReviewType == ASSUME ReviewIsOfPage, review # None PROVE WellFormed(review.form)
<1>1. PICK edit \in Edits(review.kind) :
        review.form = Parse(Posted(review.kind, FormFromPresets(review.opened), edit))
  BY DEF ReviewIsOfPage
<1>2. review.kind \in Kinds /\ WellTyped(review.opened)
  BY DEF ReviewIsOfPage, Sound
<1>3. WellFormed(Over(Posted(review.kind, FormFromPresets(review.opened), edit), Blank))
  BY <1>2, PostedType
<1> QED
  BY <1>1, <1>3, ParseType

LEMMA InitWizardInv == Init => WizardInv
<1> SUFFICES ASSUME Init PROVE WizardInv
  OBVIOUS
<1>1. current \in Configured /\ Validate(current) /\ NftAccepts(current)
      /\ page = None /\ review = None /\ staged = None
  BY DEF Init
<1>2. Sound(current)
  BY <1>1, WizardAssumption DEF Sound
<1> QED
  BY <1>1, <1>2 DEF WizardInv, PageIsCurrentThen, ReviewIsOfPage, BasicsAreStagedAsReviewed

LEMMA StageKeepsInv == ASSUME WizardInv, PresetsStage PROVE WizardInv'
<1> DEFINE p == ToPresets(Parse(ReviewInputs(review.form)))
<1>1. /\ review # None /\ Validate(p) /\ NftAccepts(p)
      /\ staged' = [presets |-> p, reviewed |-> review.presets]
      /\ review' = None /\ current' = current /\ page' = page
  BY DEF PresetsStage
<1>2. WellFormed(review.form) /\ review.presets = ToPresets(review.form)
  BY <1>1, ReviewType DEF WizardInv, ReviewIsOfPage
<1>3. Sound(p)
  BY <1>1, <1>2, StagedType DEF Sound
<1>4. \A kind \in Kinds : Carried(kind, review.presets) => Effect(kind, p) = Effect(kind, review.presets)
  BY <1>2, CarriedIsStaged
<1> HIDE DEF p
<1>5. staged'.presets = p /\ staged'.reviewed = review.presets
  BY <1>1
<1>6. BasicsAreStagedAsReviewed'
  BY <1>4, <1>5 DEF BasicsAreStagedAsReviewed
<1>7. PageIsCurrentThen' /\ ReviewIsOfPage'
  BY <1>1 DEF WizardInv, PageIsCurrentThen, ReviewIsOfPage
<1>8. Sound(current')
  BY <1>1 DEF WizardInv
<1> QED
  BY <1>3, <1>5, <1>6, <1>7, <1>8 DEF WizardInv

LEMMA PreviewKeepsInv ==
  ASSUME WizardInv, page # None, NEW edit \in Edits(page.kind), PresetsPreview(edit)
  PROVE  WizardInv'
<1> DEFINE form == Parse(Posted(page.kind, page.form, edit))
<1>1. /\ review' = [kind |-> page.kind, opened |-> page.opened, untouched |-> DOMAIN edit = {},
                    form |-> form, presets |-> ToPresets(form), valid |-> Validate(ToPresets(form))]
      /\ page' = None /\ current' = current /\ staged' = staged
  BY DEF PresetsPreview
<1>2. page.kind \in Kinds /\ Sound(page.opened) /\ page.form = FormFromPresets(page.opened)
  BY DEF WizardInv, PageIsCurrentThen
<1>3. form = Parse(Posted(page.kind, FormFromPresets(page.opened), edit))
  BY <1>2
<1> HIDE DEF form
<1>4. /\ review'.kind = page.kind /\ review'.opened = page.opened
      /\ review'.form = form /\ review'.presets = ToPresets(form)
  BY <1>1
<1>5. review'.untouched = (DOMAIN edit = {})
  BY <1>1
<1>6. review'.valid = Validate(ToPresets(form))
  BY <1>1
<1>7. ReviewIsOfPage'
  <2>1. \E e \in Edits(review'.kind) :
          /\ review'.form = Parse(Posted(review'.kind, FormFromPresets(review'.opened), e))
          /\ review'.untouched = (DOMAIN e = {})
    BY <1>3, <1>4, <1>5
  <2> QED
    BY <1>2, <1>4, <1>6, <2>1, Zenon DEF ReviewIsOfPage
<1>8. PageIsCurrentThen'
  BY <1>1 DEF PageIsCurrentThen
<1>9. Sound(current') /\ (staged' # None => Sound(staged'.presets)) /\ BasicsAreStagedAsReviewed'
  BY <1>1 DEF WizardInv, BasicsAreStagedAsReviewed
<1> QED
  BY <1>7, <1>8, <1>9 DEF WizardInv

LEMMA NextWizardInv == WizardInv /\ [Next]_vars => WizardInv'
<1> SUFFICES ASSUME WizardInv, [Next]_vars PROVE WizardInv'
  OBVIOUS
<1>1. ASSUME NEW kind \in Kinds, EditService(kind) PROVE WizardInv'
  <2>1. /\ page' = [kind |-> kind, opened |-> current, form |-> FormFromPresets(current)]
        /\ review' = None /\ current' = current /\ staged' = staged
    BY <1>1 DEF EditService
  <2>2. page'.kind = kind /\ page'.opened = current /\ page'.form = FormFromPresets(current)
    BY <2>1
  <2> QED
    BY <2>1, <2>2 DEF WizardInv, PageIsCurrentThen, ReviewIsOfPage, BasicsAreStagedAsReviewed
<1>2. CASE page # None /\ \E edit \in Edits(page.kind) : PresetsPreview(edit)
  BY <1>2, PreviewKeepsInv
<1>3. CASE PresetsStage
  BY <1>3, StageKeepsInv
<1>4. CASE Confirm
  BY <1>4 DEF Confirm, WizardInv, PageIsCurrentThen, ReviewIsOfPage, BasicsAreStagedAsReviewed
<1>5. CASE Revert
  BY <1>5 DEF Revert, WizardInv, PageIsCurrentThen, ReviewIsOfPage, BasicsAreStagedAsReviewed
<1>6. ASSUME NEW p \in Configured, Elsewhere(p) PROVE WizardInv'
  <2>1. Sound(p)
    BY <1>6, WizardAssumption DEF Elsewhere, Sound
  <2> QED
    BY <1>6, <2>1 DEF Elsewhere, WizardInv, PageIsCurrentThen, ReviewIsOfPage, BasicsAreStagedAsReviewed
<1>7. CASE UNCHANGED vars
  BY <1>7 DEF vars, WizardInv, PageIsCurrentThen, ReviewIsOfPage, BasicsAreStagedAsReviewed
<1> QED
  BY <1>1, <1>2, <1>3, <1>4, <1>5, <1>6, <1>7 DEF Next

LEMMA SpecWizardInv == Spec => []WizardInv
BY InitWizardInv, NextWizardInv, PTL DEF Spec

(* The hidden inputs of an editor page carry all other services: whatever  *)
(* is entered for one, the reviewed presets mean for every other what they *)
(* meant, and a page submitted as it is shown changes nothing and is never *)
(* refused.                                                                *)
THEOREM EditAlwaysKeepsOthers == Spec => []EditKeepsOthers
<1>1. WizardInv => EditKeepsOthers
  <2> SUFFICES ASSUME WizardInv, review # None, Showable(review.kind, review.opened)
               PROVE  /\ review.untouched => review.valid
                      /\ \A kind \in Kinds :
                           kind # review.kind \/ review.untouched =>
                             Effect(kind, review.presets) = Effect(kind, review.opened)
    BY DEF EditKeepsOthers
  <2> DEFINE p == review.opened
             F == FormFromPresets(p)
  <2>1. /\ review.kind \in Kinds /\ Sound(p)
        /\ review.presets = ToPresets(review.form)
        /\ review.valid = Validate(review.presets)
    BY DEF WizardInv, ReviewIsOfPage
  <2>2. PICK edit \in Edits(review.kind) :
          /\ review.form = Parse(Posted(review.kind, F, edit))
          /\ review.untouched = (DOMAIN edit = {})
    BY DEF WizardInv, ReviewIsOfPage
  <2>3. SetsShow(p)
    BY DEF Showable, SetsShow
  <2>4. ASSUME NEW kind \in Kinds, kind # review.kind \/ review.untouched
        PROVE  Agrees(kind, review.form, p)
    <3>1. CASE kind # review.kind
      BY <2>1, <2>2, <3>1, OthersAgree
    <3>2. CASE kind = review.kind /\ DOMAIN edit = {}
      BY <2>1, <2>2, <3>2, UntouchedAgrees
    <3> QED
      BY <2>2, <2>4, <3>1, <3>2
  <2>5. review.untouched => review.valid
    BY <2>1, <2>3, <2>4, AsShownIsValid
  <2>6. ASSUME NEW kind \in Kinds, kind # review.kind \/ review.untouched
        PROVE  Effect(kind, review.presets) = Effect(kind, p)
    BY <2>1, <2>3, <2>4, <2>6, RoundTrip
  <2> QED
    BY <2>5, <2>6
<1> QED
  BY <1>1, SpecWizardInv, PTL

(* Of what the review page has inputs for, the operator stages what was    *)
(* reviewed.                                                               *)
THEOREM BasicsAreAlwaysStaged == Spec => []BasicsAreStagedAsReviewed
<1>1. WizardInv => BasicsAreStagedAsReviewed
  BY DEF WizardInv
<1> QED
  BY <1>1, SpecWizardInv, PTL
=============================================================================
