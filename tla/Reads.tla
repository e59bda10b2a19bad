------------------------------- MODULE Reads -------------------------------
(***************************************************************************)
(* What the daemon and its tools read from the kernel while the stager     *)
(* works on it: the preview of a candidate (handlePreview of the API and   *)
(* presetsPreview of the panel), which runs nft once for every table of    *)
(* the candidate, and the simulation of packets over the whole listing,    *)
(* which runs nft once.                                                    *)
(*                                                                         *)
(* The listing of a table is the table itself: how nft and the renderer    *)
(* word and order the same content is left out, so that the diff of the    *)
(* model is empty at least wherever the diff of the code is.  A base chain *)
(* is named after its hook.                                                *)
(***************************************************************************)
EXTENDS Firewall, Explain

CONSTANTS
  Packets,      (* packets with every field                                 *)
  Queries,      (* packets as callers describe them                         *)
  IPv6,         (* the addresses that are not IPv4                          *)
  IPv4Tables,   (* the names of the tables of family ip, which IPv6 packets *)
  IPv6Tables,   (* do not come to, and of family ip6; others are inet       *)
  Applies(_, _) (* nftables: a rule matches a packet with every field       *)

VARIABLES
  cand,     (* the candidate of the preview that is being made, or None     *)
  shown,    (* function: what LiveTable returned for each table read so far *)
  moved     (* history: the kernel has changed since the preview began      *)

firewallVars == << state, snapshot, candidate, timer, cancelled, kernel, last, pc, arg, snap, accepted >>

ReadsInit ==
  /\ Init
  /\ cand = None
  /\ shown = << >>
  /\ moved = FALSE

(* What LiveTable returns for a table that is not there.                   *)
Nothing == << >>
-----------------------------------------------------------------------------
PreviewBegins(r) ==
  /\ cand = None
  /\ cand' = r
  /\ shown' = << >>
  /\ moved' = FALSE
  /\ UNCHANGED firewallVars

LiveTable(n) ==
  /\ cand # None
  /\ n \in DOMAIN cand \ DOMAIN shown
  /\ shown' = [k \in DOMAIN shown \cup {n} |->
                 IF k = n THEN Lookup(kernel, n, Nothing) ELSE shown[k]]
  /\ UNCHANGED << firewallVars, cand, moved >>

(* nft fails and an error is shown, or the preview is complete and shown.  *)
PreviewEnds ==
  /\ cand # None
  /\ cand' = None
  /\ shown' = << >>
  /\ moved' = FALSE
  /\ UNCHANGED firewallVars

Meanwhile ==
  /\ SerialNext
  /\ moved' = (moved \/ (cand # None /\ kernel' # kernel))
  /\ UNCHANGED << cand, shown >>

ReadsNext ==
  \/ \E r \in Rulesets : PreviewBegins(r)
  \/ \E n \in UNION {DOMAIN r : r \in Rulesets} : LiveTable(n)
  \/ PreviewEnds
  \/ Meanwhile

ReadsSpec == ReadsInit /\ [][ReadsNext]_<< firewallVars, cand, shown, moved >>
-----------------------------------------------------------------------------
Complete == cand # None /\ DOMAIN shown = DOMAIN cand

(* Mutant: a table that is not in the kernel is left out of the diff.      *)
DiffOfPresentIsEmpty == \A n \in DOMAIN cand : shown[n] \in {Nothing, cand[n]}

(* What is listed of every table is what is rendered of it.  A table that  *)
(* is missing contributes no line, and one that is rendered has at least   *)
(* its first and its last.                                                 *)
DiffIsEmpty == \A n \in DOMAIN cand : shown[n] # Nothing /\ shown[n] = cand[n]

(* "(no changes - candidate matches live ruleset)" (cmd/zeerak): when the  *)
(* diff is empty and the kernel did not change while the tables were read, *)
(* one after the other, staging the candidate would change nothing.        *)
NoChangesMeansNone ==
  Complete /\ DiffIsEmpty /\ ~moved => Apply(kernel, cand) = kernel
-----------------------------------------------------------------------------
RulesOf(chain) == {chain.rules[i] : i \in DOMAIN chain.rules}

(* The packets that a query may stand for.                                 *)
NotGiven(field) == IF field \in {"sport", "dport"} THEN 0 ELSE ""

Meant(query) ==
  {p \in Packets : \A f \in DOMAIN query : query[f] \in {p[f], NotGiven(f)}}

-----------------------------------------------------------------------------
(* nftables itself: a rule is a conjunction of clauses.  Only the kinds of *)
(* clauses that SimulatePacket knows are described; the width of another   *)
(* one is 0, and where the clauses after it begin is left open.            *)
Keys ==
  PlainWords \cup {"jump", "goto", "tcp", "udp", "ip", "ip6"} \cup DOMAIN InterfaceOf

Width(rule, i) ==
  LET key   == rule[i]
      field == Word(rule, i + 1)
  IN  CASE key \in PlainWords -> 1
        [] key \in {"jump", "goto"} \cup DOMAIN InterfaceOf -> 2
        [] key \in {"tcp", "udp"} /\ field \in {"sport", "dport"} -> 3
        [] key \in {"ip", "ip6"} /\ field \in {"saddr", "daddr", "protocol"} -> 3
        [] OTHER -> 0

(* Places of a rule that have the next clause with every known clause.     *)
Followed(rule, S) ==
  \A k \in S : Width(rule, k) > 0 /\ k + Width(rule, k) <= Len(rule) => k + Width(rule, k) \in S

Clauses(rule) ==
  {i \in DOMAIN rule : \A S \in SUBSET DOMAIN rule : 1 \in S /\ Followed(rule, S) => i \in S}

(* What the clause at i asks of a packet, if its words are literal.  In an *)
(* inet table every clause that begins with ip asks for an IPv4 packet,    *)
(* `ip protocol` too.                                                      *)
OfFamily(key, p) == IF key = "ip6" THEN p.saddr \in IPv6 ELSE p.saddr \notin IPv6

Asks(rule, i, p) ==
  LET key   == rule[i]
      field == Word(rule, i + 1)
      spec  == Word(rule, i + 2)
  IN  CASE key \in {"tcp", "udp"} -> p.protocol = key /\ p[field] \in Named(PortWord, spec)
        [] key \in {"ip", "ip6"} /\ field = "protocol" -> OfFamily(key, p) /\ p.protocol = spec
        [] key \in {"ip", "ip6"} /\ field # "protocol" ->
             OfFamily(key, p) /\ p[field] \in {spec} \cup Named(NetWord, spec)
        [] key \in DOMAIN InterfaceOf -> p[InterfaceOf[key]] = field
        [] OTHER -> TRUE

Meets(rule, p) == \A i \in Clauses(rule) : Width(rule, i) > 0 /\ Asks(rule, i, p)

(* A listing has no clause that is cut off, and none begins with the word  *)
(* that follows a bare tcp or udp, as in `tcp flags syn`; after ip there   *)
(* are IPv4 addresses, after ip6 others; and a rule has one verdict.       *)
ASSUME ListingAssumption ==
  \A r \in DOMAIN Words :
    /\ Words[r] \in Seq(STRING)
    /\ \A i \in DOMAIN Words[r] : Words[r][i] # ""
    /\ \A i \in Clauses(Words[r]) :
         /\ i + Width(Words[r], i) <= Len(Words[r]) + 1
         /\ Words[r][i] \in {"tcp", "udp"} => Word(Words[r], i + 1) \notin Keys \cup {""}
         /\ Words[r][i] \in {"ip", "ip6"} /\ Word(Words[r], i + 1) \in {"saddr", "daddr"} =>
              \A p \in Packets :
                p[Words[r][i + 1]] \in {Word(Words[r], i + 2)} \cup Named(NetWord, Word(Words[r], i + 2)) =>
                  OfFamily(Words[r][i], p)
    /\ \A i, k \in DOMAIN Words[r] :
         {Words[r][i], Words[r][k]} \subseteq {Verdicts[v] : v \in DOMAIN Verdicts} => i = k

(* A rule of known clauses and literal words, which therefore some packet  *)
(* meets, matches the packets that meet it.                                *)
ASSUME KernelAssumption ==
  \A r \in DOMAIN Words :
    (\E p \in Packets : Meets(Words[r], p)) => \A p \in Packets : Applies(r, p) <=> Meets(Words[r], p)

Fields ==
  [protocol : STRING, saddr : STRING, daddr : STRING, sport : Nat, dport : Nat, iif : STRING, oif : STRING]

ASSUME PacketAssumption ==
  /\ Queries \subseteq Fields
  /\ Packets \subseteq {p \in Fields : \A f \in DOMAIN p : p[f] # NotGiven(f)}
-----------------------------------------------------------------------------
(* The simulation does not look at families: it walks the tables of the    *)
(* other one too, and takes `ip protocol` for a question about the         *)
(* protocol alone.                                                         *)
ComesTo(n, p) ==
  /\ n \in IPv4Tables => p.saddr \notin IPv6
  /\ n \in IPv6Tables => p.saddr \in IPv6

Overlooked(rule, p) ==
  \E i \in Clauses(rule) :
    rule[i] \in {"ip", "ip6"} /\ Word(rule, i + 1) = "protocol" /\ ~OfFamily(rule[i], p)

(* A rule that the simulation reports as matched does match, in the        *)
(* kernel, every packet that the query may stand for, that comes to its    *)
(* table and of which it overlooks nothing: neither a word that is not     *)
(* understood nor a field that was not given makes a hit.  And the         *)
(* explanation of such a rule is complete.                                 *)
HitsAreReal ==
  cand = None /\ Quiet =>
    \A n \in DOMAIN kernel : \A hook \in DOMAIN kernel[n].chains :
      \A rule \in RulesOf(kernel[n].chains[hook]), q \in Queries :
        RuleMatches(Words[rule], q) =>
          /\ ExplainsRule(Words[rule])
          /\ \A p \in Meant(q) : ComesTo(n, p) /\ ~Overlooked(Words[rule], p) => Applies(rule, p)

(* The kernel's walk through a base chain ends at the first rule that      *)
(* matches and has one of these verdicts.  `return` leaves the rest to the *)
(* policy; `jump` and `goto` go on in a chain that is not described here.  *)
VerdictAt(chain, i) == ExtractVerdict(Words[chain.rules[i]])

Ends(chain, p) ==
  {i \in DOMAIN chain.rules :
     Applies(chain.rules[i], p) /\ VerdictAt(chain, i) \in Terminal \cup {"return", "jump", "goto"}}

KernelVerdict(chain, p) ==
  IF Ends(chain, p) = {} \/ VerdictAt(chain, First(Ends(chain, p))) = "return" THEN chain.policy
  ELSE VerdictAt(chain, First(Ends(chain, p)))

(* The simulation goes on after these three, as if the rule were not there. *)
IsDecided(chain, p) ==
  Ends(chain, p) = {} \/ VerdictAt(chain, First(Ends(chain, p))) \in Terminal

(* The simulation understands a rule if it hits some packet.               *)
Understood(rule) == \E p \in Packets : RuleMatches(Words[rule], p) /\ ~Overlooked(Words[rule], p)

(* For a packet with every field, and a chain without a rule that it does  *)
(* not understand, the simulation is what happens to the packet in that    *)
(* chain: if it comes there, if no `ip protocol` is overlooked and no      *)
(* return, jump or goto is met first.                                      *)
SimulationIsSound ==
  cand = None /\ Quiet =>
    \A n \in DOMAIN kernel : \A hook \in DOMAIN kernel[n].chains :
      LET chain == kernel[n].chains[hook]
      IN  (\A rule \in RulesOf(chain) : Understood(rule)) =>
            \A p \in Packets :
              /\ ComesTo(n, p)
              /\ \A rule \in RulesOf(chain) : ~Overlooked(Words[rule], p)
              /\ IsDecided(chain, p)
              => SimulatePacket(chain, p) = KernelVerdict(chain, p)
=============================================================================
