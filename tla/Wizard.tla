------------------------------- MODULE Wizard -------------------------------
(***************************************************************************)
(* The panel's wizard (internal/ui): an editor page for one kind of        *)
(* service, the review of what was entered, and staging it.  Pages carry   *)
(* all their state in the browser: the editor page has hidden inputs for   *)
(* the services that it does not edit, the review page has hidden inputs   *)
(* for everything it stages.                                               *)
(*                                                                         *)
(* A form is a record with the fields that pages post; a posted page is a  *)
(* function from some of these names, and from the names of radio buttons. *)
(* Lists of networks, interfaces, ports and set names are sets, the text   *)
(* of the block sets is a set of lines << name, network >>.  An empty text *)
(* is None, an empty number 0.                                             *)
(***************************************************************************)
EXTENDS Policy, FiniteSets

CONSTANTS
  Configured,     (* presets that the panel may start from                 *)
  Edits(_),       (* for a kind of service, what may be entered on its     *)
                  (* page: functions from names of inputs                  *)
  MaxConfirms     (* bounds the model                                      *)

VARIABLES
  current,        (* Handler.current: what the panel believes is in force  *)
  page,           (* the editor page in the browser, or None               *)
  review,         (* the review page in the browser, or None               *)
  staged,         (* the pending change, or None                           *)
  confirms        (* counts the changes confirmed                          *)

vars == << current, page, review, staged, confirms >>

Kinds == {"ssh", "web", "db", "mail", "protection", "outbound", "nat", "marks", "ct"}

(* The fields of f, and those of g that f does not have.                   *)
Over(f, g) == [x \in DOMAIN f \cup DOMAIN g |-> IF x \in DOMAIN f THEN f[x] ELSE g[x]]

(* The rows of a list with these indices, in order.                        *)
RowsAt(rows, kept) ==
  [k \in 1..Cardinality(kept) |-> rows[CHOOSE i \in kept : Cardinality({j \in kept : j < i}) = k - 1]]
-----------------------------------------------------------------------------
(* Presets and forms.                                                      *)

Lines(blockSets) ==
  UNION {{<< name, c >> : c \in blockSets[name].cidrs} : name \in DOMAIN blockSets}

FormFromPresets(p) ==
  [default_deny_inbound |-> p.deny,
   ssh_enabled    |-> p.ssh # None,
   ssh_port       |-> IF p.ssh = None THEN 22 ELSE SshPort(p.ssh),
   ssh_from       |-> IF p.ssh = None THEN {} ELSE p.ssh.from,
   ssh_interfaces |-> IF p.ssh = None THEN {} ELSE p.ssh.interfaces,
   ssh_rate_limit |-> p.ssh # None /\ p.ssh.limited,
   caddy_box      |-> p.caddy,
   db_enabled     |-> p.db # None,
   db_port        |-> IF p.db = None THEN 5432 ELSE DbPort(p.db),
   db_from        |-> IF p.db = None THEN {} ELSE p.db.from,
   mail           |-> p.mail,
   out_restrict   |-> p.outbound # None /\ p.outbound.restrict,
   out_allow      |-> IF p.outbound = None THEN {} ELSE p.outbound.allow,
   out_custom_tcp |-> IF p.outbound = None THEN {} ELSE p.outbound.custom,
   out_block      |-> IF p.outbound = None THEN {} ELSE p.outbound.block,
   out_block_refs |-> IF p.outbound = None THEN {} ELSE p.outbound.refs,
   block_sets_raw |-> Lines(p.blockSets),
   pf             |-> p.forwards,
   mq             |-> p.masquerade,
   mk             |-> p.marks,
   ct             |-> p.helpers]

(* What is read where a page posts nothing.                                *)
Blank ==
  [default_deny_inbound |-> FALSE, ssh_enabled |-> FALSE, ssh_port |-> 0, ssh_from |-> {},
   ssh_interfaces |-> {}, ssh_rate_limit |-> FALSE, caddy_box |-> FALSE, db_enabled |-> FALSE,
   db_port |-> 0, db_from |-> {}, mail |-> {}, out_restrict |-> FALSE, out_allow |-> {},
   out_custom_tcp |-> {}, out_block |-> {}, out_block_refs |-> {}, block_sets_raw |-> {},
   pf |-> << >>, mq |-> << >>, mk |-> << >>, ct |-> {}]

(* The family is that of the first network of a name; nft refuses a set    *)
(* whose networks are of two families either way.                          *)
ParseBlockSets(lines) ==
  LET networks(name) == {l[2] : l \in {m \in lines : m[1] = name}}
  IN  [name \in {l[1] : l \in lines} |->
         [family |-> IF OfFamily(networks(name), "v4") # {} THEN "v4" ELSE "v6",
          cidrs  |-> networks(name)]]

ToOutbound(form) ==
  LET o == [restrict |-> form.out_restrict, allow |-> form.out_allow, custom |-> form.out_custom_tcp,
            block |-> form.out_block, refs |-> form.out_block_refs]
  IN  IF Active(o) \/ o.allow # {} \/ o.custom # {} THEN o ELSE None

ToPresets(form) ==
  [deny       |-> form.default_deny_inbound,
   ssh        |-> IF form.ssh_enabled
                  THEN [port |-> Default(form.ssh_port, 22), from |-> form.ssh_from,
                        interfaces |-> form.ssh_interfaces, limited |-> form.ssh_rate_limit]
                  ELSE None,
   caddy      |-> form.caddy_box,
   db         |-> IF form.db_enabled
                  THEN [port |-> Default(form.db_port, 5432), from |-> form.db_from]
                  ELSE None,
   mail       |-> form.mail,
   outbound   |-> ToOutbound(form),
   blockSets  |-> ParseBlockSets(form.block_sets_raw),
   forwards   |-> form.pf,
   masquerade |-> form.mq,
   marks      |-> form.mk,
   helpers    |-> form.ct]
-----------------------------------------------------------------------------
(* What the types of presets and forms say.  Every network has addresses.  *)
Cidrs       == Networks \ {{}}
SshStanzas  == [port : Int, from : SUBSET Cidrs, interfaces : SUBSET Interfaces, limited : BOOLEAN]
DbStanzas   == [port : Int, from : SUBSET Cidrs]
Outbounds   == [restrict : BOOLEAN, allow : SUBSET STRING, custom : SUBSET Int,
                block : SUBSET Cidrs, refs : SUBSET STRING]
Forwards    == [proto : {None, "tcp", "udp"}, iif : Optional(Interfaces), from : Optional(Cidrs),
                ext : Int, to : DOMAIN Rank, toPort : Int]
Masquerades == [oif : Optional(Interfaces), source : Optional(Cidrs)]
Marks       == [name : DOMAIN Rank, daddr : Optional(Cidrs), proto : {None, "tcp", "udp", "icmp"},
                dport : Int, oif : Optional(Interfaces), set : Nat]

WellTyped(p) ==
  /\ p.deny \in BOOLEAN /\ p.caddy \in BOOLEAN
  /\ p.ssh \in Optional(SshStanzas)
  /\ p.db \in Optional(DbStanzas)
  /\ p.outbound \in Optional(Outbounds)
  /\ p.blockSets \in [DOMAIN p.blockSets -> [family : Families, cidrs : SUBSET Cidrs]]
  /\ p.forwards \in Seq(Forwards)
  /\ p.masquerade \in Seq(Masquerades)
  /\ p.marks \in Seq(Marks)

(* The inputs from which presets are staged.                               *)
WellFormed(form) ==
  /\ {form.default_deny_inbound, form.ssh_enabled, form.ssh_rate_limit, form.caddy_box,
      form.db_enabled, form.out_restrict} \subseteq BOOLEAN
  /\ form.ssh_port \in Int /\ form.db_port \in Int
  /\ form.ssh_from \cup form.db_from \cup form.out_block \subseteq Cidrs
  /\ form.ssh_interfaces \subseteq Interfaces
  /\ form.out_allow \cup form.out_block_refs \subseteq STRING
  /\ form.out_custom_tcp \subseteq Int
  /\ \A l \in form.block_sets_raw : l[2] \in Cidrs
-----------------------------------------------------------------------------
(* What a page posts.                                                      *)

Fields(kind) ==
  CASE kind = "protection" -> {"default_deny_inbound"}
    [] kind = "ssh"        -> {"ssh_enabled", "ssh_port", "ssh_from", "ssh_interfaces", "ssh_rate_limit"}
    [] kind = "web"        -> {"caddy_box"}
    [] kind = "db"         -> {"db_enabled", "db_port", "db_from"}
    [] kind = "mail"       -> {"mail"}
    [] kind = "outbound"   -> {"out_restrict", "out_allow", "out_custom_tcp", "out_block",
                               "out_block_refs", "block_sets_raw"}
    [] kind = "nat"        -> {"pf", "mq"}
    [] kind = "marks"      -> {"mk"}
    [] kind = "ct"         -> {"ct"}

(* All inputs of the editor page, with its radio buttons.                  *)
Inputs(kind) ==
  Fields(kind) \cup CASE kind = "ssh" -> {"ssh_audience"}
                      [] kind = "web" -> {"web_audience"}
                      [] kind = "db"  -> {"db_audience"}
                      [] OTHER -> {}

(* On a page only its own inputs can be changed.                           *)
ASSUME WizardAssumption ==
  /\ None \notin {"off", "any", "restricted"} \cup SshStanzas \cup DbStanzas \cup Outbounds
  /\ \A p \in Configured : WellTyped(p)
  /\ \A kind \in Kinds : \A edit \in Edits(kind) :
       DOMAIN edit \subseteq Inputs(kind) /\ WellFormed(Over(edit, Blank))

(* Mutant: the editors round-trip only what the older services had.        *)
HiddenWithoutRouting(kind, form) ==
  Restrict(form, DOMAIN form \ UNION {Fields(k) : k \in {kind, "nat", "marks", "ct"}})

(* The hidden inputs of an editor page.                                    *)
Hidden(kind, form) == Restrict(form, DOMAIN form \ Fields(kind))

Audience(enabled, from) ==
  CASE ~enabled -> "off" [] enabled /\ from = {} -> "any" [] OTHER -> "restricted"

(* The inputs of the service itself, as the page shows them.  Who may use  *)
(* a service is a radio button, and the list of protocols on the page of   *)
(* the marks has no icmp, so that the browser shows `any` for it.          *)
Shown(kind, form) ==
  CASE kind = "ssh" ->
         Over([ssh_audience |-> Audience(form.ssh_enabled, form.ssh_from)],
              Restrict(form, Fields("ssh") \ {"ssh_enabled"}))
    [] kind = "web" ->
         [web_audience |-> IF form.caddy_box THEN "any" ELSE "off"]
    [] kind = "db" ->
         Over([db_audience |-> Audience(form.db_enabled, form.db_from)],
              Restrict(form, Fields("db") \ {"db_enabled"}))
    [] kind = "marks" ->
         [mk |-> [i \in DOMAIN form.mk |->
                    IF form.mk[i].proto = "icmp" THEN [form.mk[i] EXCEPT !.proto = None] ELSE form.mk[i]]]
    [] OTHER -> Restrict(form, Fields(kind))

(* What the editor page posts when `edit` is entered.                      *)
Posted(kind, form, edit) == Over(edit, Over(Shown(kind, form), Hidden(kind, form)))

(* Mutant: the review page also drops the networks of the database.        *)
ReviewInputsWithoutNetworks(form) ==
  Restrict(form, {"default_deny_inbound", "ssh_enabled", "ssh_port", "ssh_from", "caddy_box",
                  "db_enabled", "db_port", "mail", "out_restrict", "out_allow",
                  "out_custom_tcp", "out_block"})

(* The hidden inputs of the review page.                                   *)
ReviewInputs(form) ==
  Restrict(form, {"default_deny_inbound", "ssh_enabled", "ssh_port", "ssh_from", "caddy_box",
                  "db_enabled", "db_port", "db_from", "mail", "out_restrict", "out_allow",
                  "out_custom_tcp", "out_block"})

(* Reading a posted page.  A radio button goes before the check box that   *)
(* older pages have.  Rows left blank are skipped; in others the panel     *)
(* misses what Validate misses too.                                        *)
Parse(post) ==
  LET value   == Over(post, Blank)
      asked(radio) == IF radio \in DOMAIN post THEN post[radio] ELSE None
      on(radio, box) == IF asked(radio) = None THEN value[box] ELSE asked(radio) # "off"
      trusted(radio, list) == IF asked(radio) = "any" THEN {} ELSE value[list]
  IN  [Restrict(value, DOMAIN Blank) EXCEPT
         !.ssh_enabled = on("ssh_audience", "ssh_enabled"),
         !.ssh_from    = trusted("ssh_audience", "ssh_from"),
         !.caddy_box   = on("web_audience", "caddy_box"),
         !.db_enabled  = on("db_audience", "db_enabled"),
         !.db_from     = trusted("db_audience", "db_from"),
         !.pf = RowsAt(value.pf, {i \in DOMAIN value.pf : value.pf[i].ext # 0 \/ value.pf[i].to # None}),
         !.mq = RowsAt(value.mq, {i \in DOMAIN value.mq : value.mq[i].oif # None \/ value.mq[i].source # None}),
         !.mk = RowsAt(value.mk, {i \in DOMAIN value.mk : value.mk[i].name # None \/ value.mk[i].set # 0})]
-----------------------------------------------------------------------------
(* The pages.                                                              *)

Init ==
  /\ current \in {p \in Configured : Validate(p) /\ NftAccepts(p)}
  /\ page = None
  /\ review = None
  /\ staged = None
  /\ confirms = 0

(* One window: a page takes the place of the one before.                   *)
EditService(kind) ==
  /\ page' = [kind |-> kind, opened |-> current, form |-> FormFromPresets(current)]
  /\ review' = None
  /\ UNCHANGED << current, staged, confirms >>

(* A review that is not valid shows an error.                              *)
PresetsPreview(edit) ==
  /\ page # None
  /\ LET form == Parse(Posted(page.kind, page.form, edit))
         p    == ToPresets(form)
     IN  review' = [kind |-> page.kind, opened |-> page.opened, untouched |-> DOMAIN edit = {},
                    form |-> form, presets |-> p, valid |-> Validate(p)]
  /\ page' = None
  /\ UNCHANGED << current, staged, confirms >>

(* The stager lets one change be pending.                                  *)
PresetsStage ==
  /\ review # None
  /\ review.valid
  /\ staged = None
  /\ LET p == ToPresets(Parse(ReviewInputs(review.form)))
     IN  /\ Validate(p)
         /\ NftAccepts(p)
         /\ staged' = [presets |-> p, reviewed |-> review.presets]
  /\ review' = None
  /\ UNCHANGED << current, page, confirms >>

Confirm ==
  /\ staged # None
  /\ confirms < MaxConfirms
  /\ confirms' = confirms + 1
  /\ current' = staged.presets
  /\ staged' = None
  /\ UNCHANGED << page, review >>

(* By the operator or by the timer.                                        *)
Revert ==
  /\ staged # None
  /\ staged' = None
  /\ UNCHANGED << current, page, review, confirms >>

(* A change staged and confirmed in another window.                        *)
Elsewhere(p) ==
  /\ staged = None
  /\ Validate(p)
  /\ NftAccepts(p)
  /\ current' = p
  /\ UNCHANGED << page, review, staged, confirms >>

Next ==
  \/ \E kind \in Kinds : EditService(kind)
  \/ page # None /\ \E edit \in Edits(page.kind) : PresetsPreview(edit)
  \/ PresetsStage
  \/ Confirm
  \/ Revert
  \/ \E p \in Configured : Elsewhere(p)

Spec == Init /\ [][Next]_vars
-----------------------------------------------------------------------------
(* What a set of presets means for one kind of service.                    *)
Effect(kind, p) ==
  CASE kind = "protection" -> p.deny
    [] kind = "ssh"        -> IF p.ssh = None THEN None ELSE SshRules(p.ssh)
    [] kind = "web"        -> p.caddy
    [] kind = "db"         -> IF p.db = None THEN None ELSE DbRules(p.db)
    [] kind = "mail"       -> p.mail
    [] kind = "outbound"   -> IF ~Active(p.outbound) THEN None
                              ELSE << OutboundChain(p.outbound, p.blockSets),
                                      [s \in p.outbound.refs |-> CompileBlockSet(p.blockSets[s])] >>
    [] kind = "nat"        -> CompileNATTable(p.forwards, p.masquerade)
    [] kind = "marks"      -> CompileMarksTable(p.marks)
    [] kind = "ct"         -> CompileCTTable(p.helpers)

(* What a page cannot show: a block set without networks is not a line of  *)
(* the text, and an icmp mark is not in the list of protocols.             *)
Showable(kind, p) ==
  /\ \A s \in DOMAIN p.blockSets : p.blockSets[s].cidrs # {}
  /\ kind = "marks" => \A i \in DOMAIN p.marks : p.marks[i].proto # "icmp"

(* "hidden inputs for OTHER services so they round-trip unchanged"         *)
(* (edit-service.html:17): whatever is entered for one service, the        *)
(* reviewed presets mean for every other what the presets that the page    *)
(* was opened with meant, and for the service itself if nothing was        *)
(* entered; and a page submitted as it is shown is never refused.          *)
EditKeepsOthers ==
  review # None /\ Showable(review.kind, review.opened) =>
    /\ review.untouched => review.valid
    /\ review.valid =>
         \A kind \in Kinds :
           kind # review.kind \/ review.untouched =>
             Effect(kind, review.presets) = Effect(kind, review.opened)

(* The part of the reviewed presets that the review page has inputs for is *)
(* staged as it was reviewed.                                              *)
Carried(kind, p) ==
  CASE kind \in {"protection", "web", "db", "mail"} -> TRUE
    [] kind = "ssh"      -> p.ssh # None => p.ssh.interfaces = {} /\ ~p.ssh.limited
    [] kind = "outbound" -> p.outbound # None => p.outbound.refs = {}
    [] OTHER -> FALSE

BasicsAreStagedAsReviewed ==
  staged # None =>
    \A kind \in Kinds :
      Carried(kind, staged.reviewed) => Effect(kind, staged.presets) = Effect(kind, staged.reviewed)

(* VISION.md:21, "staged -> preview (diff) -> commit": the operator stages *)
(* what the review page showed.                                            *)
ReviewedIsStaged ==
  staged # None => \A kind \in Kinds : Effect(kind, staged.presets) = Effect(kind, staged.reviewed)
=============================================================================
