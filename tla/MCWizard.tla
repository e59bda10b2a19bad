------------------------------ MODULE MCWizard ------------------------------
(* The presets and inputs that TLC tries.                                  *)
EXTENDS Wizard, PresetShapes

Basic == [Nothing EXCEPT !.deny = TRUE, !.ssh = Ssh(0, {Net4, Net6}, {}, FALSE), !.caddy = TRUE,
                         !.db = Db(7, {Net4}), !.mail = {25, 587},
                         !.outbound = Out(TRUE, {"dns", "ping"}, {7}, {Net6}, {})]
Pinned == [Nothing EXCEPT !.deny = TRUE, !.ssh = Ssh(7, {}, {"wg0"}, TRUE), !.db = Db(0, {})]
Feed == [Nothing EXCEPT !.outbound = Out(FALSE, {}, {}, {}, {"feed", "feed6"}),
                        !.blockSets = "feed" :> Set("v4", {Net4, All4}) @@ "feed6" :> Set("v6", {Net6})]
Routed == [Basic EXCEPT !.forwards = << Forward("tcp", None, Net4, 80, "h1", 0), Forward(None, "wg0", None, 22, "h2", 7) >>,
                        !.masquerade = << [oif |-> "wg0", source |-> All4], [oif |-> "wg0", source |-> None] >>,
                        !.marks = << MkMark("vpn", Net6, None, 0, None, 2), MkMark("bulk", None, "udp", 53, "wg0", 1) >>,
                        !.helpers = {"ftp", "sip"}]
Idle == [Nothing EXCEPT !.outbound = Out(FALSE, {"http"}, {}, {}, {}),
                        !.marks = << MkMark("bulk", All4, "icmp", 0, None, 1) >>]
Empty == [Feed EXCEPT !.blockSets["feed"].cidrs = {}]

MCConfigured == {Nothing, Basic, Pinned, Feed, Routed, Idle, Empty}

(* On each page: nothing entered, something allowed, something refused.    *)
MCEdits(kind) ==
  {<< >>} \cup
  CASE kind = "ssh" ->
         {[ssh_audience |-> "off"], [ssh_audience |-> "any", ssh_interfaces |-> {"wg0"}],
          [ssh_audience |-> "restricted", ssh_from |-> {Net6}, ssh_rate_limit |-> TRUE],
          [ssh_audience |-> "restricted", ssh_from |-> {}], [ssh_audience |-> "any", ssh_port |-> 70000]}
    [] kind = "web"  -> {[web_audience |-> "off"], [web_audience |-> "any"]}
    [] kind = "db"   -> {[db_audience |-> "off"], [db_audience |-> "any", db_port |-> 0],
                         [db_audience |-> "restricted", db_from |-> {All4}]}
    [] kind = "mail" -> {[mail |-> {}], [mail |-> {25, 995}]}
    [] kind = "protection" -> {[default_deny_inbound |-> b] : b \in BOOLEAN}
    [] kind = "outbound" ->
         {[out_restrict |-> TRUE, out_allow |-> {"dns"}], [out_restrict |-> FALSE, out_block |-> {Net4}],
          [out_block_refs |-> {"feed"}, block_sets_raw |-> {<< "feed", Net6 >>}],
          [out_block_refs |-> {"gone"}], [out_custom_tcp |-> {70000}]}
    [] kind = "nat" ->
         {[pf |-> << >>, mq |-> << [oif |-> None, source |-> None], [oif |-> "wg0", source |-> Net4] >>],
          [pf |-> << Forward("udp", None, None, 53, "h2", 0), Forward(None, None, None, 0, None, 0) >>],
          [pf |-> << Forward("tcp", None, None, 0, "h2", 0) >>]}
    [] kind = "marks" ->
         {[mk |-> << MkMark("bulk", None, "tcp", 25, None, 1), MkMark(None, None, None, 0, None, 0) >>],
          [mk |-> << MkMark("bulk", None, None, 25, None, 1) >>]}
    [] kind = "ct" -> {[ct |-> {}], [ct |-> {"h323"}]}
=============================================================================
