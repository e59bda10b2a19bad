----------------------------- MODULE MCTraffic -----------------------------
(* The presets that TLC tries.                                             *)
EXTENDS Cards, PresetShapes

SshShapes ==
  {None, Ssh(0, {}, {}, FALSE), Ssh(0, {Net4, Net6}, {}, TRUE), Ssh(7, {Net6}, {"wg0"}, FALSE),
   Ssh(0, {}, {"lo", "wg0"}, TRUE)}
OutShapes ==
  {None, Out(FALSE, {"http"}, {}, {Net4, Net6}, {}), Out(TRUE, {"dns", "ping"}, {}, {}, {"feed"}),
   Out(TRUE, {"http", "smtp"}, {7, 22}, {Net4}, {"feed6"}), Out(FALSE, {}, {}, {}, {"feed", "feed6"}),
   Out(TRUE, {"https", "ntp"}, {}, {}, {})}
Feeds ==
  {"feed" :> Set("v4", {Net4, All4}) @@ "feed6" :> Set("v6", {Net6}),
   "feed" :> Set("v4", {Net4, Net6}), "feed" :> Set("v4", {})}

Filters ==
  {[Nothing EXCEPT !.deny = d, !.ssh = s, !.caddy = d, !.db = b, !.mail = IF b = None THEN {} ELSE {25, 587}, !.outbound = o, !.blockSets = f] :
     d \in BOOLEAN, s \in SshShapes, b \in {None, Db(0, {Net4})}, o \in OutShapes, f \in Feeds}

ForwardLists ==
  {<< >>, << Forward("tcp", None, None, 22, "h2", 7), Forward(None, None, Net4, 22, "h1", 0) >>,
   << Forward("udp", "wg0", None, 53, "h1", 0), Forward("tcp", None, None, 80, "h1", 7),
      Forward("tcp", None, Net4, 80, "h1", 0) >>}
MarkLists ==
  {<< >>, << MkMark("vpn", Net6, None, 0, None, 2), MkMark("bulk", None, "tcp", 80, None, 1) >>,
   << MkMark("bulk", All4, "icmp", 0, "wg0", 1), MkMark("vpn", None, "udp", 53, None, 1) >>,
   << MkMark("vpn", None, "tcp", 80, None, 1), MkMark("vpn", None, "tcp", 0, None, 2) >>}

Routings ==
  {[Nothing EXCEPT !.deny = d, !.forwards = f, !.marks = m] :
     d \in BOOLEAN, f \in ForwardLists, m \in MarkLists}

MCBooted == Filters \cup Routings

Lockdown == [Nothing EXCEPT !.deny = TRUE, !.ssh = Ssh(0, {Net6}, {}, FALSE),
                            !.outbound = Out(TRUE, {"dns"}, {}, {Net4}, {})]
MCStageable == {Nothing, Lockdown, [Lockdown EXCEPT !.outbound = None],
                [Lockdown EXCEPT !.forwards = << Forward("tcp", None, None, 22, "h2", 7) >>,
                                !.marks = << MkMark("vpn", None, "tcp", 80, None, 2) >>],
                [Nothing EXCEPT !.outbound = Out(FALSE, {}, {}, {}, {"feed"}), !.blockSets = "feed" :> Set("v4", {Net4})],
                [Lockdown EXCEPT !.outbound = Out(TRUE, {}, {}, {}, {})]}

(* SSH only, then with the outbound traffic restricted as well, and back.  *)
SshOnly    == [Nothing EXCEPT !.deny = TRUE, !.ssh = Ssh(0, {}, {}, FALSE)]
Restricted == [SshOnly EXCEPT !.outbound = Out(TRUE, {"dns"}, {}, {}, {})]
MCBefore   == {SshOnly}
MCUndone   == {SshOnly, Restricted}
=============================================================================
