-------------------------------- MODULE Nft --------------------------------
(***************************************************************************)
(* What one run of `nft -f -` does with the script that linuxAdapter.Apply *)
(* writes: for every table of the ruleset `add table` and `flush table`,   *)
(* then the rendered table.  nft commits the script as one transaction.    *)
(*                                                                         *)
(* A ruleset maps names of tables to tables; a table has chains and sets,  *)
(* each a function from names.  A chain has a policy ("none" where the     *)
(* configuration gives none) and a sequence of rules; a set is the set of  *)
(* its elements.  The tables of the kernel have the same form.  Rules and  *)
(* elements are opaque.  Config.ToRuleset and Presets.CompileTables mark   *)
(* every table they make as owned, so the filter on Owned lets every table *)
(* of a ruleset through.                                                   *)
(***************************************************************************)
EXTENDS Sequences

FreshTable == [chains |-> << >>, sets |-> << >>]
FreshChain == [policy |-> "accept", rules |-> << >>]

Lookup(f, x, default) == IF x \in DOMAIN f THEN f[x] ELSE default

(* `flush table` deletes the rules of every chain.  Chains, their policies *)
(* and the elements of sets stay.                                          *)
Flush(t) ==
  [t EXCEPT !.chains = [c \in DOMAIN t.chains |-> [t.chains[c] EXCEPT !.rules = << >>]]]

(* `chain c { policy p; rules }` creates the chain or adds to it, and      *)
(* changes the policy only where one is written.                           *)
AddChain(old, new) ==
  [policy |-> IF new.policy = "none" THEN old.policy ELSE new.policy,
   rules  |-> old.rules \o new.rules]

(* `table t { ... }` adds to what the table holds.                         *)
AddTable(old, new) ==
  [chains |-> [c \in DOMAIN old.chains \cup DOMAIN new.chains |->
                 IF c \in DOMAIN new.chains
                 THEN AddChain(Lookup(old.chains, c, FreshChain), new.chains[c])
                 ELSE old.chains[c]],
   sets   |-> [s \in DOMAIN old.sets \cup DOMAIN new.sets |->
                 Lookup(old.sets, s, {}) \cup Lookup(new.sets, s, {})]]

(* Mutants: the script starts with `flush ruleset`; the script has no      *)
(* `flush table`.                                                          *)
ApplyFlushingAll(kernel, rs) ==
  [n \in DOMAIN rs |-> AddTable(FreshTable, rs[n])]

ApplyUnflushed(kernel, rs) ==
  [n \in DOMAIN kernel \cup DOMAIN rs |->
     IF n \in DOMAIN rs
     THEN AddTable(Lookup(kernel, n, FreshTable), rs[n])
     ELSE kernel[n]]

(* The whole script: tables that the ruleset does not name are not in it.  *)
Apply(kernel, rs) ==
  [n \in DOMAIN kernel \cup DOMAIN rs |->
     IF n \in DOMAIN rs
     THEN AddTable(Flush(Lookup(kernel, n, FreshTable)), rs[n])
     ELSE kernel[n]]
-----------------------------------------------------------------------------
(* Vocabulary for properties.                                              *)

(* The kernel enforces every chain of a ruleset: the rules are exactly     *)
(* those of the ruleset, a written policy is in force, and the sets hold   *)
(* at least the elements asked for.                                        *)
EnforcesTable(t, new) ==
  /\ \A c \in DOMAIN new.chains :
       /\ c \in DOMAIN t.chains
       /\ t.chains[c].rules = new.chains[c].rules
       /\ new.chains[c].policy \in {"none", t.chains[c].policy}
  /\ \A s \in DOMAIN new.sets : s \in DOMAIN t.sets /\ new.sets[s] \subseteq t.sets[s]

Enforces(kernel, rs) ==
  \A n \in DOMAIN rs : n \in DOMAIN kernel /\ EnforcesTable(kernel[n], rs[n])

(* A chain left behind by an earlier ruleset has no rules, only a policy.  *)
OnlyShells(kernel, rs) ==
  \A n \in DOMAIN rs \cap DOMAIN kernel :
    \A c \in DOMAIN kernel[n].chains \ DOMAIN rs[n].chains : kernel[n].chains[c].rules = << >>

(* Applying snap undoes cand completely: snap names every table, chain,    *)
(* set and element of cand and writes a policy wherever cand writes one.   *)
CoversTable(snap, cand) ==
  /\ \A c \in DOMAIN cand.chains :
       /\ c \in DOMAIN snap.chains
       /\ cand.chains[c].policy # "none" => snap.chains[c].policy # "none"
  /\ \A s \in DOMAIN cand.sets : s \in DOMAIN snap.sets /\ cand.sets[s] \subseteq snap.sets[s]

Covers(snap, cand) ==
  \A n \in DOMAIN cand : n \in DOMAIN snap /\ CoversTable(snap[n], cand[n])
=============================================================================
