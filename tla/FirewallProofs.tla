--------------------------- MODULE FirewallProofs ---------------------------
(***************************************************************************)
(* What one apply, and an apply that undoes another, do to the kernel, for *)
(* every ruleset and every kernel.  Then, on the stager over nft:          *)
(* whatever requests, timers and failed runs of nft do, every apply is of  *)
(* one of the Rulesets, and so no table that is not Zeerak's changes; and  *)
(* between two calls that do not overlap the kernel enforces the ruleset   *)
(* in the adapter's cache.  Of what reads the kernel meanwhile: an empty   *)
(* preview means that nothing would change, and what the simulation of     *)
(* packets reports is what the rules do.                                   *)
(***************************************************************************)
EXTENDS Reads, FiniteSetTheorems, TLAPS

CONSTANTS
  Names,      (* of tables, chains and sets                                 *)
  Rules, Elements

Policies == {"accept", "drop", "none"}

PartialFcns(S, T) == UNION {[D -> T] : D \in SUBSET S}

Chains   == [policy : Policies, rules : Seq(Rules)]
Tables   == [chains : PartialFcns(Names, Chains), sets : PartialFcns(Names, SUBSET Elements)]
Contents == PartialFcns(Names, Tables)
-----------------------------------------------------------------------------
LEMMA PartialFcn ==
  ASSUME NEW S, NEW T, NEW f \in PartialFcns(S, T)
  PROVE  /\ DOMAIN f \subseteq S
         /\ f \in [DOMAIN f -> T]
BY DEF PartialFcns

LEMMA IsPartialFcn ==
  ASSUME NEW S, NEW T, NEW D \in SUBSET S, NEW f \in [D -> T]
  PROVE  f \in PartialFcns(S, T)
BY DEF PartialFcns

LEMMA LookupType ==
  ASSUME NEW S, NEW T, NEW f \in PartialFcns(S, T), NEW x, NEW d \in T
  PROVE  Lookup(f, x, d) \in T
BY PartialFcn DEF Lookup

LEMMA FreshType == FreshTable \in Tables /\ FreshChain \in Chains
<1>1. << >> \in PartialFcns(Names, Chains) /\ << >> \in PartialFcns(Names, SUBSET Elements)
  <2>1. \A T : << >> \in [{} -> T]
    OBVIOUS
  <2> QED
    BY <2>1 DEF PartialFcns
<1>2. << >> \in Seq(Rules)
  OBVIOUS
<1> QED
  BY <1>1, <1>2 DEF FreshTable, FreshChain, Tables, Chains, Policies

(* What Flush keeps and what it drops.                                     *)
LEMMA FlushTable ==
  ASSUME NEW t \in Tables
  PROVE  /\ Flush(t) \in Tables
         /\ Flush(t).sets = t.sets
         /\ DOMAIN Flush(t).chains = DOMAIN t.chains
         /\ \A c \in DOMAIN t.chains :
              Flush(t).chains[c] = [policy |-> t.chains[c].policy, rules |-> << >>]
<1> DEFINE cs == [c \in DOMAIN t.chains |-> [t.chains[c] EXCEPT !.rules = << >>]]
<1>1. t.chains \in PartialFcns(Names, Chains) /\ t.sets \in PartialFcns(Names, SUBSET Elements)
  BY DEF Tables
<1>2. /\ DOMAIN t.chains \subseteq Names
      /\ \A c \in DOMAIN t.chains : t.chains[c] \in Chains
  BY <1>1, PartialFcn
<1>3. Flush(t) = [chains |-> cs, sets |-> t.sets]
  BY DEF Flush, Tables
<1>4. \A c \in DOMAIN t.chains : cs[c] = [policy |-> t.chains[c].policy, rules |-> << >>]
  BY <1>2 DEF Chains
<1>5. ASSUME NEW c \in DOMAIN t.chains PROVE cs[c] \in Chains
  <2>1. t.chains[c].policy \in Policies
    BY <1>2 DEF Chains
  <2>2. [policy |-> t.chains[c].policy, rules |-> << >>] \in Chains
    BY <2>1 DEF Chains
  <2> QED
    BY <2>2, <1>4
<1>6. cs \in PartialFcns(Names, Chains)
  BY <1>2, <1>5, IsPartialFcn
<1> QED
  BY <1>1, <1>3, <1>4, <1>6 DEF Tables

(* A chain of a flushed table, present or about to be created.             *)
LEMMA FlushedChain ==
  ASSUME NEW t \in Tables, NEW c
  PROVE  Lookup(Flush(t).chains, c, FreshChain)
           = [policy |-> Lookup(t.chains, c, FreshChain).policy, rules |-> << >>]
<1>1. CASE c \in DOMAIN t.chains
  BY <1>1, FlushTable DEF Lookup
<1>2. CASE c \notin DOMAIN t.chains
  BY <1>2, FlushTable DEF Lookup, FreshChain
<1> QED
  BY <1>1, <1>2

(* The chains and sets of a table to which another was added.              *)
LEMMA AddedChain ==
  ASSUME NEW old \in Tables, NEW new \in Tables, NEW c \in DOMAIN new.chains
  PROVE  LET was == Lookup(old.chains, c, FreshChain)
         IN  /\ was \in Chains
             /\ AddTable(old, new).chains[c] = AddChain(was, new.chains[c])
             /\ AddChain(was, new.chains[c]) \in Chains
<1>1. new.chains[c] \in Chains /\ old.chains \in PartialFcns(Names, Chains)
  BY PartialFcn DEF Tables
<1>2. Lookup(old.chains, c, FreshChain) \in Chains
  BY <1>1, FreshType, LookupType
<1>3. AddTable(old, new).chains[c] = AddChain(Lookup(old.chains, c, FreshChain), new.chains[c])
  BY DEF AddTable
<1>4. AddChain(Lookup(old.chains, c, FreshChain), new.chains[c]) \in Chains
  BY <1>1, <1>2 DEF AddChain, Chains
<1> QED
  BY <1>2, <1>3, <1>4

LEMMA AddTableType ==
  ASSUME NEW old \in Tables, NEW new \in Tables
  PROVE  /\ AddTable(old, new) \in Tables
         /\ DOMAIN AddTable(old, new).chains = DOMAIN old.chains \cup DOMAIN new.chains
         /\ DOMAIN AddTable(old, new).sets = DOMAIN old.sets \cup DOMAIN new.sets
<1> DEFINE t == AddTable(old, new)
           C == DOMAIN old.chains \cup DOMAIN new.chains
           S == DOMAIN old.sets \cup DOMAIN new.sets
<1>1. /\ old.chains \in PartialFcns(Names, Chains) /\ new.chains \in PartialFcns(Names, Chains)
      /\ old.sets \in PartialFcns(Names, SUBSET Elements)
      /\ new.sets \in PartialFcns(Names, SUBSET Elements)
  BY DEF Tables
<1>2. C \subseteq Names /\ S \subseteq Names
  BY <1>1, PartialFcn
<1>3. ASSUME NEW c \in C PROVE t.chains[c] \in Chains
  <2>1. CASE c \in DOMAIN new.chains
    BY <2>1, AddedChain
  <2>2. CASE c \notin DOMAIN new.chains
    <3>1. t.chains[c] = old.chains[c] /\ c \in DOMAIN old.chains
      BY <2>2 DEF AddTable
    <3> QED
      BY <3>1, <1>1, PartialFcn
  <2> QED
    BY <2>1, <2>2
<1>4. ASSUME NEW s \in S PROVE t.sets[s] \in SUBSET Elements
  <2>1. Lookup(old.sets, s, {}) \in SUBSET Elements /\ Lookup(new.sets, s, {}) \in SUBSET Elements
    BY <1>1, LookupType
  <2>2. t.sets[s] = Lookup(old.sets, s, {}) \cup Lookup(new.sets, s, {})
    BY DEF AddTable
  <2> QED
    BY <2>1, <2>2
<1>5. t.chains \in [C -> Chains] /\ t.sets \in [S -> SUBSET Elements]
  BY <1>3, <1>4 DEF AddTable
<1>6. t.chains \in PartialFcns(Names, Chains) /\ t.sets \in PartialFcns(Names, SUBSET Elements)
  BY <1>2, <1>5, IsPartialFcn
<1>7. t = [chains |-> t.chains, sets |-> t.sets]
  BY DEF AddTable
<1> QED
  BY <1>5, <1>6, <1>7 DEF Tables

(* What flushing a table and adding to it leaves, chain by chain and set   *)
(* by set.                                                                 *)
LEMMA TableBlock ==
  ASSUME NEW t \in Tables, NEW new \in Tables
  PROVE  LET u == AddTable(Flush(t), new)
         IN  /\ u \in Tables
             /\ DOMAIN u.chains = DOMAIN t.chains \cup DOMAIN new.chains
             /\ DOMAIN u.sets = DOMAIN t.sets \cup DOMAIN new.sets
             /\ \A c \in DOMAIN new.chains :
                  u.chains[c] = [policy |-> IF new.chains[c].policy = "none"
                                            THEN Lookup(t.chains, c, FreshChain).policy
                                            ELSE new.chains[c].policy,
                                 rules  |-> new.chains[c].rules]
             /\ \A c \in DOMAIN t.chains \ DOMAIN new.chains :
                  u.chains[c] = [policy |-> t.chains[c].policy, rules |-> << >>]
             /\ \A s \in DOMAIN u.sets :
                  u.sets[s] = Lookup(t.sets, s, {}) \cup Lookup(new.sets, s, {})
<1> DEFINE u == AddTable(Flush(t), new)
<1>1. /\ Flush(t) \in Tables
      /\ Flush(t).sets = t.sets
      /\ DOMAIN Flush(t).chains = DOMAIN t.chains
      /\ \A c \in DOMAIN t.chains :
           Flush(t).chains[c] = [policy |-> t.chains[c].policy, rules |-> << >>]
  BY FlushTable
<1>2. /\ u \in Tables
      /\ DOMAIN u.chains = DOMAIN t.chains \cup DOMAIN new.chains
      /\ DOMAIN u.sets = DOMAIN t.sets \cup DOMAIN new.sets
  BY <1>1, AddTableType
<1>3. ASSUME NEW c \in DOMAIN new.chains
      PROVE  u.chains[c] = [policy |-> IF new.chains[c].policy = "none"
                                       THEN Lookup(t.chains, c, FreshChain).policy
                                       ELSE new.chains[c].policy,
                            rules  |-> new.chains[c].rules]
  <2> DEFINE was == Lookup(Flush(t).chains, c, FreshChain)
  <2>1. was = [policy |-> Lookup(t.chains, c, FreshChain).policy, rules |-> << >>]
    BY FlushedChain
  <2>2. new.chains[c] \in Chains
    BY PartialFcn DEF Tables
  <2>3. << >> \o new.chains[c].rules = new.chains[c].rules
    BY <2>2 DEF Chains
  <2>4. u.chains[c] = AddChain(was, new.chains[c])
    BY <1>1, AddedChain
  <2> HIDE DEF was, u
  <2> QED
    BY <2>1, <2>3, <2>4 DEF AddChain
<1>4. ASSUME NEW c \in DOMAIN t.chains, c \notin DOMAIN new.chains
      PROVE  u.chains[c] = [policy |-> t.chains[c].policy, rules |-> << >>]
  <2>1. u.chains[c] = Flush(t).chains[c]
    BY <1>1, <1>4 DEF AddTable
  <2> QED
    BY <2>1, <1>1
<1>5. ASSUME NEW s \in DOMAIN u.sets
      PROVE  u.sets[s] = Lookup(t.sets, s, {}) \cup Lookup(new.sets, s, {})
  BY <1>1, <1>2 DEF AddTable
<1> HIDE DEF u
<1>6. \A c \in DOMAIN new.chains :
        u.chains[c] = [policy |-> IF new.chains[c].policy = "none"
                                  THEN Lookup(t.chains, c, FreshChain).policy
                                  ELSE new.chains[c].policy,
                       rules  |-> new.chains[c].rules]
  BY <1>3
<1>7. \A c \in DOMAIN t.chains \ DOMAIN new.chains :
        u.chains[c] = [policy |-> t.chains[c].policy, rules |-> << >>]
  BY <1>4
<1> QED
  BY <1>2, <1>5, <1>6, <1>7 DEF u

LEMMA ApplyType ==
  ASSUME NEW held \in Contents, NEW rs \in Contents
  PROVE  /\ Apply(held, rs) \in Contents
         /\ DOMAIN Apply(held, rs) = DOMAIN held \cup DOMAIN rs
         /\ \A n \in DOMAIN rs :
              /\ Lookup(held, n, FreshTable) \in Tables
              /\ rs[n] \in Tables
              /\ Apply(held, rs)[n] = AddTable(Flush(Lookup(held, n, FreshTable)), rs[n])
         /\ \A n \in DOMAIN held \ DOMAIN rs : Apply(held, rs)[n] = held[n]
<1> DEFINE D == DOMAIN held \cup DOMAIN rs
           a == Apply(held, rs)
<1>1. /\ D \subseteq Names
      /\ \A n \in DOMAIN held : held[n] \in Tables
      /\ \A n \in DOMAIN rs : rs[n] \in Tables
  BY PartialFcn DEF Contents
<1>2. \A n \in DOMAIN rs : Lookup(held, n, FreshTable) \in Tables
  BY FreshType, LookupType DEF Contents
<1>3. \A n \in DOMAIN rs : a[n] = AddTable(Flush(Lookup(held, n, FreshTable)), rs[n])
  BY DEF Apply
<1>4. \A n \in DOMAIN held \ DOMAIN rs : a[n] = held[n]
  BY DEF Apply
<1>5. \A n \in D : a[n] \in Tables
  BY <1>1, <1>2, <1>3, <1>4, FlushTable, AddTableType
<1>6. a \in [D -> Tables]
  BY <1>5 DEF Apply
<1>7. a \in Contents
  BY <1>1, <1>6, IsPartialFcn DEF Contents
<1> QED
  BY <1>1, <1>2, <1>3, <1>4, <1>6, <1>7
-----------------------------------------------------------------------------
(* linuxAdapter.Apply puts exactly the rules of the ruleset in the chains  *)
(* that it names, whatever was there, and leaves no rule in the others.    *)
THEOREM ApplyEnforces ==
  ASSUME NEW held \in Contents, NEW rs \in Contents
  PROVE  Enforces(Apply(held, rs), rs) /\ OnlyShells(Apply(held, rs), rs)
<1> SUFFICES ASSUME NEW n \in DOMAIN rs
             PROVE  LET t == Apply(held, rs)[n]
                    IN  /\ EnforcesTable(t, rs[n])
                        /\ \A c \in DOMAIN t.chains \ DOMAIN rs[n].chains : t.chains[c].rules = << >>
  BY ApplyType DEF Enforces, OnlyShells
<1> DEFINE old == Lookup(held, n, FreshTable)
           t   == AddTable(Flush(old), rs[n])
<1>1. old \in Tables /\ rs[n] \in Tables /\ Apply(held, rs)[n] = t
  BY ApplyType
<1>2. ASSUME NEW c \in DOMAIN rs[n].chains
      PROVE  /\ c \in DOMAIN t.chains
             /\ t.chains[c].rules = rs[n].chains[c].rules
             /\ rs[n].chains[c].policy \in {"none", t.chains[c].policy}
  <2> DEFINE new == rs[n].chains[c]
             p   == Lookup(old.chains, c, FreshChain).policy
  <2>1. /\ DOMAIN t.chains = DOMAIN old.chains \cup DOMAIN rs[n].chains
        /\ t.chains[c] = [policy |-> IF new.policy = "none" THEN p ELSE new.policy,
                          rules  |-> new.rules]
    BY <1>1, TableBlock
  <2> HIDE DEF t, p
  <2> QED
    BY <2>1
<1>3. ASSUME NEW s \in DOMAIN rs[n].sets
      PROVE  s \in DOMAIN t.sets /\ rs[n].sets[s] \subseteq t.sets[s]
  BY DEF AddTable, Lookup
<1>4. ASSUME NEW c \in DOMAIN t.chains \ DOMAIN rs[n].chains
      PROVE  t.chains[c].rules = << >>
  <2>1. c \in DOMAIN old.chains \ DOMAIN rs[n].chains
    BY <1>1, TableBlock
  <2>2. t.chains[c] = [policy |-> old.chains[c].policy, rules |-> << >>]
    BY <1>1, <2>1, TableBlock
  <2> HIDE DEF t, old
  <2> QED
    BY <2>2
<1> QED
  BY <1>1, <1>2, <1>3, <1>4 DEF EnforcesTable

(* Tables with the same chains and the same sets are equal.                *)
LEMMA SameTable ==
  ASSUME NEW t \in Tables, NEW u \in Tables,
         DOMAIN t.chains = DOMAIN u.chains, \A c \in DOMAIN t.chains : t.chains[c] = u.chains[c],
         DOMAIN t.sets = DOMAIN u.sets, \A s \in DOMAIN t.sets : t.sets[s] = u.sets[s]
  PROVE  t = u
<1>1. t.chains = u.chains
  BY PartialFcn DEF Tables
<1>2. t.sets = u.sets
  BY PartialFcn DEF Tables
<1> QED
  BY <1>1, <1>2 DEF Tables

LEMMA UndoTable ==
  ASSUME NEW t \in Tables, NEW tried \in Tables, NEW prior \in Tables, CoversTable(prior, tried)
  PROVE  AddTable(Flush(AddTable(Flush(t), tried)), prior) = AddTable(Flush(t), prior)
<1> DEFINE mid  == AddTable(Flush(t), tried)
           undo == AddTable(Flush(mid), prior)
           goal == AddTable(Flush(t), prior)
<1>1. /\ mid \in Tables
      /\ DOMAIN mid.chains = DOMAIN t.chains \cup DOMAIN tried.chains
      /\ DOMAIN mid.sets = DOMAIN t.sets \cup DOMAIN tried.sets
  BY TableBlock
<1>2. undo \in Tables /\ goal \in Tables
  BY <1>1, TableBlock
<1>3. DOMAIN undo.chains = DOMAIN goal.chains /\ DOMAIN undo.sets = DOMAIN goal.sets
  <2>1. /\ DOMAIN undo.chains = DOMAIN mid.chains \cup DOMAIN prior.chains
        /\ DOMAIN undo.sets = DOMAIN mid.sets \cup DOMAIN prior.sets
    BY <1>1, TableBlock
  <2>2. /\ DOMAIN goal.chains = DOMAIN t.chains \cup DOMAIN prior.chains
        /\ DOMAIN goal.sets = DOMAIN t.sets \cup DOMAIN prior.sets
    BY TableBlock
  <2>3. DOMAIN tried.chains \subseteq DOMAIN prior.chains /\ DOMAIN tried.sets \subseteq DOMAIN prior.sets
    BY DEF CoversTable
  <2> QED
    BY <1>1, <2>1, <2>2, <2>3
<1>4. ASSUME NEW c \in DOMAIN prior.chains PROVE undo.chains[c] = goal.chains[c]
  <2> DEFINE p == Lookup(t.chains, c, FreshChain).policy
             q == Lookup(mid.chains, c, FreshChain).policy
             new == prior.chains[c]
  <2>1. undo.chains[c] = [policy |-> IF new.policy = "none" THEN q ELSE new.policy, rules |-> new.rules]
    BY <1>1, TableBlock
  <2>2. goal.chains[c] = [policy |-> IF new.policy = "none" THEN p ELSE new.policy, rules |-> new.rules]
    BY TableBlock
  <2>3. new.policy = "none" => q = p
    <3>1. CASE c \in DOMAIN tried.chains
      <4>1. mid.chains[c] = [policy |-> IF tried.chains[c].policy = "none" THEN p
                                        ELSE tried.chains[c].policy,
                             rules  |-> tried.chains[c].rules]
        BY <3>1, TableBlock
      <4>2. new.policy = "none" => tried.chains[c].policy = "none"
        BY <3>1 DEF CoversTable
      <4>3. q = mid.chains[c].policy
        BY <3>1, <1>1 DEF Lookup
      <4> HIDE DEF mid, p, q, new
      <4> QED
        BY <4>1, <4>2, <4>3
    <3>2. CASE c \in DOMAIN t.chains \ DOMAIN tried.chains
      <4>1. mid.chains[c] = [policy |-> t.chains[c].policy, rules |-> << >>]
        BY <3>2, TableBlock
      <4>2. q = mid.chains[c].policy /\ p = t.chains[c].policy
        BY <3>2, <1>1 DEF Lookup
      <4> HIDE DEF mid, p, q
      <4> QED
        BY <4>1, <4>2
    <3>3. CASE c \notin DOMAIN t.chains \cup DOMAIN tried.chains
      BY <3>3, <1>1 DEF Lookup
    <3> QED
      BY <3>1, <3>2, <3>3
  <2> HIDE DEF p, q, undo, goal, new
  <2> QED
    BY <2>1, <2>2, <2>3
<1>5. ASSUME NEW c \in DOMAIN undo.chains, c \notin DOMAIN prior.chains
      PROVE  undo.chains[c] = goal.chains[c]
  <2>1. c \in DOMAIN mid.chains
    BY <1>1, <1>5, TableBlock
  <2>2. c \in DOMAIN t.chains /\ c \notin DOMAIN tried.chains
    BY <1>1, <1>5, <2>1 DEF CoversTable
  <2>3. undo.chains[c] = [policy |-> mid.chains[c].policy, rules |-> << >>]
    BY <1>1, <1>5, <2>1, TableBlock
  <2>4. mid.chains[c] = [policy |-> t.chains[c].policy, rules |-> << >>]
    BY <2>2, TableBlock
  <2>5. goal.chains[c] = [policy |-> t.chains[c].policy, rules |-> << >>]
    BY <1>5, <2>2, TableBlock
  <2> HIDE DEF mid, undo, goal
  <2> QED
    BY <2>3, <2>4, <2>5
<1>6. ASSUME NEW s \in DOMAIN undo.sets PROVE undo.sets[s] = goal.sets[s]
  <2>1. undo.sets[s] = Lookup(mid.sets, s, {}) \cup Lookup(prior.sets, s, {})
    BY <1>1, TableBlock
  <2>2. goal.sets[s] = Lookup(t.sets, s, {}) \cup Lookup(prior.sets, s, {})
    BY <1>3, TableBlock
  <2>3. Lookup(mid.sets, s, {}) = Lookup(t.sets, s, {}) \cup Lookup(tried.sets, s, {})
    <3>1. CASE s \in DOMAIN mid.sets
      <4>1. mid.sets[s] = Lookup(t.sets, s, {}) \cup Lookup(tried.sets, s, {})
        BY <3>1, TableBlock
      <4> QED
        BY <3>1, <4>1 DEF Lookup
    <3>2. CASE s \notin DOMAIN mid.sets
      BY <3>2, <1>1 DEF Lookup
    <3> QED
      BY <3>1, <3>2
  <2>4. Lookup(tried.sets, s, {}) \subseteq Lookup(prior.sets, s, {})
    BY DEF CoversTable, Lookup
  <2> HIDE DEF mid, undo, goal
  <2> QED
    BY <2>1, <2>2, <2>3, <2>4
<1> HIDE DEF undo, goal
<1>7. \A c \in DOMAIN undo.chains : undo.chains[c] = goal.chains[c]
  BY <1>4, <1>5
<1>8. undo = goal
  BY <1>2, <1>3, <1>6, <1>7, SameTable
<1> QED
  BY <1>8 DEF undo, goal

(* Applying the snapshot undoes the candidate completely, whatever the     *)
(* kernel held, if the snapshot covers the candidate; if it does not, some *)
(* of the candidate stays (run traffic_leftovers).                        *)
THEOREM UndoIsExact ==
  ASSUME NEW held \in Contents, NEW tried \in Contents, NEW prior \in Contents,
         Covers(prior, tried)
  PROVE  Apply(Apply(held, tried), prior) = Apply(held, prior)
<1> DEFINE mid  == Apply(held, tried)
           undo == Apply(mid, prior)
           goal == Apply(held, prior)
<1>1. mid \in Contents /\ DOMAIN mid = DOMAIN held \cup DOMAIN tried
  BY ApplyType
<1>2. DOMAIN undo = DOMAIN mid \cup DOMAIN prior /\ DOMAIN goal = DOMAIN held \cup DOMAIN prior
  BY DEF Apply
<1>3. DOMAIN tried \subseteq DOMAIN prior
  BY DEF Covers
<1>4. ASSUME NEW n \in DOMAIN prior PROVE undo[n] = goal[n]
  <2> DEFINE t == Lookup(held, n, FreshTable)
  <2>1. t \in Tables /\ prior[n] \in Tables
    BY ApplyType
  <2>2. goal[n] = AddTable(Flush(t), prior[n])
    BY DEF Apply
  <2>3. undo[n] = AddTable(Flush(Lookup(mid, n, FreshTable)), prior[n])
    BY DEF Apply
  <2>4. CASE n \in DOMAIN tried
    <3>1. tried[n] \in Tables
      BY <2>4, ApplyType
    <3>2. mid[n] = AddTable(Flush(t), tried[n])
      BY <2>4 DEF Apply
    <3>3. Lookup(mid, n, FreshTable) = mid[n]
      BY <2>4, <1>1 DEF Lookup
    <3>4. CoversTable(prior[n], tried[n])
      BY <2>4 DEF Covers
    <3>5. AddTable(Flush(AddTable(Flush(t), tried[n])), prior[n]) = AddTable(Flush(t), prior[n])
      BY <2>1, <3>1, <3>4, UndoTable
    <3> HIDE DEF mid, undo, goal, t
    <3> QED
      BY <2>2, <2>3, <3>2, <3>3, <3>5
  <2>5. CASE n \notin DOMAIN tried
    <3>1. n \in DOMAIN held => mid[n] = held[n]
      BY <2>5 DEF Apply
    <3>2. Lookup(mid, n, FreshTable) = t
      BY <2>5, <3>1, <1>1 DEF Lookup
    <3> HIDE DEF mid, undo, goal, t
    <3> QED
      BY <2>2, <2>3, <3>2
  <2> QED
    BY <2>4, <2>5
<1>5. ASSUME NEW n \in DOMAIN held, n \notin DOMAIN prior PROVE undo[n] = goal[n]
  <2>1. n \in DOMAIN mid /\ mid[n] = held[n]
    BY <1>5, <1>3 DEF Apply
  <2>2. undo[n] = mid[n]
    BY <1>5, <2>1 DEF Apply
  <2>3. goal[n] = held[n]
    BY <1>5 DEF Apply
  <2> QED
    BY <2>1, <2>2, <2>3
<1>6. undo = [n \in DOMAIN undo |-> undo[n]] /\ goal = [n \in DOMAIN goal |-> goal[n]]
  BY DEF Apply
<1> HIDE DEF mid, undo, goal
<1>7. DOMAIN undo = DOMAIN goal /\ \A n \in DOMAIN goal : undo[n] = goal[n]
  BY <1>1, <1>2, <1>3, <1>4, <1>5
<1>8. undo = goal
  BY <1>6, <1>7
<1> QED
  BY <1>8 DEF undo, goal, mid

(* Staging a candidate on top of an applied ruleset and undoing it leaves  *)
(* no trace, if that ruleset covers the candidate.                         *)
THEOREM StageThenUndo ==
  ASSUME NEW held \in Contents, NEW tried \in Contents, NEW prior \in Contents,
         Covers(prior, tried)
  PROVE  Apply(Apply(Apply(held, prior), tried), prior) = Apply(held, prior)
<1>1. Apply(held, prior) \in Contents
  BY ApplyType
<1>2. Apply(Apply(Apply(held, prior), tried), prior) = Apply(Apply(held, prior), prior)
  BY <1>1, UndoIsExact
<1>3. Covers(prior, prior)
  BY DEF Covers, CoversTable
<1>4. Apply(Apply(held, prior), prior) = Apply(held, prior)
  BY <1>3, UndoIsExact
<1> QED
  BY <1>2, <1>4
-----------------------------------------------------------------------------
(* The facts about Stager, for the Install and BootKernel of Firewall.     *)
S == INSTANCE StagerProofs WITH Install <- Apply, BootKernel <- Apply(Foreign, Boot)

(* The definitions that Firewall takes from Stager are those of S.         *)
LEMMA SameInit == Init => S!Init
BY DEF Init, S!Init, Procs, S!Procs

LEMMA SameNext == [Next]_vars => [S!Next]_(S!vars)
BY DEF Next, S!Next, vars, S!vars, stagerVars, S!stagerVars, Procs, S!Procs,
  Request, S!Request, Work, S!Work, StageWork, S!StageWork, TimerWork, S!TimerWork,
  RevertWork, S!RevertWork,
  StageCheck, S!StageCheck, StageSnapshot, S!StageSnapshot, StageApply, S!StageApply,
  StageRemember, S!StageRemember, StageFails, S!StageFails, StageCommit, S!StageCommit,
  Confirm, S!Confirm, RollbackCheck, S!RollbackCheck, RollbackFails, S!RollbackFails,
  Fire, S!Fire, TimeoutIgnored, S!TimeoutIgnored, TimeoutCheck, S!TimeoutCheck,
  TimeoutFails, S!TimeoutFails, RevertApply, S!RevertApply, RevertRemember, S!RevertRemember,
  RevertCommit, S!RevertCommit, Commit, S!Commit, Remember, S!Remember,
  Failed, S!Failed, Refused, S!Refused, Killed, S!Killed, Silenced, S!Silenced,
  StopTimer, S!StopTimer

LEMMA FirewallNilInv ==
  /\ Init => S!NilInv
  /\ S!NilInv /\ [Next]_vars => S!NilInv'
<1>1. Init => S!NilInv
  BY SameInit, S!InitNilInv, FirewallAssumption
  DEF S!ProcessAssumption, S!RulesetAssumption, S!FaultAssumption
<1>2. S!NilInv /\ [Next]_vars => S!NilInv'
  BY SameNext, S!NextNilInv, FirewallAssumption
  DEF S!ProcessAssumption, S!RulesetAssumption, S!FaultAssumption
<1> QED
  BY <1>1, <1>2

(* A step leaves the kernel alone or applies one of the Rulesets to it.    *)
LEMMA KernelStep ==
  ASSUME S!NilInv, [Next]_vars
  PROVE  kernel' = kernel \/ \E r \in Rulesets : kernel' = Apply(kernel, r)
<1> USE DEF S!NilInv, S!TypeOK, S!StageHasCandidate, S!RevertHasTarget, S!Procs, S!Staging, Procs
<1>1. ASSUME NEW ch \in Changes, StageApply(ch)
      PROVE  \E r \in Rulesets : kernel' = Apply(kernel, r)
  BY <1>1 DEF StageApply, Commit
<1>2. ASSUME NEW p \in Procs, RevertApply(p)
      PROVE  \E r \in Rulesets : kernel' = Apply(kernel, r)
  BY <1>2 DEF RevertApply, Commit
<1>3. CASE (\E ch \in Changes : StageApply(ch)) \/ (\E p \in Procs : RevertApply(p))
  BY <1>1, <1>2, <1>3
<1>4. CASE ~((\E ch \in Changes : StageApply(ch)) \/ (\E p \in Procs : RevertApply(p)))
  BY <1>4 DEF Next, Request, Work, StageWork, TimerWork, RevertWork, vars, StageCheck,
     StageSnapshot, StageRemember, StageFails, StageCommit, Confirm, RollbackCheck,
     RollbackFails, Fire, TimeoutIgnored, TimeoutCheck, TimeoutFails, RevertRemember,
     RevertCommit, Remember
<1> QED
  BY <1>3, <1>4

LEMMA ApplySparesForeign ==
  ASSUME NEW k, NEW r \in Rulesets, NEW n \in DOMAIN Foreign, n \in DOMAIN k
  PROVE  n \in DOMAIN Apply(k, r) /\ Apply(k, r)[n] = k[n]
BY ForeignAssumption DEF Apply

(* Tables of other software are read-only to Zeerak, under every           *)
(* interleaving of requests, timers and failures.                          *)
THEOREM ForeignIsNeverTouched == Spec => []ForeignUntouched
<1>1. Init => ForeignUntouched
  BY ApplySparesForeign, FirewallAssumption DEF Init, ForeignUntouched
<1>2. S!NilInv /\ ForeignUntouched /\ [Next]_vars => ForeignUntouched'
  <2> SUFFICES ASSUME S!NilInv, ForeignUntouched, [Next]_vars PROVE ForeignUntouched'
    OBVIOUS
  <2>1. CASE kernel' = kernel
    BY <2>1 DEF ForeignUntouched
  <2>2. CASE \E r \in Rulesets : kernel' = Apply(kernel, r)
    BY <2>2, ApplySparesForeign DEF ForeignUntouched
  <2> QED
    BY <2>1, <2>2, KernelStep
<1> QED
  BY <1>1, <1>2, FirewallNilInv, PTL DEF Spec
-----------------------------------------------------------------------------
(* Rulesets and tables of the form that module Nft describes, and the      *)
(* faults of runs that replace what a table holds: those that are refused. *)
WellFormed ==
  /\ Rulesets \subseteq Contents
  /\ Foreign \in Contents

Reliable == Faults \subseteq {"stage", "rollback"}

(* The kernel k enforces a ruleset and has no other rule in its tables.    *)
InForce(k, r) == Enforces(k, r) /\ OnlyShells(k, r)

InForceInv ==
  /\ S!ControlInv
  /\ kernel \in Contents
  /\ S!AtPeace => InForce(kernel, last)
  /\ \A ch \in Changes : pc[ch] \in {"stage-applied", "stage-commit"} => InForce(kernel, arg[ch])
  /\ \A ch \in Changes : pc[ch] = "stage-commit" => last = arg[ch]
  /\ \A p \in S!Procs : pc[p] \in {"revert-applied", "revert-commit"} => InForce(kernel, snap[p])
  /\ \A p \in S!Procs : pc[p] = "revert-commit" => last = snap[p]

LEMMA SameSerialNext == [SerialNext]_vars => [S!SerialNext]_(S!vars)
BY DEF SerialNext, S!SerialNext, Quiet, S!Quiet, AtRest, S!AtRest,
  vars, S!vars, stagerVars, S!stagerVars, Procs, S!Procs,
  Request, S!Request, Work, S!Work, StageWork, S!StageWork, TimerWork, S!TimerWork,
  RevertWork, S!RevertWork,
  StageCheck, S!StageCheck, StageSnapshot, S!StageSnapshot, StageApply, S!StageApply,
  StageRemember, S!StageRemember, StageFails, S!StageFails, StageCommit, S!StageCommit,
  Confirm, S!Confirm, RollbackCheck, S!RollbackCheck, RollbackFails, S!RollbackFails,
  Fire, S!Fire, TimeoutIgnored, S!TimeoutIgnored, TimeoutCheck, S!TimeoutCheck,
  TimeoutFails, S!TimeoutFails, RevertApply, S!RevertApply, RevertRemember, S!RevertRemember,
  RevertCommit, S!RevertCommit, Commit, S!Commit, Remember, S!Remember,
  Failed, S!Failed, Refused, S!Refused, Killed, S!Killed, Silenced, S!Silenced,
  StopTimer, S!StopTimer

LEMMA InitInForce == ASSUME WellFormed PROVE Init => InForceInv
<1> SUFFICES ASSUME Init PROVE InForceInv
  OBVIOUS
<1>1. S!ControlInv
  BY SameInit, S!InitControlInv, FirewallAssumption
  DEF S!ProcessAssumption, S!RulesetAssumption, S!FaultAssumption
<1>2. Boot \in Contents /\ Foreign \in Contents
  BY FirewallAssumption DEF WellFormed
<1>3. kernel \in Contents /\ InForce(kernel, last)
  BY <1>2, ApplyType, ApplyEnforces DEF Init, InForce
<1>4. \A p \in S!Procs : pc[p] \in {"new", "idle"}
  BY DEF Init, Procs, S!Procs
<1> QED
  BY <1>1, <1>3, <1>4 DEF InForceInv, S!Procs

LEMMA NextInForce ==
  ASSUME WellFormed, Reliable, InForceInv, [SerialNext]_vars
  PROVE  InForceInv'
<1>1. [S!LosslessNext]_(S!vars) /\ S!ControlInv'
  BY SameSerialNext, S!ReliableIsLossless, S!NextControlInv, FirewallAssumption
  DEF InForceInv, S!ControlInv, Reliable, S!Reliable,
      S!ProcessAssumption, S!RulesetAssumption, S!FaultAssumption
<1>2. ASSUME NEW r \in Rulesets, kernel' = Apply(kernel, r)
      PROVE  kernel' \in Contents /\ InForce(kernel', r)
  BY <1>2, ApplyType, ApplyEnforces DEF InForceInv, WellFormed, InForce
<1> USE <1>1
    DEF InForceInv, S!ControlInv, S!NilInv, S!TypeOK, S!StageHasCandidate, S!RevertHasTarget,
        S!OneAtWork, S!TickingIsCurrent, S!StageIsNotPending, S!AtPeace,
        S!Procs, S!AtRest, S!Staging, S!Reverting, S!ChangePhases, S!RollbackPhases, S!stagerVars
<1>3. ASSUME NEW ch \in Changes, NEW r \in Rulesets, S!Quiet, S!StageCheck(ch, r)
      PROVE  InForceInv'
  BY <1>3 DEF S!StageCheck, S!Quiet
<1>4. ASSUME NEW ch \in Changes, S!StageSnapshot(ch)
      PROVE  InForceInv'
  BY <1>4 DEF S!StageSnapshot
<1>5. ASSUME NEW ch \in Changes, S!StageApply(ch)
      PROVE  InForceInv'
  BY <1>5, <1>2, FirewallAssumption DEF S!StageApply, S!Commit
<1>6. ASSUME NEW ch \in Changes, S!StageRemember(ch)
      PROVE  InForceInv'
  BY <1>6 DEF S!StageRemember, S!Remember
<1>7. ASSUME NEW ch \in Changes, S!StageCommit(ch)
      PROVE  InForceInv'
  BY <1>7 DEF S!StageCommit
<1>8. ASSUME NEW ch \in Changes, S!StageFails(ch), pc[ch] = "stage-apply"
      PROVE  InForceInv'
  BY <1>8 DEF S!StageFails
<1>9. ASSUME NEW ch \in Changes, S!Fire(ch)
      PROVE  InForceInv'
  BY <1>9 DEF S!Fire
<1>10. ASSUME NEW ch \in Changes, S!TimeoutIgnored(ch)
      PROVE  InForceInv'
  BY <1>10 DEF S!TimeoutIgnored
<1>11. ASSUME NEW ch \in Changes, S!TimeoutCheck(ch)
      PROVE  InForceInv'
  BY <1>11 DEF S!TimeoutCheck, S!LiveIsNotCancelled
<1>12. ASSUME S!Quiet, S!Confirm
      PROVE  InForceInv'
  BY <1>12 DEF S!Confirm, S!StopTimer, S!Silenced, S!Quiet
<1>13. ASSUME NEW b \in Rollbacks, S!Quiet, S!RollbackCheck(b)
      PROVE  InForceInv'
  BY <1>13, FirewallAssumption, ZenonT(30) DEF S!RollbackCheck, S!StopTimer, S!Silenced, S!Quiet
<1>14. ASSUME NEW b \in Rollbacks, S!RollbackFails(b), pc[b] = "revert-apply"
      PROVE  InForceInv'
  BY <1>14, FirewallAssumption DEF S!RollbackFails
<1>15. ASSUME NEW p \in S!Procs, S!RevertApply(p)
      PROVE  InForceInv'
  BY <1>15, <1>2, FirewallAssumption DEF S!RevertApply, S!Commit
<1>16. ASSUME NEW p \in S!Procs, S!RevertRemember(p)
      PROVE  InForceInv'
  BY <1>16 DEF S!RevertRemember, S!Remember
<1>17. ASSUME NEW p \in S!Procs, S!RevertCommit(p)
      PROVE  InForceInv'
  BY <1>17 DEF S!RevertCommit
<1>18. CASE UNCHANGED S!vars
  BY <1>18 DEF S!vars
<1> QED
  BY <1>3, <1>4, <1>5, <1>6, <1>7, <1>8, <1>9, <1>10, <1>11, <1>12, <1>13, <1>14,
     <1>15, <1>16, <1>17, <1>18
  DEF S!LosslessNext, S!Request, S!RevertWork

(* Between two calls of a serial history the kernel enforces exactly the   *)
(* ruleset of the adapter's cache, for any well-formed rulesets and        *)
(* whatever other software keeps in the kernel.                            *)
THEOREM LastIsAlwaysEnforced ==
  ASSUME WellFormed, Reliable
  PROVE  SerialSpec => []LastIsEnforced
<1>1. InForceInv => LastIsEnforced
  BY DEF InForceInv, InForce, LastIsEnforced, Quiet, AtRest, Procs, S!Procs, S!AtPeace
<1> QED
  BY <1>1, InitInForce, NextInForce, PTL DEF SerialSpec
-----------------------------------------------------------------------------
(* What an empty preview means, for any well-formed rulesets and under     *)
(* every fault of the nft runs.                                            *)

(* The reads leave the stager alone, and Meanwhile is a step of it.        *)
LEMMA ReadsStep ==
  [ReadsNext]_<< firewallVars, cand, shown, moved >> => [Next]_vars
BY DEF ReadsNext, PreviewBegins, LiveTable, PreviewEnds, Meanwhile, SerialNext, Next,
   firewallVars, vars, stagerVars

(* Every table that has been read is what the kernel still holds, unless   *)
(* the kernel has changed since the preview began.                         *)
ReadInv ==
  /\ S!NilInv
  /\ kernel \in Contents
  /\ cand \in Rulesets \cup {None}
  /\ cand # None /\ ~moved => \A n \in DOMAIN shown : shown[n] = Lookup(kernel, n, Nothing)

LEMMA InitReadInv == ASSUME WellFormed PROVE ReadsInit => ReadInv
<1> SUFFICES ASSUME ReadsInit PROVE ReadInv
  OBVIOUS
<1>1. Boot \in Contents /\ Foreign \in Contents
  BY FirewallAssumption DEF WellFormed
<1>2. kernel \in Contents
  BY <1>1, ApplyType DEF ReadsInit, Init
<1> QED
  BY <1>2, FirewallNilInv DEF ReadsInit, ReadInv

LEMMA NextReadInv ==
  ASSUME WellFormed, ReadInv, [ReadsNext]_<< firewallVars, cand, shown, moved >>
  PROVE  ReadInv'
<1>1. S!NilInv'
  BY ReadsStep, FirewallNilInv DEF ReadInv
<1>2. kernel' \in Contents
  BY ReadsStep, KernelStep, ApplyType DEF ReadInv, WellFormed
<1>3. ASSUME NEW r \in Rulesets, PreviewBegins(r)
      PROVE  ReadInv'
  BY <1>1, <1>2, <1>3 DEF PreviewBegins, ReadInv, firewallVars
<1>4. ASSUME NEW n, LiveTable(n)
      PROVE  ReadInv'
  BY <1>1, <1>2, <1>4 DEF LiveTable, ReadInv, firewallVars
<1>5. CASE PreviewEnds
  BY <1>1, <1>2, <1>5 DEF PreviewEnds, ReadInv
<1>6. CASE Meanwhile
  <2>1. UNCHANGED << cand, shown >> /\ (~moved' => ~moved /\ (cand = None \/ kernel' = kernel))
    BY <1>6, Zenon DEF Meanwhile
  <2> QED
    BY <1>1, <1>2, <2>1 DEF ReadInv
<1>7. CASE UNCHANGED << firewallVars, cand, shown, moved >>
  BY <1>1, <1>2, <1>7 DEF ReadInv, firewallVars
<1> QED
  BY <1>3, <1>4, <1>5, <1>6, <1>7 DEF ReadsNext
-----------------------------------------------------------------------------
(* Flushing a table and adding the same again changes nothing.             *)
LEMMA ReapplyTable ==
  ASSUME NEW t \in Tables
  PROVE  AddTable(Flush(t), t) = t
<1> DEFINE u == AddTable(Flush(t), t)
<1>1. /\ u \in Tables
      /\ DOMAIN u.chains = DOMAIN t.chains \cup DOMAIN t.chains
      /\ DOMAIN u.sets = DOMAIN t.sets \cup DOMAIN t.sets
  BY TableBlock
<1>2. ASSUME NEW c \in DOMAIN t.chains
      PROVE  u.chains[c] = t.chains[c]
  <2>1. u.chains[c] = [policy |-> IF t.chains[c].policy = "none"
                                  THEN Lookup(t.chains, c, FreshChain).policy
                                  ELSE t.chains[c].policy,
                       rules  |-> t.chains[c].rules]
    BY TableBlock
  <2>2. t.chains[c] \in Chains
    BY PartialFcn DEF Tables
  <2> HIDE DEF u
  <2> QED
    BY <2>1, <2>2 DEF Lookup, Chains
<1>3. ASSUME NEW s \in DOMAIN t.sets
      PROVE  u.sets[s] = t.sets[s]
  <2>1. u.sets[s] = Lookup(t.sets, s, {}) \cup Lookup(t.sets, s, {})
    BY <1>1, TableBlock
  <2> HIDE DEF u
  <2> QED
    BY <2>1 DEF Lookup
<1> HIDE DEF u
<1>4. u = t
  BY <1>1, <1>2, <1>3, SameTable
<1> QED
  BY <1>4 DEF u

LEMMA ReapplyIsNothing ==
  ASSUME NEW k \in Contents, NEW r \in Contents,
         \A n \in DOMAIN r : n \in DOMAIN k /\ k[n] = r[n]
  PROVE  Apply(k, r) = k
<1>1. DOMAIN Apply(k, r) = DOMAIN k /\ Apply(k, r) = [n \in DOMAIN k |-> Apply(k, r)[n]]
  BY DEF Apply
<1>2. ASSUME NEW n \in DOMAIN k
      PROVE  Apply(k, r)[n] = k[n]
  <2>1. CASE n \in DOMAIN r
    <3>1. /\ Lookup(k, n, FreshTable) = r[n]
          /\ r[n] \in Tables
          /\ k[n] = r[n]
      BY <2>1, ApplyType DEF Lookup
    <3>2. Apply(k, r)[n] = AddTable(Flush(Lookup(k, n, FreshTable)), r[n])
      BY <2>1, ApplyType
    <3> QED
      BY <3>1, <3>2, ReapplyTable
  <2>2. CASE n \notin DOMAIN r
    BY <2>2, ApplyType, ZenonT(30)
  <2> QED
    BY <2>1, <2>2
<1>3. k = [n \in DOMAIN k |-> k[n]]
  BY PartialFcn DEF Contents
<1> QED
  BY <1>1, <1>2, <1>3

(* "(no changes - candidate matches live ruleset)" is true: an empty       *)
(* preview, of tables that were read one after the other while the kernel  *)
(* stood still, means that staging the candidate would change nothing.     *)
THEOREM NoChangesIsAlwaysTrue ==
  ASSUME WellFormed
  PROVE  ReadsSpec => []NoChangesMeansNone
<1>1. ReadInv => NoChangesMeansNone
  <2> SUFFICES ASSUME ReadInv, Complete, DiffIsEmpty, ~moved
               PROVE  Apply(kernel, cand) = kernel
    BY DEF NoChangesMeansNone
  <2>1. cand \in Contents
    BY DEF Complete, ReadInv, WellFormed
  <2>2. ASSUME NEW n \in DOMAIN cand
        PROVE  n \in DOMAIN kernel /\ kernel[n] = cand[n]
    <3>1. shown[n] = cand[n] /\ shown[n] # Nothing
      BY DEF DiffIsEmpty
    <3>2. shown[n] = Lookup(kernel, n, Nothing)
      BY DEF Complete, ReadInv
    <3> QED
      BY <3>1, <3>2 DEF Lookup
  <2> QED
    BY <2>1, <2>2, ReapplyIsNothing DEF ReadInv
<1> QED
  BY <1>1, InitReadInv, NextReadInv, PTL DEF ReadsSpec
-----------------------------------------------------------------------------
Less == {p \in Nat \X Nat : p[1] < p[2]}

LEMMA LessWellFounded == IsWellFoundedOn(Less, Nat)
<1>1. OpToRel(<, Nat) = Less
  BY Zenon DEF OpToRel, Less
<1> QED
  BY <1>1, NatLessThanWellFounded, Zenon

LEMMA LeastOf ==
  ASSUME NEW R \in SUBSET Nat, R # {}
  PROVE  \E m \in R : \A n \in R : m <= n
<1>1. PICK m \in R : \A n \in R : << n, m >> \notin Less
  BY LessWellFounded, WFMin
<1>2. ASSUME NEW n \in R PROVE m <= n
  <2>1. m \in Nat /\ n \in Nat
    OBVIOUS
  <2>2. << n, m >> \notin Less
    BY <1>1
  <2>3. ~(n < m)
    BY <2>1, <2>2 DEF Less
  <2> QED
    BY <2>1, <2>3
<1> QED
  BY <1>2

LEMMA GreatestOf ==
  ASSUME NEW e \in Nat, NEW R \in SUBSET (0..e), R # {}
  PROVE  \E m \in R : \A n \in R : n <= m
<1> DEFINE T == {u \in Nat : \E n \in R : n + u = e}
<1>1. PICK n \in R : TRUE
  OBVIOUS
<1>2. e - n \in T
  BY <1>1
<1>3. PICK t \in T : \A u \in T : t <= u
  BY <1>2, LeastOf
<1>4. PICK m \in R : m + t = e
  BY <1>3
<1>5. ASSUME NEW k \in R PROVE k <= m
  <2>1. e - k \in T
    OBVIOUS
  <2>2. t <= e - k
    BY <1>3, <2>1
  <2> QED
    BY <2>2, <1>4, <1>3
<1> QED
  BY <1>5

(* The walk of RuleMatches and of ExplainsRule over the N words of a rule: *)
(* st[i] is how far it goes on from word i, 0 where it gives up.           *)
Steps(N, D, st) == \A i \in 1..N : st[i] \in Nat /\ i + st[i] \in 1..D

IsWalk(N, D, st, f) == f = [i \in 1..D |-> i > N \/ (st[i] > 0 /\ f[i + st[i]])]

(* Places at none of which the walk gives up, and which it leaves only     *)
(* behind the last word.                                                   *)
Passes(N, st, T) == \A k \in T : st[k] > 0 /\ (k + st[k] > N \/ k + st[k] \in T)

PassesFrom(N, st, i) == \E T \in SUBSET (1..N) : i \in T /\ Passes(N, st, T)

LEMMA PassesOn ==
  ASSUME NEW N \in Nat, NEW D \in Nat, NEW st, Steps(N, D, st), NEW i \in 1..N
  PROVE  PassesFrom(N, st, i) <=> st[i] > 0 /\ (i + st[i] > N \/ PassesFrom(N, st, i + st[i]))
<1>1. ASSUME PassesFrom(N, st, i)
      PROVE  st[i] > 0 /\ (i + st[i] > N \/ PassesFrom(N, st, i + st[i]))
  <2>1. PICK T \in SUBSET (1..N) : i \in T /\ Passes(N, st, T)
    BY <1>1 DEF PassesFrom
  <2>2. st[i] > 0 /\ (i + st[i] > N \/ i + st[i] \in T)
    BY <2>1 DEF Passes
  <2> QED
    BY <2>1, <2>2 DEF PassesFrom
<1>2. ASSUME st[i] > 0, i + st[i] > N
      PROVE  PassesFrom(N, st, i)
  <2>1. {i} \in SUBSET (1..N) /\ Passes(N, st, {i})
    BY <1>2 DEF Passes
  <2> QED
    BY <2>1 DEF PassesFrom
<1>3. ASSUME st[i] > 0, PassesFrom(N, st, i + st[i])
      PROVE  PassesFrom(N, st, i)
  <2>1. PICK T \in SUBSET (1..N) : i + st[i] \in T /\ Passes(N, st, T)
    BY <1>3 DEF PassesFrom
  <2>2. T \cup {i} \in SUBSET (1..N) /\ Passes(N, st, T \cup {i})
    BY <1>3, <2>1 DEF Passes
  <2> QED
    BY <2>2 DEF PassesFrom
<1> QED
  BY <1>1, <1>2, <1>3

LEMMA WalkExists ==
  ASSUME NEW N \in Nat, NEW D \in Nat, NEW st, Steps(N, D, st)
  PROVE  \E f : IsWalk(N, D, st, f)
<1> DEFINE g == [i \in 1..D |-> i > N \/ PassesFrom(N, st, i)]
<1>1. ASSUME NEW i \in 1..D
      PROVE  g[i] = (i > N \/ (st[i] > 0 /\ g[i + st[i]]))
  <2>1. CASE i > N
    <3>1. g[i] = TRUE
      BY <2>1
    <3> QED
      BY <2>1, <3>1, Zenon
  <2>2. CASE ~(i > N)
    <3>1. i \in 1..N /\ st[i] \in Nat /\ i + st[i] \in 1..D
      BY <2>2 DEF Steps
    <3>2. g[i] <=> PassesFrom(N, st, i)
      BY <2>2
    <3>3. g[i + st[i]] <=> i + st[i] > N \/ PassesFrom(N, st, i + st[i])
      BY <3>1
    <3>4. PassesFrom(N, st, i) <=> st[i] > 0 /\ (i + st[i] > N \/ PassesFrom(N, st, i + st[i]))
      BY <3>1, PassesOn
    <3>5. g[i] \in BOOLEAN
      OBVIOUS
    <3> HIDE DEF g
    <3> QED
      BY <2>2, <3>2, <3>3, <3>4, <3>5, Zenon
  <2> QED
    BY <2>1, <2>2
<1>2. g = [i \in 1..D |-> g[i]]
  OBVIOUS
<1> HIDE DEF g
<1>3. g = [i \in 1..D |-> i > N \/ (st[i] > 0 /\ g[i + st[i]])]
  BY <1>1, <1>2, Zenon
<1> QED
  BY <1>3, Zenon DEF IsWalk

LEMMA WalkPasses ==
  ASSUME NEW N \in Nat, NEW D \in Nat \ {0}, NEW st, Steps(N, D, st), NEW f, IsWalk(N, D, st, f)
  PROVE  f[1] <=> N = 0 \/ PassesFrom(N, st, 1)
<1>1. ASSUME NEW i \in 1..D
      PROVE  f[i] <=> i > N \/ (st[i] > 0 /\ f[i + st[i]])
  BY Zenon DEF IsWalk
<1>2. ASSUME f[1], N # 0
      PROVE  PassesFrom(N, st, 1)
  <2> DEFINE T == {k \in 1..N : k <= D /\ f[k]}
  <2>1. 1 \in T
    BY <1>2
  <2>2. ASSUME NEW k \in T
        PROVE  st[k] > 0 /\ (k + st[k] > N \/ k + st[k] \in T)
    <3>1. k \in 1..D /\ f[k] /\ k \in 1..N /\ ~(k > N)
      OBVIOUS
    <3>2. st[k] > 0 /\ f[k + st[k]]
      BY <1>1, <3>1, Zenon
    <3>3. k + st[k] \in 1..D
      BY <3>1 DEF Steps
    <3>4. k + st[k] > N \/ k + st[k] \in 1..N
      BY <3>3
    <3>5. k + st[k] <= D
      BY <3>3
    <3> QED
      BY <3>2, <3>4, <3>5
  <2>3. T \in SUBSET (1..N)
    OBVIOUS
  <2> HIDE DEF T
  <2> QED
    BY <2>1, <2>2, <2>3 DEF PassesFrom, Passes
<1>3. ASSUME N = 0
      PROVE  f[1]
  <2>1. 1 \in 1..D /\ 1 > N
    BY <1>3
  <2> QED
    BY <1>1, <2>1, Zenon
<1>4. ASSUME PassesFrom(N, st, 1)
      PROVE  f[1]
  <2>1. PICK T \in SUBSET (1..N) : 1 \in T /\ Passes(N, st, T)
    BY <1>4 DEF PassesFrom
  <2> DEFINE B == {k \in T : ~f[k]}
  <2> SUFFICES ASSUME ~f[1] PROVE FALSE
    OBVIOUS
  <2>2. B \in SUBSET (0..N) /\ B # {}
    <3>1. 1 \in B
      BY <2>1, Zenon
    <3>2. B \subseteq T /\ T \subseteq 0..N
      OBVIOUS
    <3> HIDE DEF B
    <3> QED
      BY <3>1, <3>2
  <2>3. PICK k \in B : \A x \in B : x <= k
    <3> HIDE DEF B
    <3> QED
      BY <2>2, GreatestOf
  <2>4. k \in T /\ ~f[k] /\ k \in 1..N /\ st[k] > 0 /\ (k + st[k] > N \/ k + st[k] \in T)
    BY <2>1 DEF Passes
  <2>5. k \in 1..D /\ st[k] \in Nat /\ k + st[k] \in 1..D
    BY <2>4 DEF Steps
  <2>6. ~f[k + st[k]]
    BY <1>1, <2>4, <2>5, Zenon
  <2>7. ~(k + st[k] > N)
    BY <1>1, <2>5, <2>6, Zenon
  <2>8. k + st[k] \in B
    BY <2>4, <2>6, <2>7
  <2> HIDE DEF B
  <2> QED
    BY <2>3, <2>4, <2>5, <2>8
<1> QED
  BY <1>2, <1>3, <1>4, Zenon
-----------------------------------------------------------------------------
(* The kinds of clauses, one after the other.                              *)
Ports == {"sport", "dport"}
Addresses == {"saddr", "daddr"}
Interfaces == {"iif", "iifname", "oif", "oifname"}

LEMMA InterfaceFields ==
  /\ DOMAIN InterfaceOf = Interfaces
  /\ \A k \in Interfaces : InterfaceOf[k] \in {"iif", "oif"}
BY DEF InterfaceOf, Interfaces

SatisfiedAs(key, field, spec, q, n) ==
  /\ key \in PlainWords => n = 1
  /\ key \in {"jump", "goto"} => n = 2
  /\ key \in {"tcp", "udp"} /\ field \in Ports =>
       n = IF q.protocol = key /\ PortMatches(spec, q[field]) THEN 3 ELSE 0
  /\ key \in {"tcp", "udp"} /\ field \notin Ports => n = IF q.protocol = key THEN 1 ELSE 0
  /\ key \in {"ip", "ip6"} /\ field \in Addresses =>
       n = IF q[field] # "" /\ AddrMatches(spec, q[field]) THEN 3 ELSE 0
  /\ key \in {"ip", "ip6"} /\ field = "protocol" =>
       n = IF q.protocol # "" /\ q.protocol = spec THEN 3 ELSE 0
  /\ key \in {"ip", "ip6"} /\ field \notin Addresses \cup {"protocol"} => n = 0
  /\ key \in Interfaces =>
       n = IF q[InterfaceOf[key]] # "" /\ q[InterfaceOf[key]] = field THEN 2 ELSE 0
  /\ key \notin Keys => n = 0

LEMMA SatisfiedIs ==
  ASSUME NEW w, NEW i, NEW q
  PROVE  SatisfiedAs(w[i], Word(w, i + 1), Word(w, i + 2), q, Satisfied(w, i, q))
BY InterfaceFields DEF SatisfiedAs, Satisfied, PlainWords, Terminal, Ports, Addresses, Interfaces, Keys

WidthAs(key, field, n) ==
  /\ key \in PlainWords => n = 1
  /\ key \in {"jump", "goto"} \cup Interfaces => n = 2
  /\ key \in {"tcp", "udp"} /\ field \in Ports => n = 3
  /\ key \in {"tcp", "udp"} /\ field \notin Ports => n = 0
  /\ key \in {"ip", "ip6"} /\ field \in Addresses \cup {"protocol"} => n = 3
  /\ key \in {"ip", "ip6"} /\ field \notin Addresses \cup {"protocol"} => n = 0
  /\ key \notin Keys => n = 0

LEMMA WidthIs ==
  ASSUME NEW w, NEW i
  PROVE  WidthAs(w[i], Word(w, i + 1), Width(w, i))
BY InterfaceFields DEF WidthAs, Width, PlainWords, Terminal, Ports, Addresses, Interfaces, Keys

LEMMA ExplainedIs ==
  ASSUME NEW w, NEW i
  PROVE  /\ Explained(w, i) \in 0..3
         /\ Width(w, i) > 0 => Explained(w, i) = Width(w, i)
BY InterfaceFields DEF Explained, Width, PlainWords, Terminal, Interfaces

AsksAs(key, field, spec, p) ==
  /\ key \in {"tcp", "udp"} => p.protocol = key /\ p[field] \in Named(PortWord, spec)
  /\ key \in {"ip", "ip6"} => OfFamily(key, p)
  /\ key \in {"ip", "ip6"} /\ field = "protocol" => p.protocol = spec
  /\ key \in {"ip", "ip6"} /\ field # "protocol" => p[field] \in {spec} \cup Named(NetWord, spec)
  /\ key \in Interfaces => p[InterfaceOf[key]] = field

LEMMA AsksIs ==
  ASSUME NEW w, NEW i, NEW p
  PROVE  Asks(w, i, p) <=> AsksAs(w[i], Word(w, i + 1), Word(w, i + 2), p)
BY InterfaceFields DEF Asks, AsksAs, Interfaces

Blank == ""

Sentence(w) == w \in Seq(STRING) /\ \A k \in DOMAIN w : w[k] # Blank

LEMMA LengthType ==
  ASSUME NEW w, Sentence(w)
  PROVE  Len(w) \in Nat /\ DOMAIN w = 1..Len(w)
<1>1. w \in Seq(STRING)
  BY DEF Sentence
<1> QED
  BY <1>1

LEMMA WordType ==
  ASSUME NEW w, Sentence(w), NEW i \in Nat \ {0}
  PROVE  /\ i <= Len(w) => Word(w, i) = w[i] /\ w[i] # Blank
         /\ i > Len(w) => Word(w, i) = Blank
<1>1. Len(w) \in Nat /\ DOMAIN w = 1..Len(w)
  BY LengthType
<1>2. CASE i <= Len(w)
  <2>1. i \in DOMAIN w /\ ~(i > Len(w))
    BY <1>1, <1>2
  <2>2. w[i] # Blank
    BY <2>1, Zenon DEF Sentence
  <2>3. Word(w, i) = w[i]
    BY <1>2, Zenon DEF Word
  <2> QED
    BY <2>1, <2>2, <2>3, Zenon
<1>3. CASE ~(i <= Len(w))
  <2>1. Word(w, i) = Blank
    BY <1>3, Zenon DEF Word, Blank
  <2> QED
    BY <1>3, <2>1, Zenon
<1> QED
  BY <1>2, <1>3

LEMMA SatisfiedType ==
  ASSUME NEW w, Sentence(w), NEW i \in 1..Len(w), NEW q
  PROVE  Satisfied(w, i, q) \in 0..3 /\ i + Satisfied(w, i, q) \in 1..(Len(w) + 2)
<1> DEFINE n == Satisfied(w, i, q)
           field == Word(w, i + 1)
           N == Len(w)
<1>1. N \in Nat /\ i + 1 \in Nat \ {0} /\ i \in 1..N
  BY LengthType
<1>2. i + 1 > N => field = Blank
  BY <1>1, WordType
<1>3. SatisfiedAs(w[i], field, Word(w, i + 2), q, n)
  BY SatisfiedIs
<1> HIDE DEF n, field, N
<1>4. n \in {0, 1, 2} \/ (n = 3 /\ field \in Ports \cup Addresses \cup {"protocol"})
  BY <1>3 DEF SatisfiedAs, Keys, Interfaces, InterfaceOf
<1>5. n = 3 => i + 1 <= N
  <2>1. Blank \notin Ports \cup Addresses \cup {"protocol"}
    BY DEF Ports, Addresses, Blank
  <2>2. n = 3 => ~(i + 1 > N)
    BY <1>2, <1>4, <2>1
  <2> QED
    BY <1>1, <2>2
<1>6. n \in 0..3 /\ i + n \in 1..(N + 2)
  BY <1>1, <1>4, <1>5
<1> QED
  BY <1>6 DEF n, N

SatisfiedSteps(w, q) == [i \in 1..Len(w) |-> Satisfied(w, i, q)]
ExplainedSteps(w)    == [i \in 1..Len(w) |-> Explained(w, i)]

LEMMA RuleMatchesIs ==
  ASSUME NEW w, Sentence(w), NEW q
  PROVE  RuleMatches(w, q) <=> Len(w) = 0 \/ PassesFrom(Len(w), SatisfiedSteps(w, q), 1)
<1> DEFINE N == Len(w)
           D == Len(w) + 2
           st == SatisfiedSteps(w, q)
           from == CHOOSE from : from = [i \in 1..D |-> i > N \/ (Satisfied(w, i, q) > 0 /\ from[i + Satisfied(w, i, q)])]
<1>1. N \in Nat /\ D \in Nat \ {0}
  BY LengthType
<1>2. \A i \in 1..N : st[i] = Satisfied(w, i, q)
  BY DEF SatisfiedSteps
<1>3. Steps(N, D, st)
  BY <1>2, SatisfiedType DEF Steps
<1>4. RuleMatches(w, q) <=> from[1]
  BY Zenon DEF RuleMatches
<1>5. ASSUME NEW f
      PROVE  IsWalk(N, D, st, f)
             <=> f = [i \in 1..D |-> i > N \/ (Satisfied(w, i, q) > 0 /\ f[i + Satisfied(w, i, q)])]
  <2>1. ASSUME NEW i \in 1..D
        PROVE  (i > N \/ (st[i] > 0 /\ f[i + st[i]])) <=> (i > N \/ (Satisfied(w, i, q) > 0 /\ f[i + Satisfied(w, i, q)]))
    <3>1. i > N \/ i \in 1..N
      BY <1>1
    <3> HIDE DEF N, D, st
    <3> QED
      BY <1>2, <3>1, Zenon
  <2> HIDE DEF N, D, st
  <2>2. [i \in 1..D |-> i > N \/ (st[i] > 0 /\ f[i + st[i]])]
        = [i \in 1..D |-> i > N \/ (Satisfied(w, i, q) > 0 /\ f[i + Satisfied(w, i, q)])]
    BY <2>1, Zenon
  <2> QED
    BY <2>2, Zenon DEF IsWalk
<1> HIDE DEF N, D, st
<1>6. IsWalk(N, D, st, from)
  <2>1. \E f : IsWalk(N, D, st, f)
    BY <1>1, <1>3, WalkExists
  <2> QED
    BY <2>1, <1>5, Zenon
<1> HIDE DEF from
<1>7. from[1] <=> N = 0 \/ PassesFrom(N, st, 1)
  BY <1>1, <1>3, <1>6, WalkPasses, Zenon
<1> QED
  BY <1>4, <1>7, Zenon DEF N, st

LEMMA ExplainsRuleIs ==
  ASSUME NEW w, Sentence(w)
  PROVE  ExplainsRule(w) <=> Len(w) = 0 \/ PassesFrom(Len(w), ExplainedSteps(w), 1)
<1> DEFINE N == Len(w)
           D == Len(w) + 3
           st == ExplainedSteps(w)
           from == CHOOSE from : from = [i \in 1..D |-> i > N \/ (Explained(w, i) > 0 /\ from[i + Explained(w, i)])]
<1>1. N \in Nat /\ D \in Nat \ {0}
  BY LengthType
<1>2. \A i \in 1..N : st[i] = Explained(w, i)
  BY DEF ExplainedSteps
<1>3. Steps(N, D, st)
  BY <1>1, <1>2, ExplainedIs DEF Steps
<1>4. ExplainsRule(w) <=> from[1]
  BY Zenon DEF ExplainsRule
<1>5. ASSUME NEW f
      PROVE  IsWalk(N, D, st, f) <=> f = [i \in 1..D |-> i > N \/ (Explained(w, i) > 0 /\ f[i + Explained(w, i)])]
  <2>1. ASSUME NEW i \in 1..D
        PROVE  (i > N \/ (st[i] > 0 /\ f[i + st[i]])) <=> (i > N \/ (Explained(w, i) > 0 /\ f[i + Explained(w, i)]))
    <3>1. i > N \/ i \in 1..N
      BY <1>1
    <3> HIDE DEF N, D, st
    <3> QED
      BY <1>2, <3>1, Zenon
  <2> HIDE DEF N, D, st
  <2>2. [i \in 1..D |-> i > N \/ (st[i] > 0 /\ f[i + st[i]])]
        = [i \in 1..D |-> i > N \/ (Explained(w, i) > 0 /\ f[i + Explained(w, i)])]
    BY <2>1, Zenon
  <2> QED
    BY <2>2, Zenon DEF IsWalk
<1> HIDE DEF N, D, st
<1>6. IsWalk(N, D, st, from)
  <2>1. \E f : IsWalk(N, D, st, f)
    BY <1>1, <1>3, WalkExists
  <2> QED
    BY <2>1, <1>5, Zenon
<1> HIDE DEF from
<1>7. from[1] <=> N = 0 \/ PassesFrom(N, st, 1)
  BY <1>1, <1>3, <1>6, WalkPasses, Zenon
<1> QED
  BY <1>4, <1>7, Zenon DEF N, st
-----------------------------------------------------------------------------
(* What the simulation makes of one clause.  A packet of which only some   *)
(* fields are given satisfies a clause only if every packet that it may    *)
(* stand for does; a packet with every field, exactly if it meets it.      *)
StandsFor(q, p) == \A f \in DOMAIN q : q[f] \in {p[f], NotGiven(f)}

(* The family fits wherever the simulation takes it for granted.           *)
FamilyFits(key, field, spec, p) ==
  /\ key \in {"ip", "ip6"} /\ field = "protocol" => OfFamily(key, p)
  /\ key \in {"ip", "ip6"} /\ field \in Addresses /\ p[field] \in {spec} \cup Named(NetWord, spec) =>
       OfFamily(key, p)

LEMMA HitClause ==
  ASSUME NEW w, Sentence(w), NEW i \in 1..Len(w), NEW q \in Fields, NEW p \in Fields,
         StandsFor(q, p), Width(w, i) > 0, i + Width(w, i) <= Len(w) + 1, Satisfied(w, i, q) > 0,
         FamilyFits(w[i], Word(w, i + 1), Word(w, i + 2), p)
  PROVE  Satisfied(w, i, q) = Width(w, i) /\ Asks(w, i, p)
<1> DEFINE key == w[i]
           field == Word(w, i + 1)
           spec == Word(w, i + 2)
           n == Satisfied(w, i, q)
           m == Width(w, i)
           N == Len(w)
<1>1. N \in Nat /\ i + 2 \in Nat \ {0} /\ i \in 1..N /\ i \in Nat \ {0} /\ i <= N
  BY LengthType
<1>2. key # Blank /\ (i + 2 <= N => spec # Blank)
  BY <1>1, WordType, Zenon
<1>3. SatisfiedAs(key, field, spec, q, n) /\ WidthAs(key, field, m)
  BY SatisfiedIs, WidthIs, Zenon
<1>4. Asks(w, i, p) <=> AsksAs(key, field, spec, p)
  BY AsksIs, Zenon
<1>5. m > 0 /\ i + m <= N + 1
  OBVIOUS
<1>8. n # 0
  OBVIOUS
<1>9. FamilyFits(key, field, spec, p)
  OBVIOUS
<1>6. /\ q.protocol \in {p.protocol, ""} /\ q.saddr \in {p.saddr, ""} /\ q.daddr \in {p.daddr, ""}
      /\ q.iif \in {p.iif, ""} /\ q.oif \in {p.oif, ""} /\ q.sport \in {p.sport, 0} /\ q.dport \in {p.dport, 0}
  BY DEF StandsFor, NotGiven, Fields
<1>7. n = m /\ AsksAs(key, field, spec, p)
  <2> HIDE DEF key, field, spec, n, m, N
  <2>1. key \in Keys /\ key # ""
    <3>1. key \in Keys
      BY <1>3, <1>5 DEF WidthAs
    <3>2. key # ""
      BY <1>2, Zenon DEF Blank
    <3> QED
      BY <3>1, <3>2
  <2>2. CASE key \in PlainWords \cup {"jump", "goto"}
    BY <2>2, <1>3 DEF SatisfiedAs, WidthAs, AsksAs, PlainWords, Terminal, Interfaces
  <2>3. CASE key \in {"tcp", "udp"}
    <3>1. field \in Ports /\ m = 3
      BY <1>3, <1>5, <2>3 DEF WidthAs
    <3>2. n = 3 /\ q.protocol = key /\ PortMatches(spec, q[field])
      BY <1>3, <1>8, <2>3, <3>1 DEF SatisfiedAs
    <3>3. spec # ""
      <4>1. i + 2 <= N
        BY <1>1, <1>5, <3>1
      <4> QED
        BY <1>2, <4>1 DEF Blank
    <3>4. q[field] # 0 /\ q[field] \in Named(PortWord, spec)
      BY <3>2, <3>3 DEF PortMatches
    <3>5. p[field] = q[field] /\ p.protocol = key
      BY <1>6, <2>1, <3>1, <3>2, <3>4 DEF Ports
    <3> QED
      BY <2>3, <3>1, <3>2, <3>4, <3>5 DEF AsksAs, Interfaces
  <2>4. CASE key \in {"ip", "ip6"}
    <3>1. field \in Addresses \cup {"protocol"} /\ m = 3
      BY <1>3, <1>5, <2>4 DEF WidthAs
    <3>2. CASE field = "protocol"
      <4>1. n = 3 /\ q.protocol # "" /\ q.protocol = spec
        BY <1>3, <1>8, <2>4, <3>2 DEF SatisfiedAs
      <4>2. p.protocol = spec
        BY <1>6, <4>1
      <4>3. OfFamily(key, p)
        BY <1>9, <2>4, <3>2, Zenon DEF FamilyFits
      <4> QED
        BY <2>4, <3>1, <3>2, <4>1, <4>2, <4>3 DEF AsksAs, Interfaces
    <3>3. CASE field \in Addresses
      <4>1. n = 3 /\ q[field] # "" /\ AddrMatches(spec, q[field])
        BY <1>3, <1>8, <2>4, <3>3 DEF SatisfiedAs
      <4>2. p[field] = q[field]
        BY <1>6, <3>3, <4>1 DEF Addresses
      <4>3. p[field] \in {spec} \cup Named(NetWord, spec)
        BY <4>1, <4>2 DEF AddrMatches
      <4>4. OfFamily(key, p)
        BY <1>9, <2>4, <3>3, <4>3, Zenon DEF FamilyFits
      <4> QED
        BY <2>4, <3>1, <3>3, <4>1, <4>3, <4>4 DEF AsksAs, Interfaces, Addresses
    <3> QED
      BY <3>1, <3>2, <3>3
  <2>5. CASE key \in Interfaces
    <3>1. m = 2
      BY <1>3, <2>5 DEF WidthAs
    <3>2. n = 2 /\ q[InterfaceOf[key]] # "" /\ q[InterfaceOf[key]] = field
      BY <1>3, <1>8, <2>5 DEF SatisfiedAs
    <3>3. p[InterfaceOf[key]] = q[InterfaceOf[key]]
      BY <1>6, <2>5, <3>2, InterfaceFields
    <3> QED
      BY <2>5, <3>1, <3>2, <3>3 DEF AsksAs, Interfaces
  <2> QED
    BY <2>1, <2>2, <2>3, <2>4, <2>5, InterfaceFields DEF Keys
<1> QED
  BY <1>4, <1>7, Zenon

LEMMA GivenClause ==
  ASSUME NEW w, Sentence(w), NEW i \in 1..Len(w), NEW p \in Fields,
         \A f \in DOMAIN p : p[f] # NotGiven(f),
         Width(w, i) > 0, i + Width(w, i) <= Len(w) + 1, Asks(w, i, p)
  PROVE  Satisfied(w, i, p) = Width(w, i)
<1> DEFINE key == w[i]
           field == Word(w, i + 1)
           spec == Word(w, i + 2)
           n == Satisfied(w, i, p)
           m == Width(w, i)
           N == Len(w)
<1>1. N \in Nat /\ i + 2 \in Nat \ {0} /\ i \in 1..N /\ i \in Nat \ {0} /\ i <= N
  BY LengthType
<1>2. key # Blank /\ (i + 2 <= N => spec # Blank)
  BY <1>1, WordType, Zenon
<1>3. SatisfiedAs(key, field, spec, p, n) /\ WidthAs(key, field, m)
  BY SatisfiedIs, WidthIs, Zenon
<1>4. AsksAs(key, field, spec, p)
  BY AsksIs, Zenon
<1>5. m > 0 /\ i + m <= N + 1
  OBVIOUS
<1>6. /\ p.protocol # "" /\ p.saddr # "" /\ p.daddr # "" /\ p.iif # "" /\ p.oif # ""
      /\ p.sport # 0 /\ p.dport # 0
  BY DEF NotGiven, Fields
<1>7. n = m
  <2> HIDE DEF key, field, spec, n, m, N
  <2>1. key \in Keys
    BY <1>3, <1>5 DEF WidthAs
  <2>2. CASE key \in PlainWords \cup {"jump", "goto"}
    BY <2>2, <1>3 DEF SatisfiedAs, WidthAs
  <2>3. CASE key \in {"tcp", "udp"}
    <3>1. field \in Ports /\ m = 3
      BY <1>3, <1>5, <2>3 DEF WidthAs
    <3>2. p.protocol = key /\ p[field] \in Named(PortWord, spec)
      BY <1>4, <2>3 DEF AsksAs
    <3>3. spec # ""
      <4>1. i + 2 <= N
        BY <1>1, <1>5, <3>1
      <4> QED
        BY <1>2, <4>1 DEF Blank
    <3>4. PortMatches(spec, p[field])
      BY <1>6, <3>1, <3>2, <3>3 DEF PortMatches, Ports
    <3> QED
      BY <1>3, <2>3, <3>1, <3>2, <3>4 DEF SatisfiedAs
  <2>4. CASE key \in {"ip", "ip6"}
    <3>1. field \in Addresses \cup {"protocol"} /\ m = 3
      BY <1>3, <1>5, <2>4 DEF WidthAs
    <3>2. CASE field = "protocol"
      BY <1>3, <1>4, <1>6, <2>4, <3>1, <3>2 DEF AsksAs, SatisfiedAs
    <3>3. CASE field \in Addresses
      <4>1. p[field] # "" /\ p[field] \in {spec} \cup Named(NetWord, spec)
        BY <1>4, <1>6, <2>4, <3>3 DEF AsksAs, Addresses
      <4>2. AddrMatches(spec, p[field])
        BY <4>1 DEF AddrMatches
      <4> QED
        BY <1>3, <2>4, <3>1, <3>3, <4>1, <4>2 DEF SatisfiedAs
    <3> QED
      BY <3>1, <3>2, <3>3
  <2>5. CASE key \in Interfaces
    <3>1. m = 2 /\ p[InterfaceOf[key]] = field
      BY <1>3, <1>4, <2>5 DEF WidthAs, AsksAs
    <3>2. p[InterfaceOf[key]] # ""
      BY <1>6, <2>5, InterfaceFields
    <3> QED
      BY <1>3, <2>5, <3>1, <3>2 DEF SatisfiedAs
  <2> QED
    BY <2>1, <2>2, <2>3, <2>4, <2>5, InterfaceFields DEF Keys
<1> QED
  BY <1>7, Zenon

(* A clause of known width that is satisfied is passed over as a whole.    *)
LEMMA StepIsWidth ==
  ASSUME NEW w, NEW i, NEW q, Satisfied(w, i, q) # 0
  PROVE  \/ Width(w, i) > 0 /\ Satisfied(w, i, q) = Width(w, i)
         \/ w[i] \in {"tcp", "udp"} /\ Satisfied(w, i, q) = 1 /\ Width(w, i) = 0
<1> DEFINE key == w[i]
           field == Word(w, i + 1)
           spec == Word(w, i + 2)
           n == Satisfied(w, i, q)
           m == Width(w, i)
<1>1. SatisfiedAs(key, field, spec, q, n) /\ WidthAs(key, field, m)
  BY SatisfiedIs, WidthIs, Zenon
<1>0. n # 0
  OBVIOUS
<1> HIDE DEF key, field, spec, n, m
<1>2. (m > 0 /\ n = m) \/ (key \in {"tcp", "udp"} /\ n = 1 /\ m = 0)
  <2>1. key \in Keys
    BY <1>0, <1>1 DEF SatisfiedAs
  <2>2. ASSUME key \in PlainWords \cup {"jump", "goto"} PROVE m \in 1..3 /\ n = m
    <3>1. CASE key \in PlainWords
      BY <1>1, <3>1 DEF SatisfiedAs, WidthAs
    <3>2. CASE key \in {"jump", "goto"}
      <4>1. m = 2
        BY <1>1, <3>2 DEF WidthAs
      <4>2. n = 2
        BY <1>1, <3>2 DEF SatisfiedAs
      <4> QED
        BY <4>1, <4>2
    <3> QED
      BY <2>2, <3>1, <3>2
  <2>3. ASSUME key \in {"tcp", "udp"}, field \in Ports PROVE m \in 1..3 /\ n = m
    <3>1. m = 3
      BY <1>1, <2>3 DEF WidthAs
    <3>2. n = 3
      BY <1>0, <1>1, <2>3 DEF SatisfiedAs
    <3> QED
      BY <3>1, <3>2
  <2>4. ASSUME key \in {"tcp", "udp"}, field \notin Ports PROVE m = 0 /\ n = 1
    BY <1>0, <1>1, <2>4 DEF SatisfiedAs, WidthAs
  <2>5. ASSUME key \in {"ip", "ip6"} PROVE m \in 1..3 /\ n = m
    <3>1. field \in Addresses \cup {"protocol"}
      BY <1>0, <1>1, <2>5 DEF SatisfiedAs
    <3>2. m = 3
      BY <1>1, <2>5, <3>1 DEF WidthAs
    <3>3. n = 3
      BY <1>0, <1>1, <2>5, <3>1 DEF SatisfiedAs
    <3> QED
      BY <3>2, <3>3
  <2>6. ASSUME key \in Interfaces PROVE m \in 1..3 /\ n = m
    <3>1. m = 2
      BY <1>1, <2>6 DEF WidthAs
    <3>2. n = 2
      BY <1>0, <1>1, <2>6 DEF SatisfiedAs
    <3> QED
      BY <3>1, <3>2
  <2>7. m \in 1..3 => m > 0
    OBVIOUS
  <2>8. key \in PlainWords \cup {"jump", "goto"} \/ key \in {"tcp", "udp"} \/ key \in {"ip", "ip6"} \/ key \in Interfaces
    BY <2>1, InterfaceFields DEF Keys
  <2> QED
    BY <2>2, <2>3, <2>4, <2>5, <2>6, <2>7, <2>8, Zenon
<1> QED
  BY <1>2 DEF key, n, m

LEMMA UnknownWord ==
  ASSUME NEW w, NEW i, NEW q, w[i] \notin Keys
  PROVE  Satisfied(w, i, q) = 0
<1>1. SatisfiedAs(w[i], Word(w, i + 1), Word(w, i + 2), q, Satisfied(w, i, q))
  BY SatisfiedIs
<1> QED
  BY <1>1, Zenon DEF SatisfiedAs

LEMMA ClausesFollow ==
  ASSUME NEW w, Sentence(w)
  PROVE  /\ Clauses(w) \in SUBSET (1..Len(w))
         /\ Len(w) # 0 => 1 \in Clauses(w)
         /\ Followed(w, Clauses(w))
         /\ \A R \in SUBSET (1..Len(w)) : 1 \in R /\ Followed(w, R) => Clauses(w) \subseteq R
<1>1. Len(w) \in Nat /\ DOMAIN w = 1..Len(w)
  BY LengthType
<1>2. Clauses(w) \in SUBSET (1..Len(w)) /\ Clauses(w) \subseteq DOMAIN w
  BY <1>1 DEF Clauses
<1>3. Len(w) # 0 => 1 \in Clauses(w)
  BY <1>1 DEF Clauses
<1>4. \A R \in SUBSET (1..Len(w)) : 1 \in R /\ Followed(w, R) => Clauses(w) \subseteq R
  BY <1>1 DEF Clauses
<1>5. ASSUME NEW k \in Clauses(w), Width(w, k) > 0, k + Width(w, k) <= Len(w)
      PROVE  k + Width(w, k) \in Clauses(w)
  <2>1. k + Width(w, k) \in DOMAIN w
    <3> DEFINE m == Width(w, k)
    <3>1. WidthAs(w[k], Word(w, k + 1), m)
      BY WidthIs
    <3>2. m \in Nat
      <4> HIDE DEF m
      <4> QED
        BY <3>1 DEF WidthAs, Keys, Interfaces, InterfaceOf
    <3>3. k \in 1..Len(w)
      BY <1>2
    <3> HIDE DEF m
    <3>4. k + m \in 1..Len(w)
      <4>1. m > 0 /\ k + m <= Len(w)
        BY <1>5 DEF m
      <4> QED
        BY <1>1, <3>2, <3>3, <4>1
    <3> QED
      BY <1>1, <3>4 DEF m
  <2>2. ASSUME NEW R \in SUBSET DOMAIN w, 1 \in R, Followed(w, R)
        PROVE  k + Width(w, k) \in R
    <3>1. k \in R
      BY <2>2 DEF Clauses
    <3> QED
      BY <1>5, <2>2, <3>1, Zenon DEF Followed
  <2> QED
    BY <2>1, <2>2, Zenon DEF Clauses
<1> QED
  BY <1>2, <1>3, <1>4, <1>5, Zenon DEF Followed

(* What is assumed of a listed rule.                                       *)
WellListed(w) ==
  /\ Sentence(w)
  /\ \A i \in Clauses(w) :
       /\ i + Width(w, i) <= Len(w) + 1
       /\ w[i] \in {"tcp", "udp"} => Word(w, i + 1) \notin Keys \cup {Blank}

LEMMA HitClauses ==
  ASSUME NEW w, WellListed(w), NEW q, RuleMatches(w, q), NEW k \in Clauses(w)
  PROVE  k \in 1..Len(w) /\ Width(w, k) > 0 /\ Satisfied(w, k, q) > 0
<1> DEFINE N == Len(w)
           st == SatisfiedSteps(w, q)
<1>1. Sentence(w) /\ N \in Nat
  BY LengthType DEF WellListed
<1>2. k \in 1..N /\ Clauses(w) \in SUBSET (1..N)
  BY <1>1, ClausesFollow
<1>3. PassesFrom(N, st, 1)
  <2>1. N = 0 \/ PassesFrom(N, st, 1)
    BY <1>1, RuleMatchesIs
  <2> HIDE DEF st
  <2> QED
    BY <1>1, <1>2, <2>1
<1>4. PICK T \in SUBSET (1..N) : 1 \in T /\ Passes(N, st, T)
  BY <1>3 DEF PassesFrom
<1>5. ASSUME NEW x \in T
      PROVE  Satisfied(w, x, q) > 0 /\ (x + Satisfied(w, x, q) > N \/ x + Satisfied(w, x, q) \in T)
  <2>1. st[x] = Satisfied(w, x, q)
    BY DEF SatisfiedSteps
  <2>2. st[x] > 0 /\ (x + st[x] > N \/ x + st[x] \in T)
    BY <1>4 DEF Passes
  <2> QED
    BY <2>1, <2>2
<1>6. ASSUME NEW x \in T
      PROVE  Satisfied(w, x, q) # 0
  BY <1>5
<1>7. Followed(w, T)
  <2> SUFFICES ASSUME NEW x \in T, Width(w, x) > 0, x + Width(w, x) <= N
               PROVE  x + Width(w, x) \in T
    BY DEF Followed
  <2>1. Satisfied(w, x, q) = Width(w, x)
    <3>1. Width(w, x) # 0
      OBVIOUS
    <3> QED
      BY <1>6, <3>1, StepIsWidth
  <2>2. x + Width(w, x) > N \/ x + Width(w, x) \in T
    BY <1>5, <2>1
  <2>3. x + Width(w, x) \in Int
    <3>1. Satisfied(w, x, q) \in 0..3 /\ x \in 1..N
      BY <1>1, SatisfiedType
    <3> QED
      BY <2>1, <3>1
  <2> HIDE DEF N
  <2> QED
    BY <1>1, <2>2, <2>3
<1>8. k \in T
  BY <1>1, <1>4, <1>7, ClausesFollow
<1>9. Width(w, k) > 0
  <2> SUFFICES ASSUME w[k] \in {"tcp", "udp"}, Satisfied(w, k, q) = 1 PROVE FALSE
    BY <1>6, <1>8, StepIsWidth
  <2>1. Word(w, k + 1) \notin Keys /\ Word(w, k + 1) # Blank
    BY DEF WellListed
  <2>2. k + 1 <= N /\ Word(w, k + 1) = w[k + 1]
    <3>1. k + 1 \in Nat \ {0}
      BY <1>1, <1>2
    <3>2. ~(k + 1 > N)
      BY <1>1, <2>1, <3>1, WordType
    <3>3. k + 1 <= N
      BY <1>1, <3>1, <3>2
    <3> QED
      BY <1>1, <3>1, <3>3, WordType
  <2>3. Satisfied(w, k + 1, q) = 0
    BY <2>1, <2>2, UnknownWord
  <2>4. k + 1 \in T
    <3>1. k + 1 > N \/ k + 1 \in T
      BY <1>5, <1>8
    <3> HIDE DEF N
    <3> QED
      BY <1>1, <1>2, <2>2, <3>1
  <2> QED
    BY <1>6, <2>3, <2>4
<1> QED
  BY <1>2, <1>5, <1>8, <1>9

(* What satisfies every clause matches, and is explained.                  *)
LEMMA ClausesHit ==
  ASSUME NEW w, WellListed(w), NEW q,
         \A k \in Clauses(w) : Width(w, k) > 0 /\ Satisfied(w, k, q) = Width(w, k)
  PROVE  RuleMatches(w, q)
<1> DEFINE N == Len(w)
           st == SatisfiedSteps(w, q)
           C == Clauses(w)
<1>1. Sentence(w) /\ N \in Nat
  BY LengthType DEF WellListed
<1>2. C \in SUBSET (1..N) /\ (N # 0 => 1 \in C) /\ Followed(w, C)
  BY <1>1, ClausesFollow
<1>3. ASSUME NEW k \in C
      PROVE  st[k] > 0 /\ (k + st[k] > N \/ k + st[k] \in C)
  <2>1. k \in 1..N
    BY <1>2
  <2>2. st[k] = Width(w, k) /\ Width(w, k) > 0
    BY <2>1 DEF SatisfiedSteps
  <2>3. Satisfied(w, k, q) \in 0..3 /\ Satisfied(w, k, q) = Width(w, k)
    BY <1>1, <2>1, SatisfiedType
  <2>4. k + Width(w, k) <= N => k + Width(w, k) \in C
    BY <1>2, <2>2, Zenon DEF Followed
  <2> HIDE DEF C, N, st
  <2>5. k + Width(w, k) > N \/ k + Width(w, k) \in C
    BY <1>1, <2>1, <2>3, <2>4
  <2> QED
    BY <2>2, <2>5
<1>4. N = 0 \/ PassesFrom(N, st, 1)
  <2> HIDE DEF C, N, st
  <2> QED
    BY <1>2, <1>3 DEF PassesFrom, Passes
<1> QED
  BY <1>1, <1>4, RuleMatchesIs

LEMMA KnownIsExplained ==
  ASSUME NEW w, WellListed(w), \A k \in Clauses(w) : Width(w, k) > 0
  PROVE  ExplainsRule(w)
<1> DEFINE N == Len(w)
           st == ExplainedSteps(w)
           C == Clauses(w)
<1>1. Sentence(w) /\ N \in Nat
  BY LengthType DEF WellListed
<1>2. C \in SUBSET (1..N) /\ (N # 0 => 1 \in C) /\ Followed(w, C)
  BY <1>1, ClausesFollow
<1>3. ASSUME NEW k \in C
      PROVE  st[k] > 0 /\ (k + st[k] > N \/ k + st[k] \in C)
  <2>1. k \in 1..N
    BY <1>2
  <2>2. Explained(w, k) = Width(w, k) /\ Width(w, k) > 0 /\ Explained(w, k) \in 0..3
    BY ExplainedIs
  <2>3. st[k] = Width(w, k)
    BY <2>1, <2>2 DEF ExplainedSteps
  <2>4. k + Width(w, k) <= N => k + Width(w, k) \in C
    BY <1>2, <2>2, Zenon DEF Followed
  <2> HIDE DEF C, N, st
  <2>5. k + Width(w, k) > N \/ k + Width(w, k) \in C
    BY <1>1, <2>1, <2>2, <2>4
  <2> QED
    BY <2>2, <2>3, <2>5
<1>4. N = 0 \/ PassesFrom(N, st, 1)
  <2> HIDE DEF C, N, st
  <2> QED
    BY <1>2, <1>3 DEF PassesFrom, Passes
<1> QED
  BY <1>1, <1>4, ExplainsRuleIs
-----------------------------------------------------------------------------
(* Rules as they are listed, and packets.                                  *)
LEMMA ListedRule ==
  ASSUME NEW r \in DOMAIN Words
  PROVE  WellListed(Words[r])
<1>1. Sentence(Words[r])
  BY ListingAssumption, Zenon DEF Sentence, Blank
<1> QED
  BY <1>1, ListingAssumption, Zenon DEF WellListed, Blank

LEMMA ListedFamily ==
  ASSUME NEW r \in DOMAIN Words, NEW k \in Clauses(Words[r]), k + 1 \in DOMAIN Words[r],
         NEW p \in Packets, ~Overlooked(Words[r], p)
  PROVE  FamilyFits(Words[r][k], Word(Words[r], k + 1), Word(Words[r], k + 2), p)
<1> DEFINE w == Words[r]
<1>1. w[k] \in {"ip", "ip6"} /\ Word(w, k + 1) = "protocol" => OfFamily(w[k], p)
  BY DEF Overlooked
<1>2. Word(w, k + 1) = w[k + 1]
  <2>1. Sentence(w)
    BY ListedRule DEF WellListed
  <2>2. Len(w) \in Nat /\ DOMAIN w = 1..Len(w) /\ k \in 1..Len(w)
    BY <2>1, LengthType, ClausesFollow, Zenon
  <2> HIDE DEF w
  <2>3. k + 1 \in Nat \ {0} /\ k + 1 <= Len(w)
    BY <2>2 DEF w
  <2> QED
    BY <2>1, <2>3, WordType
<1>3. w[k] \in {"ip", "ip6"} /\ Word(w, k + 1) \in {"saddr", "daddr"} =>
        (p[w[k + 1]] \in {Word(w, k + 2)} \cup Named(NetWord, Word(w, k + 2)) => OfFamily(w[k], p))
  BY ListingAssumption, Zenon
<1> QED
  BY <1>1, <1>2, <1>3 DEF FamilyFits, Addresses

LEMMA HitMeets ==
  ASSUME NEW r \in DOMAIN Words, NEW q \in Fields, RuleMatches(Words[r], q),
         NEW p \in Meant(q), ~Overlooked(Words[r], p)
  PROVE  Meets(Words[r], p)
<1> DEFINE w == Words[r]
<1>1. WellListed(w)
  BY ListedRule
<1>2. p \in Fields /\ StandsFor(q, p)
  BY PacketAssumption DEF Meant, StandsFor
<1> HIDE DEF w
<1>3. ASSUME NEW k \in Clauses(w)
      PROVE  Width(w, k) > 0 /\ Asks(w, k, p)
  <2>1. k \in 1..Len(w) /\ Width(w, k) > 0 /\ Satisfied(w, k, q) > 0
    BY <1>1, HitClauses DEF w
  <2>2. k + Width(w, k) <= Len(w) + 1 /\ Sentence(w)
    BY <1>1 DEF WellListed
  <2>4. FamilyFits(w[k], Word(w, k + 1), Word(w, k + 2), p)
    <3>1. CASE w[k] \in {"ip", "ip6"}
      <4>1. Width(w, k) = 3
        <5>1. WidthAs(w[k], Word(w, k + 1), Width(w, k))
          BY WidthIs
        <5> QED
          BY <2>1, <3>1, <5>1 DEF WidthAs
      <4>2. k + 1 \in DOMAIN w
        BY <2>1, <2>2, <4>1, LengthType
      <4>3. p \in Packets
        BY DEF Meant
      <4> QED
        BY <4>2, <4>3, ListedFamily DEF w
    <3>2. CASE w[k] \notin {"ip", "ip6"}
      BY <3>2, Zenon DEF FamilyFits
    <3> QED
      BY <3>1, <3>2
  <2>3. Asks(w, k, p)
    BY <1>2, <2>1, <2>2, <2>4, HitClause
  <2> QED
    BY <2>1, <2>3
<1>4. Meets(w, p)
  BY <1>3, Zenon DEF Meets
<1> QED
  BY <1>4 DEF w

LEMMA HitIsReal ==
  ASSUME NEW r \in DOMAIN Words, NEW q \in Fields, RuleMatches(Words[r], q)
  PROVE  /\ ExplainsRule(Words[r])
         /\ \A p \in Meant(q) : ~Overlooked(Words[r], p) => Applies(r, p)
<1>1. \A k \in Clauses(Words[r]) : Width(Words[r], k) > 0
  BY ListedRule, HitClauses
<1>2. ExplainsRule(Words[r])
  BY <1>1, ListedRule, KnownIsExplained
<1>3. ASSUME NEW p \in Meant(q), ~Overlooked(Words[r], p)
      PROVE  Applies(r, p)
  <2>1. p \in Packets /\ Meets(Words[r], p)
    BY <1>3, HitMeets DEF Meant
  <2> QED
    BY <2>1, KernelAssumption, Zenon
<1> QED
  BY <1>2, <1>3

LEMMA FullPacket ==
  ASSUME NEW p \in Packets
  PROVE  p \in Fields /\ p \in Meant(p) /\ \A f \in DOMAIN p : p[f] # NotGiven(f)
BY PacketAssumption DEF Meant

LEMMA PacketHits ==
  ASSUME NEW r \in DOMAIN Words, Understood(r), NEW p \in Packets, ~Overlooked(Words[r], p)
  PROVE  RuleMatches(Words[r], p) <=> Applies(r, p)
<1> DEFINE w == Words[r]
<1>1. ASSUME RuleMatches(w, p)
      PROVE  Applies(r, p)
  BY <1>1, FullPacket, HitIsReal
<1>2. ASSUME Applies(r, p)
      PROVE  RuleMatches(w, p)
  <2>1. PICK p0 \in Packets : RuleMatches(w, p0) /\ ~Overlooked(w, p0)
    BY DEF Understood
  <2>2. Meets(w, p0)
    BY <2>1, FullPacket, HitMeets
  <2>3. Meets(w, p)
    BY <1>2, <2>2, KernelAssumption, Zenon
  <2>4. WellListed(w) /\ Sentence(w)
    BY ListedRule DEF WellListed
  <2> HIDE DEF w
  <2>5. ASSUME NEW k \in Clauses(w)
        PROVE  Width(w, k) > 0 /\ Satisfied(w, k, p) = Width(w, k)
    <3>1. Width(w, k) > 0 /\ Asks(w, k, p)
      BY <2>3, Zenon DEF Meets
    <3>2. k \in 1..Len(w)
      BY <2>4, ClausesFollow
    <3>3. k + Width(w, k) <= Len(w) + 1
      BY <2>4 DEF WellListed
    <3>4. p \in Fields /\ \A f \in DOMAIN p : p[f] # NotGiven(f)
      BY FullPacket
    <3> QED
      BY <2>4, <3>1, <3>2, <3>3, <3>4, GivenClause
  <2> QED
    BY <2>4, <2>5, ClausesHit
<1> QED
  BY <1>1, <1>2

(* The rules that rulesets are made of are among the listed ones.          *)
Worded == Rules \subseteq DOMAIN Words

LEMMA ListedChain ==
  ASSUME Worded, ReadInv, NEW n \in DOMAIN kernel, NEW hook \in DOMAIN kernel[n].chains
  PROVE  LET chain == kernel[n].chains[hook]
         IN  /\ chain.rules \in Seq(Rules)
             /\ \A i \in DOMAIN chain.rules :
                  chain.rules[i] \in DOMAIN Words /\ chain.rules[i] \in RulesOf(chain)
<1> DEFINE chain == kernel[n].chains[hook]
<1>1. kernel[n] \in Tables
  BY PartialFcn DEF ReadInv, Contents
<1>2. kernel[n].chains \in PartialFcns(Names, Chains)
  BY <1>1 DEF Tables
<1>3. chain \in Chains
  BY <1>2, PartialFcn
<1>4. chain.rules \in Seq(Rules)
  BY <1>3 DEF Chains
<1> QED
  BY <1>4 DEF Worded, RulesOf

(* A hit of the simulation is real, whatever rules are listed, for the     *)
(* packets that come to the table unless an `ip protocol` is overlooked:   *)
(* neither a word that ruleMatches does not know nor a field that the      *)
(* caller left out makes a rule match, and ExplainRule has words for the   *)
(* whole rule.                                                             *)
THEOREM HitsAreAlwaysReal ==
  ASSUME WellFormed, Worded
  PROVE  ReadsSpec => []HitsAreReal
<1>1. ReadInv => HitsAreReal
  <2> SUFFICES ASSUME ReadInv, NEW n \in DOMAIN kernel, NEW hook \in DOMAIN kernel[n].chains,
                      NEW rule \in RulesOf(kernel[n].chains[hook]), NEW q \in Queries,
                      RuleMatches(Words[rule], q)
               PROVE  /\ ExplainsRule(Words[rule])
                      /\ \A p \in Meant(q) : ~Overlooked(Words[rule], p) => Applies(rule, p)
    BY Zenon DEF HitsAreReal
  <2>1. rule \in DOMAIN Words
    BY ListedChain DEF RulesOf
  <2>2. q \in Fields
    BY PacketAssumption
  <2> QED
    BY <2>1, <2>2, HitIsReal
<1> QED
  BY <1>1, InitReadInv, NextReadInv, PTL DEF ReadsSpec

(* Where a walk ends, and where its last verdict is.                       *)
LEMMA FirstOf ==
  ASSUME NEW n \in Nat, NEW T \in SUBSET (1..n), T # {}
  PROVE  First(T) \in T /\ \A k \in T : First(T) <= k
<1>1. \E i \in T : \A k \in T : i <= k
  BY LeastOf
<1> QED
  BY <1>1, Zenon DEF First

LEMMA FirstOfSome ==
  ASSUME NEW n \in Nat, NEW T \in SUBSET (1..n), NEW U \in SUBSET T, U # {}, First(T) \in U
  PROVE  First(U) = First(T)
<1>1. First(T) \in T /\ \A k \in T : First(T) <= k
  BY FirstOf
<1>2. First(U) \in U /\ \A k \in U : First(U) <= k
  BY FirstOf
<1>3. First(T) <= First(U) /\ First(U) <= First(T)
  BY <1>1, <1>2
<1>4. First(T) \in 1..n /\ First(U) \in 1..n
  BY <1>1, <1>2
<1> QED
  BY <1>3, <1>4

(* The answer about a packet with every field is what nftables does to it  *)
(* in the chain, as long as the simulation knows the clauses of its rules, *)
(* overlooks no `ip protocol` and meets no return, jump or goto first.     *)
THEOREM SimulationIsAlwaysSound ==
  ASSUME WellFormed, Worded
  PROVE  ReadsSpec => []SimulationIsSound
<1>1. ASSUME ReadInv, NEW n \in DOMAIN kernel, NEW hook \in DOMAIN kernel[n].chains,
             NEW chain, chain = kernel[n].chains[hook],
             \A rule \in RulesOf(chain) : Understood(rule), NEW p \in Packets,
             \A rule \in RulesOf(chain) : ~Overlooked(Words[rule], p), IsDecided(chain, p)
      PROVE  SimulatePacket(chain, p) = KernelVerdict(chain, p)
  <2> DEFINE D == DOMAIN chain.rules
             ends == Ends(chain, p)
             deciding == {i \in ends : VerdictAt(chain, i) \in Terminal}
  <2>1. ASSUME NEW i \in D
        PROVE  RuleMatches(Words[chain.rules[i]], p) <=> Applies(chain.rules[i], p)
    <3>1. chain.rules[i] \in DOMAIN Words /\ chain.rules[i] \in RulesOf(chain)
      BY <1>1, ListedChain
    <3> QED
      BY <1>1, <3>1, PacketHits
  <2>2. Deciding(chain, p) = deciding
    BY <2>1, Zenon DEF Deciding, Hits, Ends, VerdictAt
  <2>3. PICK N \in Nat : D = 1..N
    <3>1. chain.rules \in Seq(Rules)
      BY <1>1, ListedChain
    <3> QED
      BY <3>1
  <2>4. ends \in SUBSET (1..N) /\ deciding \in SUBSET ends
    BY <2>3 DEF Ends
  <2>5. CASE ends = {}
    BY <2>2, <2>4, <2>5, Zenon DEF SimulatePacket, KernelVerdict
  <2>6. CASE ends # {}
    <3>1. VerdictAt(chain, First(ends)) \in Terminal /\ First(ends) \in ends
      BY <1>1, <2>4, <2>6, FirstOf, Zenon DEF IsDecided
    <3>2. First(ends) \in deciding
      BY <3>1
    <3>3. First(deciding) = First(ends)
      <4> HIDE DEF ends, deciding
      <4> QED
        BY <2>4, <2>6, <3>2, FirstOfSome
    <3>4. SimulatePacket(chain, p) = VerdictAt(chain, First(ends))
      <4> HIDE DEF ends, deciding
      <4> QED
        BY <2>2, <3>2, <3>3, Zenon DEF SimulatePacket, VerdictAt
    <3>5. VerdictAt(chain, First(ends)) # "return"
      BY <3>1 DEF Terminal
    <3> QED
      BY <2>6, <3>4, <3>5, Zenon DEF KernelVerdict
  <2> QED
    BY <2>5, <2>6
<1>2. ReadInv => SimulationIsSound
  BY <1>1, Zenon DEF SimulationIsSound
<1> QED
  BY <1>2, InitReadInv, NextReadInv, PTL DEF ReadsSpec
=============================================================================
