------------------------------ MODULE LineDiff ------------------------------
(***************************************************************************)
(* internal/diff: the unified diff that previews show.  lcsDiff walks a    *)
(* table of lengths of common subsequences and writes an edit script,      *)
(* groupHunks cuts the script into hunks and writeHunk stamps each of them *)
(* with its line numbers.  One step of the model is one turn of an outer   *)
(* loop; positions count from 1.                                           *)
(***************************************************************************)
EXTENDS Integers, Sequences, FiniteSetsExt

CONSTANTS
  Line,      (* lines of text                                               *)
  Texts,     (* texts, each a sequence of lines                             *)
  Context    (* unchanged lines around a change, DefaultContext in the code *)

ASSUME TextsAssumption == Texts \subseteq Seq(Line)

ASSUME ContextAssumption == Context \in Nat \ {0}

VARIABLES
  a, b,      (* the lines of the two texts                          *)
  dp,        (* dp[i][j] in cell << i, j >>: as far as the walk     *)
             (* knows, the length of a longest common subsequence   *)
             (* of a[i..] and b[j..]                                *)
  i, j,      (* how far the walk has come in each of them           *)
  ops,       (* the edit script                                     *)
  pos,       (* how far the grouping has come in the script         *)
  hunks,     (* pairs of the first and the last op of a hunk        *)
  phase

vars == << a, b, dp, i, j, ops, pos, hunks, phase >>

Op == [kind : {"equal", "delete", "insert"}, line : Line, lineA : Nat, lineB : Nat]

TypeOK ==
  /\ a \in Texts
  /\ b \in Texts
  /\ ops \in Seq(Op)
  /\ i \in 1..(Len(a) + 1)
  /\ j \in 1..(Len(b) + 1)
  /\ pos \in 1..(Len(ops) + 1)
  /\ hunks \in Seq((1..Len(ops)) \X (1..Len(ops)))
  /\ phase \in {"walk", "group", "done"}
-----------------------------------------------------------------------------
(* The table is filled from its end: a cell needs the next ones.           *)

LongerOf(x, y) == IF x >= y THEN x ELSE y

Cells(s, t) == (1..(Len(s) + 1)) \X (1..(Len(t) + 1))

Lengths(s, t) ==
  LET length[c \in Cells(s, t)] ==
        IF c[1] > Len(s) \/ c[2] > Len(t) THEN 0
        ELSE IF s[c[1]] = t[c[2]] THEN length[<< c[1] + 1, c[2] + 1 >>] + 1
        ELSE LongerOf(length[<< c[1] + 1, c[2] >>], length[<< c[1], c[2] + 1 >>])
  IN  length

Init ==
  /\ a \in Texts
  /\ b \in Texts
  /\ dp = Lengths(a, b)
  /\ i = 1 /\ j = 1
  /\ ops = << >>
  /\ pos = 1
  /\ hunks = << >>
  /\ phase = "walk"

(* An op carries its place in both texts (lineA and lineB of `lined`).     *)
Emit(kind, line) ==
  /\ ops' = Append(ops, [kind |-> kind, line |-> line, lineA |-> i, lineB |-> j])
  /\ UNCHANGED << a, b, dp, pos, hunks, phase >>

Keep ==
  /\ phase = "walk"
  /\ i <= Len(a) /\ j <= Len(b)
  /\ a[i] = b[j]
  /\ Emit("equal", a[i])
  /\ i' = i + 1
  /\ j' = j + 1

(* Mutant: the walk compares the wrong cells of the table.                 *)
DeletionIsBestSwapped == dp[<< i + 1, j >>] <= dp[<< i, j + 1 >>]

DeletionIsBest == dp[<< i + 1, j >>] >= dp[<< i, j + 1 >>]

Delete ==
  /\ phase = "walk"
  /\ i <= Len(a)
  /\ j <= Len(b) => a[i] # b[j] /\ DeletionIsBest
  /\ Emit("delete", a[i])
  /\ i' = i + 1
  /\ UNCHANGED j

Insert ==
  /\ phase = "walk"
  /\ j <= Len(b)
  /\ i <= Len(a) => a[i] # b[j] /\ ~DeletionIsBest
  /\ Emit("insert", b[j])
  /\ j' = j + 1
  /\ UNCHANGED i

(* Mutant: what is left of the longer text is forgotten.                   *)
WalkedEarly ==
  /\ phase = "walk"
  /\ i > Len(a) \/ j > Len(b)
  /\ phase' = "group"
  /\ UNCHANGED << a, b, dp, i, j, ops, pos, hunks >>

Walked ==
  /\ phase = "walk"
  /\ i > Len(a) /\ j > Len(b)
  /\ phase' = "group"
  /\ UNCHANGED << a, b, dp, i, j, ops, pos, hunks >>
-----------------------------------------------------------------------------
(* The changes from position k on.                                         *)
ChangesFrom(k) == {n \in k..Len(ops) : ops[n].kind # "equal"}

(* A hunk that has taken in the change at m goes on to the next change if  *)
(* no more than twice the context lies between them.                       *)
(* Mutant: it goes on over one context only.                               *)
ReachesNearer(m, n) == \E k \in ChangesFrom(m + 1) : k <= n /\ k - m - 1 <= Context

Reaches(m, n) == \E k \in ChangesFrom(m + 1) : k <= n /\ k - m - 1 <= 2 * Context

LastOfHunk(first) ==
  Max({n \in ChangesFrom(first) : \A m \in ChangesFrom(first) : m < n => Reaches(m, n)})

(* Mutants: a hunk has no context before its first change; the context     *)
(* after the last change is not cut at the end of the script.              *)
HunkFromChange(first) == << first, Min({LastOfHunk(first) + Context, Len(ops)}) >>

HunkUncut(first) == << Max({first - Context, 1}), LastOfHunk(first) + Context >>

Hunk(first) == << Max({first - Context, 1}), Min({LastOfHunk(first) + Context, Len(ops)}) >>

GroupHunk ==
  /\ phase = "group"
  /\ ChangesFrom(pos) # {}
  /\ hunks' = Append(hunks, Hunk(Min(ChangesFrom(pos))))
  /\ pos' = Hunk(Min(ChangesFrom(pos)))[2] + 1
  /\ UNCHANGED << a, b, dp, i, j, ops, phase >>

Grouped ==
  /\ phase = "group"
  /\ ChangesFrom(pos) = {}
  /\ phase' = "done"
  /\ UNCHANGED << a, b, dp, i, j, ops, pos, hunks >>

Next == Keep \/ Delete \/ Insert \/ Walked \/ GroupHunk \/ Grouped

Spec == Init /\ [][Next]_vars
-----------------------------------------------------------------------------
(* What writeHunk writes: the header and the lines of a hunk.              *)

(* The lines of those ops of the hunk that are not of this kind, in order. *)
Side(h, other) ==
  LET kept == {n \in h[1]..h[2] : ops[n].kind # other}
  IN  [k \in 1..Cardinality(kept) |->
         ops[CHOOSE n \in kept : Cardinality({m \in kept : m < n}) = k - 1].line]

OldSide(h) == Side(h, "insert")
NewSide(h) == Side(h, "delete")

Start(line, side) == IF side = << >> THEN 0 ELSE line

Header(h) ==
  [startA |-> Start(ops[h[1]].lineA, OldSide(h)), countA |-> Len(OldSide(h)),
   startB |-> Start(ops[h[1]].lineB, NewSide(h)), countB |-> Len(NewSide(h))]
-----------------------------------------------------------------------------
(* The script spells out both texts, for whatever the table says: leaving  *)
(* out what it inserts gives a, leaving out what it deletes gives b.       *)
OpIsTrue(o) ==
  /\ o.kind # "insert" => o.lineA \in DOMAIN a /\ o.line = a[o.lineA]
  /\ o.kind # "delete" => o.lineB \in DOMAIN b /\ o.line = b[o.lineB]

AfterA(o) == o.lineA + (IF o.kind = "insert" THEN 0 ELSE 1)
AfterB(o) == o.lineB + (IF o.kind = "delete" THEN 0 ELSE 1)

ScriptSpellsBoth ==
  /\ \A k \in DOMAIN ops :
       /\ OpIsTrue(ops[k])
       /\ ops[k].lineA = (IF k = 1 THEN 1 ELSE AfterA(ops[k - 1]))
       /\ ops[k].lineB = (IF k = 1 THEN 1 ELSE AfterB(ops[k - 1]))
  /\ phase # "walk" =>
       /\ Len(a) + 1 = (IF ops = << >> THEN 1 ELSE AfterA(ops[Len(ops)]))
       /\ Len(b) + 1 = (IF ops = << >> THEN 1 ELSE AfterB(ops[Len(ops)]))

(* A common subsequence takes places of a to places of b with the same     *)
(* lines, in the same order.                                               *)
Common(f) ==
  /\ \A k \in DOMAIN f : a[k] = b[f[k]]
  /\ \A k, l \in DOMAIN f : k < l => f[k] < f[l]

Kept == {k \in DOMAIN ops : ops[k].kind = "equal"}

(* No edit script keeps more lines than this one: lcsDiff finds a longest  *)
(* common subsequence.                                                     *)
ScriptIsShortest ==
  phase = "done" =>
    \A S \in SUBSET DOMAIN a :
      Cardinality(S) > Cardinality(Kept) => \A f \in [S -> DOMAIN b] : ~Common(f)

(* A preview hides no change: each is shown in a hunk, with its context as *)
(* far as the script goes; and hunks that would meet are one hunk.         *)
Shows(h, n) == \A m \in DOMAIN ops : m \in (n - Context)..(n + Context) => m \in h[1]..h[2]

HunksShowChanges ==
  /\ \A k, l \in DOMAIN hunks : k < l => hunks[k][2] + 1 < hunks[l][1]
  /\ phase = "done" => \A n \in ChangesFrom(1) : \E k \in DOMAIN hunks : Shows(hunks[k], n)

(* How a hunk is applied: the lines that its header names are replaced by  *)
(* its new side.                                                           *)
Before(start, count) == IF count = 0 THEN start ELSE start - 1

Patched(text, h) ==
  LET at == Before(Header(h).startA, Header(h).countA)
  IN  SubSeq(text, 1, at) \o NewSide(h) \o SubSeq(text, at + Header(h).countA + 1, Len(text))

(* From the last hunk to the first.                                        *)
AllPatched ==
  LET from[k \in 1..(Len(hunks) + 1)] ==
        IF k > Len(hunks) THEN a ELSE Patched(from[k + 1], hunks[k])
  IN  from[1]

(* A reader who has a and the hunks, and replaces in a what each header    *)
(* says by the new side of the hunk, obtains b; every hunk finds its old   *)
(* side where its header says.  Without a hunk a is b.                     *)
HunksPatch ==
  phase = "done" =>
    /\ AllPatched = b
    /\ \A k \in DOMAIN hunks :
         LET hd == Header(hunks[k])
         IN  /\ hd.startA > 0 \/ hd.countA > 0 => OldSide(hunks[k]) = SubSeq(a, hd.startA, hd.startA + hd.countA - 1)
             /\ hd.startB > 0 \/ hd.countB > 0 => NewSide(hunks[k]) = SubSeq(b, hd.startB, hd.startB + hd.countB - 1)
=============================================================================
