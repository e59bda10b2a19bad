--------------------------- MODULE LineDiffProofs ---------------------------
(***************************************************************************)
(* The edit script of lcsDiff spells out both texts, and its hunks show    *)
(* every change, for all texts and for any table of lengths: what the      *)
(* table says decides only which of the possible scripts is written.  With *)
(* the table that lcsDiff fills it is a shortest one.  And the hunks, put  *)
(* in by their headers from the last to the first, turn the one text into  *)
(* the other.                                                              *)
(***************************************************************************)
EXTENDS LineDiff, FiniteSetTheorems, TLAPS

(* Where the walk has come is where the last op leaves off.                *)
AtA == IF ops = << >> THEN 1 ELSE AfterA(ops[Len(ops)])
AtB == IF ops = << >> THEN 1 ELSE AfterB(ops[Len(ops)])

ScriptType ==
  /\ a \in Seq(Line)
  /\ b \in Seq(Line)
  /\ ops \in Seq(Op)
  /\ i \in 1..(Len(a) + 1)
  /\ j \in 1..(Len(b) + 1)

Chained ==
  \A k \in DOMAIN ops :
    /\ OpIsTrue(ops[k])
    /\ ops[k].lineA = (IF k = 1 THEN 1 ELSE AfterA(ops[k - 1]))
    /\ ops[k].lineB = (IF k = 1 THEN 1 ELSE AfterB(ops[k - 1]))

Reached == i = AtA /\ j = AtB

Exhausted == phase # "walk" => i = Len(a) + 1 /\ j = Len(b) + 1

ScriptInv == ScriptType /\ Chained /\ Reached /\ Exhausted
-----------------------------------------------------------------------------
(* One more op at the walk's place keeps the script chained and moves the  *)
(* place to where the op leaves off.                                       *)
LEMMA EmitKeepsChain ==
  ASSUME ScriptType, Chained, Reached,
         NEW kind \in {"equal", "delete", "insert"}, NEW line \in Line,
         Emit(kind, line),
         OpIsTrue([kind |-> kind, line |-> line, lineA |-> i, lineB |-> j])
  PROVE  /\ ops' \in Seq(Op)
         /\ Chained'
         /\ AtA' = i + (IF kind = "insert" THEN 0 ELSE 1)
         /\ AtB' = j + (IF kind = "delete" THEN 0 ELSE 1)
<1> DEFINE o == [kind |-> kind, line |-> line, lineA |-> i, lineB |-> j]
<1>1. o \in Op /\ ops \in Seq(Op) /\ ops' = Append(ops, o)
  BY DEF ScriptType, Emit, Op
<1>2. /\ ops' \in Seq(Op)
      /\ Len(ops') = Len(ops) + 1
      /\ Len(ops) \in Nat
      /\ DOMAIN ops' = 1..(Len(ops) + 1)
      /\ DOMAIN ops = 1..Len(ops)
      /\ \A k \in 1..Len(ops) : ops'[k] = ops[k]
      /\ ops'[Len(ops) + 1] = o
  <2> HIDE DEF o
  <2> QED  BY <1>1
<1>3. /\ o.lineA = i /\ o.lineB = j /\ o.kind = kind
      /\ a' = a /\ b' = b
  BY DEF Emit
<1>4. /\ AtA' = i + (IF kind = "insert" THEN 0 ELSE 1)
      /\ AtB' = j + (IF kind = "delete" THEN 0 ELSE 1)
  <2> HIDE DEF o
  <2>1. ops' # << >>
    BY <1>2
  <2> QED  BY <1>2, <1>3, <2>1 DEF AtA, AtB, AfterA, AfterB
<1>5. Chained'
  <2> HIDE DEF o
  <2> SUFFICES ASSUME NEW k \in 1..(Len(ops) + 1)
               PROVE  /\ OpIsTrue(ops[k])'
                      /\ ops'[k].lineA = (IF k = 1 THEN 1 ELSE AfterA(ops'[k - 1]))
                      /\ ops'[k].lineB = (IF k = 1 THEN 1 ELSE AfterB(ops'[k - 1]))
    BY <1>2 DEF Chained, AfterA, AfterB
  <2>1. CASE k \in 1..Len(ops)
    <3>1. ops'[k] = ops[k] /\ (k # 1 => ops'[k - 1] = ops[k - 1])
      BY <2>1, <1>2
    <3>2. /\ OpIsTrue(ops[k])
          /\ ops[k].lineA = (IF k = 1 THEN 1 ELSE AfterA(ops[k - 1]))
          /\ ops[k].lineB = (IF k = 1 THEN 1 ELSE AfterB(ops[k - 1]))
      BY <2>1, <1>2 DEF Chained
    <3> QED  BY <3>1, <3>2, <1>3 DEF OpIsTrue
  <2>2. CASE k = Len(ops) + 1
    <3>1. OpIsTrue(ops[k])'
      <4>1. OpIsTrue(o)
        BY DEF o
      <4> QED  BY <4>1, <2>2, <1>2, <1>3 DEF OpIsTrue
    <3>2. CASE ops = << >>
      BY <3>1, <3>2, <2>2, <1>2, <1>3 DEF Reached, AtA, AtB
    <3>3. CASE ops # << >>
      <4>1. Len(ops) \in 1..Len(ops) /\ k # 1 /\ k - 1 = Len(ops)
        BY <3>3, <2>2, <1>1, <1>2
      <4> QED  BY <3>1, <3>3, <4>1, <2>2, <1>2, <1>3 DEF Reached, AtA, AtB
    <3> QED  BY <3>2, <3>3
  <2> QED  BY <2>1, <2>2
<1> QED  BY <1>2, <1>4, <1>5

LEMMA InitScript == Init => ScriptInv
<1> SUFFICES ASSUME Init PROVE ScriptInv
  OBVIOUS
<1>1. a \in Seq(Line) /\ b \in Seq(Line)
  BY TextsAssumption DEF Init
<1>2. ops = << >> /\ i = 1 /\ j = 1 /\ phase = "walk"
  BY DEF Init
<1> QED
  BY <1>1, <1>2 DEF ScriptInv, ScriptType, Chained, Reached, Exhausted, AtA, AtB

LEMMA NextScript == ScriptInv /\ [Next]_vars => ScriptInv'
<1> SUFFICES ASSUME ScriptInv, [Next]_vars PROVE ScriptInv'
  OBVIOUS
<1> USE DEF ScriptInv
<1>1. CASE Keep
  <2>1. /\ OpIsTrue([kind |-> "equal", line |-> a[i], lineA |-> i, lineB |-> j])
        /\ a[i] \in Line /\ Emit("equal", a[i]) /\ phase = "walk"
        /\ i \in 1..Len(a) /\ j \in 1..Len(b)
    BY <1>1 DEF Keep, ScriptType, OpIsTrue
  <2>2. ops' \in Seq(Op) /\ Chained' /\ AtA' = i + 1 /\ AtB' = j + 1
    BY <2>1, EmitKeepsChain
  <2> QED  BY <1>1, <2>1, <2>2, SMTT(30) DEF Keep, Emit, ScriptType, Reached, Exhausted
<1>2. CASE Delete
  <2>1. /\ OpIsTrue([kind |-> "delete", line |-> a[i], lineA |-> i, lineB |-> j])
        /\ a[i] \in Line /\ Emit("delete", a[i]) /\ phase = "walk" /\ i \in 1..Len(a)
    BY <1>2 DEF Delete, ScriptType, OpIsTrue
  <2>2. ops' \in Seq(Op) /\ Chained' /\ AtA' = i + 1 /\ AtB' = j + 0
    BY <2>1, EmitKeepsChain
  <2> QED  BY <1>2, <2>1, <2>2 DEF Delete, Emit, ScriptType, Reached, Exhausted
<1>3. CASE Insert
  <2>1. /\ OpIsTrue([kind |-> "insert", line |-> b[j], lineA |-> i, lineB |-> j])
        /\ b[j] \in Line /\ Emit("insert", b[j]) /\ phase = "walk" /\ j \in 1..Len(b)
    BY <1>3 DEF Insert, ScriptType, OpIsTrue
  <2>2. ops' \in Seq(Op) /\ Chained' /\ AtA' = i + 0 /\ AtB' = j + 1
    BY <2>1, EmitKeepsChain
  <2> QED  BY <1>3, <2>1, <2>2 DEF Insert, Emit, ScriptType, Reached, Exhausted
<1>4. CASE Walked
  <2>1. i = Len(a) + 1 /\ j = Len(b) + 1
    BY <1>4 DEF Walked, ScriptType
  <2> QED  BY <1>4, <2>1 DEF Walked, ScriptType, Chained, OpIsTrue, AfterA, AfterB, Reached, AtA, AtB, Exhausted
<1>5. CASE GroupHunk \/ Grouped \/ UNCHANGED vars
  <2>1. /\ UNCHANGED << a, b, i, j, ops >>
        /\ phase' # "walk" => phase # "walk"
    BY <1>5 DEF GroupHunk, Grouped, vars
  <2> QED  BY <2>1 DEF ScriptType, Chained, OpIsTrue, AfterA, AfterB, Reached, AtA, AtB, Exhausted
<1> QED  BY <1>1, <1>2, <1>3, <1>4, <1>5 DEF Next

(* The edit script that previews are made from spells out the text in      *)
(* force and the candidate, line by line and in order, for all texts:      *)
(* lcsDiff (internal/diff) neither loses nor invents a line.               *)
THEOREM ScriptIsFaithful == Spec => []ScriptSpellsBoth
<1>1. ScriptInv => ScriptSpellsBoth
  BY DEF ScriptInv, ScriptSpellsBoth, Chained, Reached, AtA, AtB, Exhausted
<1> QED  BY InitScript, NextScript, <1>1, PTL DEF Spec
-----------------------------------------------------------------------------
(* A non-empty set of naturals has a least element: the library's theorem  *)
(* on < as a set of pairs.                                                 *)
Less == {p \in Nat \X Nat : p[1] < p[2]}

LEMMA LessWellFounded == IsWellFoundedOn(Less, Nat)
<1>1. OpToRel(<, Nat) = Less
  BY Zenon DEF OpToRel, Less
<1> QED
  BY <1>1, NatLessThanWellFounded, Zenon

LEMMA LeastOf ==
  ASSUME NEW S \in SUBSET Nat, S # {}
  PROVE  \E m \in S : \A n \in S : m <= n
<1>1. PICK m \in S : \A n \in S : << n, m >> \notin Less
  BY LessWellFounded, WFMin
<1>2. ASSUME NEW n \in S PROVE m <= n
  <2>1. m \in Nat /\ n \in Nat
    OBVIOUS
  <2>2. << n, m >> \notin Less
    BY <1>1
  <2>3. ~(n < m)
    BY <2>1, <2>2 DEF Less
  <2> QED
    BY <2>1, <2>3
<1> QED
  BY <1>2

LEMMA GreatestOf ==
  ASSUME NEW e \in Nat, NEW S \in SUBSET (0..e), S # {}
  PROVE  \E m \in S : \A n \in S : n <= m
<1> DEFINE T == {u \in Nat : \E n \in S : n + u = e}
<1>1. PICK n \in S : TRUE
  OBVIOUS
<1>2. e - n \in T
  BY <1>1
<1>3. PICK t \in T : \A u \in T : t <= u
  BY <1>2, LeastOf
<1>4. PICK m \in S : m + t = e
  BY <1>3
<1>5. ASSUME NEW k \in S PROVE k <= m
  <2>1. e - k \in T
    OBVIOUS
  <2>2. t <= e - k
    BY <1>3, <2>1
  <2> QED
    BY <2>2, <1>4, <1>3
<1> QED
  BY <1>5

LEMMA LeastChange ==
  ASSUME NEW S \in SUBSET Nat, S # {}
  PROVE  Min(S) \in S /\ \A n \in S : Min(S) <= n
BY LeastOf DEF Min

LEMMA GreatestChange ==
  ASSUME NEW e \in Nat, NEW S \in SUBSET (0..e), S # {}
  PROVE  Max(S) \in S /\ \A n \in S : n <= Max(S)
<1>1. PICK m \in S : \A n \in S : n <= m
  BY GreatestOf
<1>2. \E x \in S : \A y \in S : x >= y
  BY <1>1
<1> QED
  BY <1>2 DEF Max

LEMMA Cut ==
  ASSUME NEW x \in Int, NEW y \in Int
  PROVE  /\ Min({x, y}) = (IF x <= y THEN x ELSE y)
         /\ Max({x, y}) = (IF x >= y THEN x ELSE y)
<1>1. \E u \in {x, y} : \A v \in {x, y} : u <= v
  OBVIOUS
<1>2. \E u \in {x, y} : \A v \in {x, y} : u >= v
  OBVIOUS
<1>3. Min({x, y}) \in {x, y} /\ \A v \in {x, y} : Min({x, y}) <= v
  BY <1>1 DEF Min
<1>4. Max({x, y}) \in {x, y} /\ \A v \in {x, y} : Max({x, y}) >= v
  BY <1>2 DEF Max
<1> QED
  BY <1>3, <1>4
-----------------------------------------------------------------------------
(* Where a hunk ends: its last change is a change, and no other change     *)
(* follows it within twice the context.                                    *)
LEMMA LastChange ==
  ASSUME ops \in Seq(Op), NEW f \in 1..Len(ops), ops[f].kind # "equal"
  PROVE  /\ LastOfHunk(f) \in f..Len(ops)
         /\ ops[LastOfHunk(f)].kind # "equal"
         /\ \A n \in ChangesFrom(f) : LastOfHunk(f) < n => LastOfHunk(f) + 2 * Context + 1 < n
<1> DEFINE C == ChangesFrom(f)
           R == {n \in C : \A m \in C : m < n => Reaches(m, n)}
           L == Max(R)
<1>0. Context \in Nat
  BY ContextAssumption
<1>1. /\ C \subseteq f..Len(ops)
      /\ f \in C
      /\ \A n \in C : ops[n].kind # "equal"
  BY DEF ChangesFrom
<1>2. R \subseteq C /\ f \in R
  <2>1. \A m \in C : ~(m < f)
    BY <1>1
  <2> QED
    BY <1>1, <2>1
<1>3. L \in R /\ \A n \in R : n <= L
  <2>1. R \in SUBSET (0..Len(ops)) /\ R # {} /\ Len(ops) \in Nat
    BY <1>1, <1>2
  <2> HIDE DEF R
  <2> QED
    BY <2>1, GreatestChange
<1>4. L = LastOfHunk(f)
  BY DEF LastOfHunk
<1> HIDE DEF L
<1>5. ASSUME NEW n \in C, L < n
      PROVE  L + 2 * Context + 1 < n
  <2> DEFINE B == {k \in C : L < k}
  <2>1. B \in SUBSET Nat /\ B # {}
    BY <1>1, <1>5
  <2>2. PICK k \in B : \A x \in B : k <= x
    <3> HIDE DEF B
    <3> QED
      BY <2>1, LeastOf
  <2>3. k \notin R /\ k \in C /\ L < k /\ k <= n
    BY <2>2, <1>1, <1>3, <1>5
  <2>4. PICK m \in C : m < k /\ ~Reaches(m, k)
    BY <2>3
  <2>5. m <= L
    BY <2>2, <2>4, <1>1, <1>3
  <2>6. ~(m < L)
    <3> SUFFICES ASSUME m < L PROVE FALSE
      OBVIOUS
    <3>1. Reaches(m, L)
      BY <1>3
    <3>2. PICK x \in ChangesFrom(m + 1) : x <= L /\ x - m - 1 <= 2 * Context
      BY <3>1 DEF Reaches
    <3>3. x <= k
      BY <3>2, <2>3, <1>1, <1>3, <2>4 DEF ChangesFrom
    <3> QED
      BY <3>2, <3>3, <2>4 DEF Reaches
  <2>7. m = L
    BY <2>5, <2>6, <1>1, <1>3
  <2>8. k \in ChangesFrom(L + 1)
    BY <2>3, <1>1, <1>3 DEF ChangesFrom
  <2>9. ~(k - L - 1 <= 2 * Context)
    BY <2>4, <2>7, <2>8, <1>1 DEF Reaches
  <2> QED
    BY <2>9, <2>3, <1>0, <1>1, <1>3
<1> QED
  BY <1>1, <1>3, <1>4, <1>5
-----------------------------------------------------------------------------
(* While the script is cut up: the changes that the grouping has passed    *)
(* are shown, and the next one is so far ahead that its hunk leaves at     *)
(* least one line out.                                                     *)
HunkType ==
  /\ pos \in 1..(Len(ops) + 1)
  /\ hunks \in Seq((1..Len(ops)) \X (1..Len(ops)))
  /\ phase \in {"walk", "group", "done"}

HunksAreApart == \A k, l \in DOMAIN hunks : k < l => hunks[k][2] + 1 < hunks[l][1]

HunksArePassed == \A k \in DOMAIN hunks : hunks[k][2] < pos

NextIsAhead == hunks # << >> => \A n \in ChangesFrom(pos) : pos + Context < n

PassedAreShown ==
  \A n \in ChangesFrom(1) : n < pos => \E k \in DOMAIN hunks : Shows(hunks[k], n)

GroupInv ==
  /\ ScriptInv
  /\ HunkType
  /\ HunksAreApart
  /\ HunksArePassed
  /\ NextIsAhead
  /\ PassedAreShown
  /\ phase = "walk" => pos = 1 /\ hunks = << >>
  /\ phase = "done" => ChangesFrom(pos) = {}

LEMMA InitGroup == Init => GroupInv
BY InitScript DEF Init, GroupInv, ScriptInv, ScriptType, HunkType, HunksAreApart, HunksArePassed, NextIsAhead,
   PassedAreShown, ChangesFrom

LEMMA NewHunk ==
  ASSUME ops \in Seq(Op), NEW f \in 1..Len(ops), ops[f].kind # "equal"
  PROVE  /\ Hunk(f) \in (1..Len(ops)) \X (1..Len(ops))
         /\ Hunk(f)[1] = 1 \/ Hunk(f)[1] = f - Context
         /\ Hunk(f)[1] <= Hunk(f)[2]
         /\ f - Context <= Hunk(f)[1]
         /\ Hunk(f)[2] < LastOfHunk(f) + Context + 1
         /\ LastOfHunk(f) <= Hunk(f)[2]
         /\ \A n \in f..LastOfHunk(f) : Shows(Hunk(f), n)
<1> DEFINE L == LastOfHunk(f)
<1>1. L \in f..Len(ops) /\ Context \in Nat /\ Len(ops) \in Nat
  BY LastChange, ContextAssumption
<1> HIDE DEF L
<1>2. Hunk(f) = << IF f - Context >= 1 THEN f - Context ELSE 1,
                   IF L + Context <= Len(ops) THEN L + Context ELSE Len(ops) >>
  <2>1. Hunk(f) = << Max({f - Context, 1}), Min({L + Context, Len(ops)}) >>
    BY DEF Hunk, L
  <2>2. Max({f - Context, 1}) = (IF f - Context >= 1 THEN f - Context ELSE 1)
    <3>1. f - Context \in Int /\ 1 \in Int
      BY <1>1
    <3> QED
      BY <3>1, Cut
  <2>3. Min({L + Context, Len(ops)}) = (IF L + Context <= Len(ops) THEN L + Context ELSE Len(ops))
    BY <1>1, Cut
  <2> QED
    BY <2>1, <2>2, <2>3
<1>3. ASSUME NEW n \in f..L
      PROVE  Shows(Hunk(f), n)
  BY <1>1, <1>2, SMTT(30) DEF Shows
<1>4. /\ Hunk(f) \in (1..Len(ops)) \X (1..Len(ops))
      /\ Hunk(f)[1] = 1 \/ Hunk(f)[1] = f - Context
      /\ Hunk(f)[1] <= Hunk(f)[2]
      /\ f - Context <= Hunk(f)[1]
      /\ Hunk(f)[2] < L + Context + 1
      /\ L <= Hunk(f)[2]
  BY <1>1, <1>2
<1> QED
  BY <1>3, <1>4 DEF L

LEMMA GroupHunkKeeps == GroupInv /\ GroupHunk => HunkType' /\ HunksAreApart' /\ HunksArePassed' /\ NextIsAhead' /\ PassedAreShown'
<1> SUFFICES ASSUME GroupInv, GroupHunk
             PROVE  HunkType' /\ HunksAreApart' /\ HunksArePassed' /\ NextIsAhead' /\ PassedAreShown'
  OBVIOUS
<1> DEFINE f == Min(ChangesFrom(pos))
           L == LastOfHunk(f)
           h == Hunk(f)
           P == (1..Len(ops)) \X (1..Len(ops))
<1>1. ops \in Seq(Op) /\ pos \in 1..(Len(ops) + 1) /\ hunks \in Seq(P) /\ Len(ops) \in Nat /\ Context \in Nat
  BY ContextAssumption DEF GroupInv, ScriptInv, ScriptType, HunkType
<1>2. f \in ChangesFrom(pos) /\ \A n \in ChangesFrom(pos) : f <= n
  <2>1. ChangesFrom(pos) \in SUBSET Nat /\ ChangesFrom(pos) # {}
    BY <1>1 DEF ChangesFrom, GroupHunk
  <2> QED
    BY <2>1, LeastChange
<1> HIDE DEF f
<1>3. f \in 1..Len(ops) /\ ops[f].kind # "equal" /\ pos <= f
  BY <1>1, <1>2 DEF ChangesFrom
<1>4. /\ L \in f..Len(ops)
      /\ \A n \in ChangesFrom(f) : L < n => L + 2 * Context + 1 < n
  BY <1>1, <1>3, LastChange
<1>5. /\ h \in P
      /\ f - Context <= h[1]
      /\ h[2] < L + Context + 1
      /\ L <= h[2]
      /\ \A n \in f..L : Shows(h, n)
  BY <1>1, <1>3, NewHunk
<1>6. hunks' = Append(hunks, h) /\ pos' = h[2] + 1 /\ ops' = ops /\ phase' = phase /\ phase = "group"
  BY DEF GroupHunk, f
<1> HIDE DEF L, h, P
<1>7. /\ hunks' \in Seq(P)
      /\ DOMAIN hunks = 1..Len(hunks) /\ Len(hunks) \in Nat
      /\ DOMAIN hunks' = 1..(Len(hunks) + 1)
      /\ \A k \in 1..Len(hunks) : hunks'[k] = hunks[k]
      /\ hunks'[Len(hunks) + 1] = h
  BY <1>1, <1>5, <1>6
<1>8. h[1] \in 1..Len(ops) /\ h[2] \in 1..Len(ops)
  BY <1>5 DEF P
<1>9. \A k \in 1..Len(hunks) : hunks[k][1] \in Nat /\ hunks[k][2] \in Nat
  <2>1. \A k \in 1..Len(hunks) : hunks[k] \in P
    BY <1>1
  <2> QED
    BY <2>1, <1>1, SMTT(30) DEF P
<1>10. HunkType'
  <2>1. hunks' \in Seq((1..Len(ops)) \X (1..Len(ops)))
    BY <1>7 DEF P
  <2> QED
    BY <2>1, <1>6, <1>8 DEF HunkType
<1>11. HunksAreApart'
  <2>1. ASSUME NEW k \in 1..Len(hunks)
        PROVE  hunks[k][2] + 1 < h[1]
    <3>1. hunks[k][2] < pos
      BY <1>7 DEF GroupInv, HunksArePassed
    <3>2. pos + Context < f
      BY <1>2, <1>7 DEF GroupInv, NextIsAhead
    <3> QED
      BY <3>1, <3>2, <1>1, <1>3, <1>5, <1>8, <1>9, SMTT(30)
  <2>2. \A k, l \in 1..Len(hunks) : k < l => hunks[k][2] + 1 < hunks[l][1]
    BY <1>7 DEF GroupInv, HunksAreApart
  <2> QED
    BY <2>1, <2>2, <1>7 DEF HunksAreApart
<1>12. HunksArePassed'
  <2>1. \A k \in 1..Len(hunks) : hunks[k][2] < pos
    BY <1>7 DEF GroupInv, HunksArePassed
  <2> QED
    BY <2>1, <1>1, <1>3, <1>4, <1>5, <1>6, <1>7, <1>8, <1>9, SMTT(30) DEF HunksArePassed
<1>13. NextIsAhead'
  <2>1. ASSUME NEW n \in ChangesFrom(h[2] + 1)
        PROVE  h[2] + 1 + Context < n
    <3>1. n \in ChangesFrom(f) /\ L < n /\ n \in Nat
      BY <1>3, <1>4, <1>5, <1>8 DEF ChangesFrom
    <3>2. L + 2 * Context + 1 < n
      BY <3>1, <1>4
    <3> QED
      BY <3>1, <3>2, <1>1, <1>3, <1>4, <1>5, <1>8, SMTT(30)
  <2>2. ChangesFrom(pos)' = ChangesFrom(h[2] + 1)
    BY <1>6 DEF ChangesFrom
  <2> QED
    BY <2>1, <2>2, <1>6 DEF NextIsAhead
<1>14. PassedAreShown'
  <2> SUFFICES ASSUME NEW n \in ChangesFrom(1), n < h[2] + 1
               PROVE  \E k \in DOMAIN hunks' : Shows(hunks'[k], n)
    BY <1>6 DEF PassedAreShown, ChangesFrom, Shows
  <2>0. n \in 1..Len(ops) /\ ops[n].kind # "equal"
    BY <1>1 DEF ChangesFrom
  <2>1. CASE n < pos
    <3>1. PICK k \in DOMAIN hunks : Shows(hunks[k], n)
      BY <2>1 DEF GroupInv, PassedAreShown
    <3> QED
      BY <3>1, <1>7
  <2>2. CASE n >= pos
    <3>1. n \in ChangesFrom(pos)
      BY <2>0, <2>2, <1>1 DEF ChangesFrom
    <3>2. f <= n /\ n \in ChangesFrom(f)
      BY <3>1, <1>2, <2>0, <1>3 DEF ChangesFrom
    <3>3. n <= L
      BY <3>2, <1>1, <1>3, <1>4, <1>5, <1>8, <2>0
    <3>4. Shows(h, n)
      BY <3>2, <3>3, <1>3, <1>4, <1>5, <2>0
    <3> QED
      BY <3>4, <1>7
  <2> QED
    BY <2>0, <2>1, <2>2, <1>1
<1> QED
  BY <1>10, <1>11, <1>12, <1>13, <1>14

LEMMA NextGroup == GroupInv /\ [Next]_vars => GroupInv'
<1> SUFFICES ASSUME GroupInv, [Next]_vars PROVE GroupInv'
  OBVIOUS
<1>1. ScriptInv'
  BY NextScript DEF GroupInv
<1>2. CASE Keep \/ Delete \/ Insert
  <2>1. /\ phase = "walk" /\ phase' = "walk"
        /\ pos' = pos /\ hunks' = hunks
    BY <1>2 DEF Keep, Delete, Insert, Emit
  <2>2. pos = 1 /\ hunks = << >>
    BY <2>1 DEF GroupInv
  <2>3. Len(ops') \in Nat
    BY <1>1 DEF ScriptInv, ScriptType
  <2> QED
    BY <1>1, <2>1, <2>2, <2>3
    DEF GroupInv, HunkType, HunksAreApart, HunksArePassed, NextIsAhead, PassedAreShown, ChangesFrom
<1>3. CASE Walked \/ Grouped \/ UNCHANGED vars
  <2>1. /\ UNCHANGED << ops, pos, hunks >>
        /\ phase' \in {"walk", "group", "done"}
        /\ phase' = "walk" => phase = "walk"
        /\ phase' = "done" => ChangesFrom(pos) = {}
    BY <1>3 DEF Walked, Grouped, vars, GroupInv, HunkType
  <2> QED
    BY <1>1, <2>1
    DEF GroupInv, HunkType, HunksAreApart, HunksArePassed, NextIsAhead, PassedAreShown, ChangesFrom, Shows
<1>4. CASE GroupHunk
  <2>1. phase' = "group"
    BY <1>4 DEF GroupHunk
  <2> QED
    BY <1>1, <1>4, <2>1, GroupHunkKeeps DEF GroupInv
<1> QED
  BY <1>2, <1>3, <1>4 DEF Next

(* The places of the walk and of the grouping stay within the texts and    *)
(* the script, and no hunk reaches outside the script, for all texts:      *)
(* lcsDiff, groupHunks and writeHunk index no slice out of range.          *)
THEOREM PlacesAreInRange == Spec => []TypeOK
<1> DEFINE TextsAreGiven == a \in Texts /\ b \in Texts
<1>1. Init => TextsAreGiven
  BY DEF Init
<1>2. TextsAreGiven /\ [Next]_vars => TextsAreGiven'
  BY DEF Next, Keep, Delete, Insert, Emit, Walked, GroupHunk, Grouped, vars
<1>3. GroupInv /\ TextsAreGiven => TypeOK
  BY DEF GroupInv, ScriptInv, ScriptType, HunkType, TypeOK
<1> HIDE DEF TextsAreGiven
<1> QED
  BY InitGroup, NextGroup, <1>1, <1>2, <1>3, PTL DEF Spec

(* A preview leaves no change out: for all texts each change is in a hunk  *)
(* of groupHunks with all the context that the script has, and no two      *)
(* hunks overlap or meet.                                                  *)
THEOREM HunksAlwaysShowChanges == Spec => []HunksShowChanges
<1>1. GroupInv => HunksShowChanges
  <2> SUFFICES ASSUME GroupInv, phase = "done", NEW n \in ChangesFrom(1)
               PROVE  \E k \in DOMAIN hunks : Shows(hunks[k], n)
    BY DEF GroupInv, HunksAreApart, HunksShowChanges
  <2>1. n < pos
    <3>1. n \notin ChangesFrom(pos) /\ pos \in Nat /\ Len(ops) \in Nat
      BY DEF GroupInv, HunkType, ScriptInv, ScriptType
    <3> QED
      BY <3>1 DEF ChangesFrom
  <2> QED
    BY <2>1 DEF GroupInv, PassedAreShown
<1> QED
  BY InitGroup, NextGroup, <1>1, PTL DEF Spec
-----------------------------------------------------------------------------
(* Induction over the naturals, for sets of them.                          *)
LEMMA AllNaturals ==
  ASSUME NEW S \in SUBSET Nat, 0 \in S, \A n \in S : n + 1 \in S
  PROVE  S = Nat
<1> SUFFICES ASSUME Nat \ S # {} PROVE FALSE
  OBVIOUS
<1>1. PICK m \in Nat \ S : \A n \in Nat \ S : m <= n
  <2>1. Nat \ S \in SUBSET Nat
    OBVIOUS
  <2> QED
    BY <2>1, LeastOf
<1>2. m # 0 /\ m - 1 \in Nat
  BY <1>1
<1>3. m - 1 \in S
  BY <1>1, <1>2
<1> QED
  BY <1>1, <1>2, <1>3

(* The table of lcsDiff.                                                   *)
Cell(s, t, g, c) ==
  IF c[1] > Len(s) \/ c[2] > Len(t) THEN 0
  ELSE IF s[c[1]] = t[c[2]] THEN g[<< c[1] + 1, c[2] + 1 >>] + 1
  ELSE LongerOf(g[<< c[1] + 1, c[2] >>], g[<< c[1], c[2] + 1 >>])

Filled(s, t, g) == g = [c \in Cells(s, t) |-> Cell(s, t, g, c)]

(* The cells of the last u + 1 diagonals, those that are filled first.     *)
Late(s, t, u) == {c \in Cells(s, t) : c[1] + c[2] + u > Len(s) + Len(t) + 2}

(* A cell needs later ones only.                                           *)
LEMMA PlacesAhead ==
  ASSUME NEW m \in Nat, NEW n \in Nat, NEW x \in 1..m, NEW y \in 1..n
  PROVE  /\ x + 1 \in 1..(m + 1) /\ x \in 1..(m + 1)
         /\ y + 1 \in 1..(n + 1) /\ y \in 1..(n + 1)
         /\ (x + 1) + (y + 1) > x + y
         /\ (x + 1) + y > x + y
         /\ x + (y + 1) > x + y
OBVIOUS

LEMMA CellNeeds ==
  ASSUME NEW s \in Seq(Line), NEW t \in Seq(Line), NEW u \in Nat,
         NEW c \in Late(s, t, u + 1), NEW g, NEW h,
         \A d \in Late(s, t, u) : g[d] = h[d]
  PROVE  Cell(s, t, g, c) = Cell(s, t, h, c)
<1>1. CASE c[1] > Len(s) \/ c[2] > Len(t)
  BY <1>1 DEF Cell
<1>2. CASE ~(c[1] > Len(s) \/ c[2] > Len(t))
  <2>1. c[1] \in 1..Len(s) /\ c[2] \in 1..Len(t) /\ Len(s) \in Nat /\ Len(t) \in Nat
        /\ c[1] + c[2] + (u + 1) > Len(s) + Len(t) + 2
    BY <1>2 DEF Late, Cells
  <2>2. ASSUME NEW x \in 1..(Len(s) + 1), NEW y \in 1..(Len(t) + 1), x + y > c[1] + c[2]
        PROVE  g[<< x, y >>] = h[<< x, y >>]
    <3> DEFINE d == << x, y >>
    <3>1. d \in Cells(s, t) /\ d[1] = x /\ d[2] = y
      BY DEF Cells
    <3>2. x + y + u > Len(s) + Len(t) + 2
      BY <2>1, <2>2, SMTT(30)
    <3> HIDE DEF d
    <3>3. d \in Late(s, t, u)
      BY <3>1, <3>2 DEF Late
    <3> QED
      BY <3>3 DEF d
  <2>3. /\ g[<< c[1] + 1, c[2] + 1 >>] = h[<< c[1] + 1, c[2] + 1 >>]
        /\ g[<< c[1] + 1, c[2] >>] = h[<< c[1] + 1, c[2] >>]
        /\ g[<< c[1], c[2] + 1 >>] = h[<< c[1], c[2] + 1 >>]
    <3>1. /\ c[1] + 1 \in 1..(Len(s) + 1) /\ c[1] \in 1..(Len(s) + 1)
          /\ c[2] + 1 \in 1..(Len(t) + 1) /\ c[2] \in 1..(Len(t) + 1)
          /\ (c[1] + 1) + (c[2] + 1) > c[1] + c[2]
          /\ (c[1] + 1) + c[2] > c[1] + c[2]
          /\ c[1] + (c[2] + 1) > c[1] + c[2]
      BY <2>1, PlacesAhead, Zenon
    <3>2. g[<< c[1] + 1, c[2] + 1 >>] = h[<< c[1] + 1, c[2] + 1 >>]
      BY <2>2, <3>1, Zenon
    <3>3. g[<< c[1] + 1, c[2] >>] = h[<< c[1] + 1, c[2] >>]
      BY <2>2, <3>1, Zenon
    <3>4. g[<< c[1], c[2] + 1 >>] = h[<< c[1], c[2] + 1 >>]
      BY <2>2, <3>1, Zenon
    <3> QED
      BY <3>2, <3>3, <3>4
  <2> QED
    BY <2>3 DEF Cell
<1> QED
  BY <1>1, <1>2

LEMMA NoneLate ==
  ASSUME NEW s \in Seq(Line), NEW t \in Seq(Line)
  PROVE  Late(s, t, 0) = {}
<1> SUFFICES ASSUME NEW c \in Cells(s, t), c[1] + c[2] + 0 > Len(s) + Len(t) + 2 PROVE FALSE
  BY DEF Late
<1> QED
  BY DEF Cells

LEMMA SomeTableIsFilled ==
  ASSUME NEW s \in Seq(Line), NEW t \in Seq(Line)
  PROVE  \E g : Filled(s, t, g)
<1> DEFINE S == {u \in Nat : \E g : \A c \in Late(s, t, u) : g[c] = Cell(s, t, g, c)}
<1>1. 0 \in S
  BY NoneLate
<1>2. ASSUME NEW u \in S PROVE u + 1 \in S
  <2>1. PICK g : \A c \in Late(s, t, u) : g[c] = Cell(s, t, g, c)
    OBVIOUS
  <2> DEFINE h == [c \in Cells(s, t) |-> IF c \in Late(s, t, u) THEN g[c] ELSE Cell(s, t, g, c)]
  <2>2. \A c \in Cells(s, t) : h[c] = Cell(s, t, g, c)
    BY <2>1
  <2>3. \A c \in Late(s, t, u) : g[c] = h[c]
    BY DEF Late
  <2> HIDE DEF h
  <2>4. ASSUME NEW c \in Late(s, t, u + 1) PROVE h[c] = Cell(s, t, h, c)
    <3>1. Cell(s, t, g, c) = Cell(s, t, h, c)
      BY <2>3, CellNeeds
    <3>2. c \in Cells(s, t)
      BY DEF Late
    <3> QED
      BY <3>1, <3>2, <2>2
  <2> QED
    BY <2>4
<1>3. S = Nat
  <2>1. S \in SUBSET Nat
    OBVIOUS
  <2> HIDE DEF S
  <2> QED
    BY <1>1, <1>2, <2>1, AllNaturals
<1> DEFINE N == Len(s) + Len(t) + 2
<1>4. N \in Nat
  OBVIOUS
<1>5. PICK g : \A c \in Late(s, t, N) : g[c] = Cell(s, t, g, c)
  BY <1>3, <1>4
<1>6. ASSUME NEW c \in Cells(s, t) PROVE c \in Late(s, t, N)
  <2>1. c[1] \in Nat /\ c[2] \in Nat /\ c[1] > 0 /\ Len(s) \in Nat /\ Len(t) \in Nat
    BY DEF Cells
  <2> QED
    BY <2>1 DEF Late
<1> DEFINE h == [c \in Cells(s, t) |-> g[c]]
<1>7. \A c \in Late(s, t, N) : g[c] = h[c]
  BY DEF Late
<1>8. ASSUME NEW c \in Cells(s, t) PROVE h[c] = Cell(s, t, h, c)
  <2>1. c[1] \in Nat /\ c[2] \in Nat
    BY DEF Cells
  <2>2. c \in Late(s, t, N + 1)
    BY <1>4, <1>6, <2>1 DEF Late
  <2>3. Cell(s, t, g, c) = Cell(s, t, h, c)
    <3> HIDE DEF h, N
    <3> QED
      BY <1>4, <1>7, <2>2, CellNeeds
  <2> QED
    BY <1>5, <1>6, <2>3
<1>9. Filled(s, t, h)
  BY <1>8 DEF Filled
<1> QED
  BY <1>9

LEMMA TableIsFilled ==
  ASSUME NEW s \in Seq(Line), NEW t \in Seq(Line)
  PROVE  Filled(s, t, Lengths(s, t))
<1>1. PICK g : Filled(s, t, g)
  BY SomeTableIsFilled
<1>2. g = [c \in Cells(s, t) |->
        IF c[1] > Len(s) \/ c[2] > Len(t) THEN 0
        ELSE IF s[c[1]] = t[c[2]] THEN g[<< c[1] + 1, c[2] + 1 >>] + 1
        ELSE LongerOf(g[<< c[1] + 1, c[2] >>], g[<< c[1], c[2] + 1 >>])]
  BY <1>1, Zenon DEF Filled, Cell
<1> QED
  BY <1>2, Zenon DEF Lengths, Filled, Cell

(* What a cell of the table holds.                                         *)
LEMMA CellIs ==
  ASSUME NEW s \in Seq(Line), NEW t \in Seq(Line),
         NEW k \in 1..(Len(s) + 1), NEW m \in 1..(Len(t) + 1)
  PROVE  LET n == Lengths(s, t)
         IN  /\ k > Len(s) \/ m > Len(t) => n[<< k, m >>] = 0
             /\ k <= Len(s) /\ m <= Len(t) /\ s[k] = t[m] =>
                  n[<< k, m >>] = n[<< k + 1, m + 1 >>] + 1
             /\ k <= Len(s) /\ m <= Len(t) /\ s[k] # t[m] =>
                  n[<< k, m >>] = LongerOf(n[<< k + 1, m >>], n[<< k, m + 1 >>])
<1> DEFINE n == Lengths(s, t)
           c == << k, m >>
<1>1. c \in Cells(s, t) /\ c[1] = k /\ c[2] = m
  BY DEF Cells
<1>2. Filled(s, t, n)
  BY TableIsFilled
<1> HIDE DEF n, c
<1>3. n[c] = Cell(s, t, n, c)
  BY <1>1, <1>2 DEF Filled
<1>4. Len(s) \in Nat /\ Len(t) \in Nat
  OBVIOUS
<1>5. n[c] = IF k > Len(s) \/ m > Len(t) THEN 0
             ELSE IF s[k] = t[m] THEN n[<< k + 1, m + 1 >>] + 1
             ELSE LongerOf(n[<< k + 1, m >>], n[<< k, m + 1 >>])
  BY <1>1, <1>3, Zenon DEF Cell
<1>6. /\ k > Len(s) \/ m > Len(t) => n[c] = 0
      /\ k <= Len(s) /\ m <= Len(t) /\ s[k] = t[m] => n[c] = n[<< k + 1, m + 1 >>] + 1
      /\ k <= Len(s) /\ m <= Len(t) /\ s[k] # t[m] => n[c] = LongerOf(n[<< k + 1, m >>], n[<< k, m + 1 >>])
  BY <1>4, <1>5
<1> QED
  BY <1>6 DEF n, c

LEMMA LengthsType ==
  ASSUME NEW s \in Seq(Line), NEW t \in Seq(Line),
         NEW k \in 1..(Len(s) + 1), NEW m \in 1..(Len(t) + 1)
  PROVE  Lengths(s, t)[<< k, m >>] \in Nat
<1> DEFINE n == Lengths(s, t)
           N == Len(s) + Len(t) + 2
           S == {u \in Nat : \A x \in 1..(Len(s) + 1), y \in 1..(Len(t) + 1) :
                               x + y + u > N => n[<< x, y >>] \in Nat}
<1> USE DEF LongerOf
<1>1. 0 \in S
  OBVIOUS
<1>2. ASSUME NEW u \in S PROVE u + 1 \in S
  <2> SUFFICES ASSUME NEW x \in 1..(Len(s) + 1), NEW y \in 1..(Len(t) + 1), x + y + (u + 1) > N
               PROVE  n[<< x, y >>] \in Nat
    OBVIOUS
  <2>1. u \in Nat /\ \A v \in 1..(Len(s) + 1), w \in 1..(Len(t) + 1) :
                       v + w + u > N => n[<< v, w >>] \in Nat
    OBVIOUS
  <2>2. /\ x > Len(s) \/ y > Len(t) => n[<< x, y >>] = 0
        /\ x <= Len(s) /\ y <= Len(t) /\ s[x] = t[y] => n[<< x, y >>] = n[<< x + 1, y + 1 >>] + 1
        /\ x <= Len(s) /\ y <= Len(t) /\ s[x] # t[y] =>
             n[<< x, y >>] = LongerOf(n[<< x + 1, y >>], n[<< x, y + 1 >>])
    BY CellIs, SMTT(30)
  <2>3. Len(s) \in Nat /\ Len(t) \in Nat
    OBVIOUS
  <2> HIDE DEF n, S
  <2>4. CASE x <= Len(s) /\ y <= Len(t)
    <3>1. /\ x + 1 \in 1..(Len(s) + 1) /\ y + 1 \in 1..(Len(t) + 1)
          /\ (x + 1) + (y + 1) + u > N /\ (x + 1) + y + u > N /\ x + (y + 1) + u > N
      BY <2>1, <2>3, <2>4
    <3>2. n[<< x + 1, y + 1 >>] \in Nat /\ n[<< x + 1, y >>] \in Nat /\ n[<< x, y + 1 >>] \in Nat
      BY <2>1, <3>1, Zenon
    <3>3. n[<< x + 1, y + 1 >>] + 1 \in Nat /\ LongerOf(n[<< x + 1, y >>], n[<< x, y + 1 >>]) \in Nat
      BY <3>2, SMTT(30)
    <3>4. n[<< x, y >>] \in {n[<< x + 1, y + 1 >>] + 1, LongerOf(n[<< x + 1, y >>], n[<< x, y + 1 >>])}
      BY <2>2, <2>4, Zenon
    <3> QED
      BY <3>3, <3>4, Zenon
  <2>5. CASE x > Len(s) \/ y > Len(t)
    BY <2>2, <2>5
  <2>6. x \in Int /\ y \in Int
    OBVIOUS
  <2> QED
    BY <2>3, <2>4, <2>5, <2>6
<1>3. S = Nat
  <2>1. S \in SUBSET Nat
    OBVIOUS
  <2> HIDE DEF S
  <2> QED
    BY <1>1, <1>2, <2>1, AllNaturals
<1>4. N \in Nat /\ k + m + N > N
  OBVIOUS
<1> HIDE DEF N, n
<1>5. N \in S
  BY <1>3, <1>4
<1> QED
  BY <1>4, <1>5 DEF n
-----------------------------------------------------------------------------
(* No common subsequence of the rest of both texts is longer than the cell *)
(* for them says.                                                          *)
CommonIn(s, t, f) ==
  /\ \A k \in DOMAIN f : s[k] = t[f[k]]
  /\ \A k, l \in DOMAIN f : k < l => f[k] < f[l]

Bounded(s, t, k, m) ==
  \A S \in SUBSET (k..Len(s)) : \A f \in [S -> m..Len(t)] :
    CommonIn(s, t, f) => Cardinality(S) <= Lengths(s, t)[<< k, m >>]

LEMMA SomePlaces ==
  ASSUME NEW s \in Seq(Line), NEW k \in Nat, NEW S \in SUBSET (k..Len(s))
  PROVE  IsFiniteSet(S) /\ Cardinality(S) \in Nat
<1>1. IsFiniteSet(k..Len(s))
  BY FS_Interval
<1> QED
  BY <1>1, FS_Subset, FS_CardinalityType

LEMMA NoneAtTheEnd ==
  ASSUME NEW s \in Seq(Line), NEW t \in Seq(Line),
         NEW k \in 1..(Len(s) + 1), NEW m \in 1..(Len(t) + 1), k > Len(s) \/ m > Len(t)
  PROVE  Bounded(s, t, k, m)
<1> SUFFICES ASSUME NEW S \in SUBSET (k..Len(s)), NEW f \in [S -> m..Len(t)]
             PROVE  Cardinality(S) <= Lengths(s, t)[<< k, m >>]
  BY DEF Bounded
<1>1. S = {}
  <2> SUFFICES ASSUME NEW x \in S PROVE FALSE
    OBVIOUS
  <2>1. x \in k..Len(s) /\ f[x] \in m..Len(t)
    OBVIOUS
  <2> QED
    BY <2>1
<1>2. Cardinality(S) = 0
  BY <1>1, FS_EmptySet
<1>3. Lengths(s, t)[<< k, m >>] = 0
  BY CellIs
<1> QED
  BY <1>2, <1>3

(* A line that both have next: leaving out its uses costs at most one.     *)
LEMMA SameLineNext ==
  ASSUME NEW s \in Seq(Line), NEW t \in Seq(Line), NEW k \in 1..Len(s), NEW m \in 1..Len(t),
         s[k] = t[m], Bounded(s, t, k + 1, m + 1)
  PROVE  Bounded(s, t, k, m)
<1> SUFFICES ASSUME NEW S \in SUBSET (k..Len(s)), NEW f \in [S -> m..Len(t)], CommonIn(s, t, f)
             PROVE  Cardinality(S) <= Lengths(s, t)[<< k, m >>]
  BY DEF Bounded
<1> DEFINE R == {x \in S : x # k /\ f[x] # m}
           g == [x \in R |-> f[x]]
<1>1. R \in SUBSET ((k + 1)..Len(s)) /\ \A x \in R : f[x] \in (m + 1)..Len(t)
  <2>1. ASSUME NEW x \in R PROVE x \in (k + 1)..Len(s) /\ f[x] \in (m + 1)..Len(t)
    <3>1. x \in k..Len(s) /\ f[x] \in m..Len(t) /\ x # k /\ f[x] # m
      OBVIOUS
    <3> QED
      BY <3>1
  <2> HIDE DEF R
  <2> QED
    BY <2>1
<1>2. g \in [R -> (m + 1)..Len(t)] /\ CommonIn(s, t, g)
  <2>1. R \in SUBSET S
    OBVIOUS
  <2> HIDE DEF R
  <2> QED
    BY <1>1, <2>1 DEF CommonIn
<1>3. Cardinality(R) <= Lengths(s, t)[<< k + 1, m + 1 >>]
  <2> HIDE DEF R, g
  <2> QED
    BY <1>1, <1>2 DEF Bounded
<1>4. IsFiniteSet(R) /\ Cardinality(R) \in Nat
  <2>1. k + 1 \in Nat
    OBVIOUS
  <2> HIDE DEF R
  <2> QED
    BY <1>1, <2>1, SomePlaces
<1>5. Cardinality(S) <= Cardinality(R) + 1
  <2>1. CASE S = R
    <3> HIDE DEF R
    <3> QED
      BY <2>1, <1>4
  <2>2. CASE S # R
    <3>1. PICK x \in S : x \notin R
      BY <2>2
    <3>2. ASSUME NEW y \in S, y \notin R PROVE y = x
      <4>1. /\ x \in k..Len(s) /\ y \in k..Len(s) /\ f[x] \in m..Len(t) /\ f[y] \in m..Len(t)
            /\ x = k \/ f[x] = m
            /\ y = k \/ f[y] = m
        BY <3>1, <3>2
      <4>2. x < y => f[x] < f[y]
        BY DEF CommonIn
      <4>3. y < x => f[y] < f[x]
        BY DEF CommonIn
      <4> QED
        BY <4>1, <4>2, <4>3
    <3>3. S = R \cup {x}
      <4>1. R \in SUBSET S
        OBVIOUS
      <4> HIDE DEF R
      <4> QED
        BY <3>1, <3>2, <4>1
    <3> HIDE DEF R
    <3>4. Cardinality(S) = Cardinality(R) + 1
      BY <1>4, <3>1, <3>3, FS_AddElement
    <3> QED
      BY <3>4, <1>4
  <2> QED
    BY <2>1, <2>2
<1>6. /\ Lengths(s, t)[<< k, m >>] = Lengths(s, t)[<< k + 1, m + 1 >>] + 1
      /\ Lengths(s, t)[<< k + 1, m + 1 >>] \in Nat
  <2>1. /\ k \in 1..(Len(s) + 1) /\ m \in 1..(Len(t) + 1) /\ k <= Len(s) /\ m <= Len(t)
        /\ k + 1 \in 1..(Len(s) + 1) /\ m + 1 \in 1..(Len(t) + 1)
    OBVIOUS
  <2> QED
    BY <2>1, CellIs, LengthsType, ZenonT(30)
<1>7. Cardinality(S) \in Nat
  <2>1. k \in Nat
    OBVIOUS
  <2> QED
    BY <2>1, SomePlaces
<1> HIDE DEF R
<1> QED
  BY <1>3, <1>4, <1>5, <1>6, <1>7

(* Different lines next: one of the two is not used.                       *)
LEMMA OtherLineNext ==
  ASSUME NEW s \in Seq(Line), NEW t \in Seq(Line), NEW k \in 1..Len(s), NEW m \in 1..Len(t),
         s[k] # t[m], Bounded(s, t, k + 1, m), Bounded(s, t, k, m + 1)
  PROVE  Bounded(s, t, k, m)
<1> SUFFICES ASSUME NEW S \in SUBSET (k..Len(s)), NEW f \in [S -> m..Len(t)], CommonIn(s, t, f)
             PROVE  Cardinality(S) <= Lengths(s, t)[<< k, m >>]
  BY DEF Bounded
<1> DEFINE n == Lengths(s, t)
<1>1. /\ n[<< k, m >>] = LongerOf(n[<< k + 1, m >>], n[<< k, m + 1 >>])
      /\ n[<< k + 1, m >>] \in Nat /\ n[<< k, m + 1 >>] \in Nat
  <2>1. /\ k \in 1..(Len(s) + 1) /\ m \in 1..(Len(t) + 1) /\ k <= Len(s) /\ m <= Len(t)
        /\ k + 1 \in 1..(Len(s) + 1) /\ m + 1 \in 1..(Len(t) + 1)
    OBVIOUS
  <2> QED
    BY <2>1, CellIs, LengthsType, ZenonT(30)
<1>2. Cardinality(S) \in Nat
  <2>1. k \in Nat
    OBVIOUS
  <2> QED
    BY <2>1, SomePlaces
<1>3. CASE k \notin S
  <2>1. S \in SUBSET ((k + 1)..Len(s))
    BY <1>3
  <2>2. Cardinality(S) <= n[<< k + 1, m >>]
    BY <2>1 DEF Bounded
  <2> HIDE DEF n
  <2>3. Cardinality(S) <= n[<< k, m >>]
    BY <1>1, <1>2, <2>2 DEF LongerOf
  <2> QED
    BY <2>3 DEF n
<1>4. CASE k \in S
  <2>1. f[k] # m
    BY <1>4 DEF CommonIn
  <2>2. ASSUME NEW x \in S PROVE f[x] \in (m + 1)..Len(t)
    <3>1. x \in k..Len(s) /\ f[x] \in m..Len(t) /\ f[k] \in m..Len(t)
      BY <1>4
    <3>2. k < x => f[k] < f[x]
      BY <1>4 DEF CommonIn
    <3>3. CASE x = k
      BY <3>1, <3>3, <2>1
    <3>4. CASE x # k
      BY <3>1, <3>2, <3>4
    <3> QED
      BY <3>3, <3>4
  <2>3. f \in [S -> (m + 1)..Len(t)]
    BY <2>2
  <2>4. Cardinality(S) <= n[<< k, m + 1 >>]
    BY <2>3 DEF Bounded
  <2> HIDE DEF n
  <2>5. Cardinality(S) <= n[<< k, m >>]
    BY <1>1, <1>2, <2>4 DEF LongerOf
  <2> QED
    BY <2>5 DEF n
<1> QED
  BY <1>3, <1>4

LEMMA TableBounds ==
  ASSUME NEW s \in Seq(Line), NEW t \in Seq(Line),
         NEW k \in 1..(Len(s) + 1), NEW m \in 1..(Len(t) + 1)
  PROVE  Bounded(s, t, k, m)
<1> DEFINE N == Len(s) + Len(t) + 2
           S == {u \in Nat : \A x \in 1..(Len(s) + 1), y \in 1..(Len(t) + 1) :
                               x + y + u > N => Bounded(s, t, x, y)}
<1>1. 0 \in S
  OBVIOUS
<1>2. ASSUME NEW u \in S PROVE u + 1 \in S
  <2> SUFFICES ASSUME NEW x \in 1..(Len(s) + 1), NEW y \in 1..(Len(t) + 1), x + y + (u + 1) > N
               PROVE  Bounded(s, t, x, y)
    OBVIOUS
  <2>1. u \in Nat /\ \A v \in 1..(Len(s) + 1), w \in 1..(Len(t) + 1) :
                       v + w + u > N => Bounded(s, t, v, w)
    OBVIOUS
  <2>2. Len(s) \in Nat /\ Len(t) \in Nat /\ x \in Int /\ y \in Int
    OBVIOUS
  <2> HIDE DEF S
  <2>3. CASE x > Len(s) \/ y > Len(t)
    BY <2>3, NoneAtTheEnd
  <2>4. CASE x <= Len(s) /\ y <= Len(t)
    <3>1. /\ x + 1 \in 1..(Len(s) + 1) /\ y + 1 \in 1..(Len(t) + 1)
          /\ (x + 1) + (y + 1) + u > N /\ (x + 1) + y + u > N /\ x + (y + 1) + u > N
          /\ x \in 1..Len(s) /\ y \in 1..Len(t)
      BY <2>1, <2>2, <2>4
    <3>2. Bounded(s, t, x + 1, y + 1) /\ Bounded(s, t, x + 1, y) /\ Bounded(s, t, x, y + 1)
      BY <2>1, <3>1, Zenon
    <3> QED
      BY <3>1, <3>2, SameLineNext, OtherLineNext
  <2> QED
    BY <2>2, <2>3, <2>4
<1>3. S = Nat
  <2>1. S \in SUBSET Nat
    OBVIOUS
  <2> HIDE DEF S
  <2> QED
    BY <1>1, <1>2, <2>1, AllNaturals
<1>4. N \in Nat /\ k + m + N > N
  OBVIOUS
<1> HIDE DEF N
<1>5. N \in S
  BY <1>3, <1>4
<1> QED
  BY <1>4, <1>5
-----------------------------------------------------------------------------
(* What the walk has kept and what the table still promises from here make *)
(* up what it promised at the start.                                       *)
ShortestInv ==
  /\ ScriptInv
  /\ dp = Lengths(a, b)
  /\ IsFiniteSet(Kept)
  /\ Cardinality(Kept) + dp[<< i, j >>] = dp[<< 1, 1 >>]

(* One more op keeps a line or does not.                                   *)
LEMMA KeptGrows ==
  ASSUME ScriptType, IsFiniteSet(Kept), NEW kind \in {"equal", "delete", "insert"}, NEW line \in Line,
         Emit(kind, line)
  PROVE  /\ IsFiniteSet(Kept')
         /\ Cardinality(Kept') = Cardinality(Kept) + (IF kind = "equal" THEN 1 ELSE 0)
<1> DEFINE o == [kind |-> kind, line |-> line, lineA |-> i, lineB |-> j]
           n == Len(ops) + 1
<1>1. o \in Op /\ ops \in Seq(Op) /\ ops' = Append(ops, o) /\ o.kind = kind
  BY DEF ScriptType, Emit, Op
<1> HIDE DEF o
<1>2. /\ DOMAIN ops' = DOMAIN ops \cup {n} /\ n \notin DOMAIN ops
      /\ \A k \in DOMAIN ops : ops'[k] = ops[k]
      /\ ops'[n] = o
  BY <1>1
<1> HIDE DEF n
<1>3. Kept' = IF kind = "equal" THEN Kept \cup {n} ELSE Kept
  BY <1>1, <1>2 DEF Kept
<1>4. n \notin Kept
  BY <1>2 DEF Kept
<1>5. Cardinality(Kept) \in Nat
  BY FS_CardinalityType
<1>6. CASE kind = "equal"
  BY <1>3, <1>4, <1>6, FS_AddElement
<1>7. CASE kind # "equal"
  BY <1>3, <1>5, <1>7
<1> QED
  BY <1>6, <1>7

LEMMA InitShortest == Init => ShortestInv
<1> SUFFICES ASSUME Init PROVE ShortestInv
  OBVIOUS
<1>1. ScriptInv /\ dp = Lengths(a, b) /\ i = 1 /\ j = 1 /\ ops = << >>
  BY InitScript DEF Init
<1>2. Kept = {}
  BY <1>1 DEF Kept
<1>3. IsFiniteSet(Kept) /\ Cardinality(Kept) = 0
  BY <1>2, FS_EmptySet
<1>4. dp[<< 1, 1 >>] \in Nat
  BY <1>1, LengthsType DEF ScriptInv, ScriptType
<1> QED
  BY <1>1, <1>3, <1>4 DEF ShortestInv

LEMMA NextShortest == ShortestInv /\ [Next]_vars => ShortestInv'
<1> SUFFICES ASSUME ShortestInv, [Next]_vars PROVE ShortestInv'
  OBVIOUS
<1>1. ScriptInv'
  BY NextScript DEF ShortestInv
<1>2. /\ a \in Seq(Line) /\ b \in Seq(Line) /\ ScriptType /\ ScriptInv
      /\ i \in 1..(Len(a) + 1) /\ j \in 1..(Len(b) + 1)
      /\ dp = Lengths(a, b) /\ IsFiniteSet(Kept)
      /\ Cardinality(Kept) + dp[<< i, j >>] = dp[<< 1, 1 >>]
      /\ Len(a) \in Nat /\ Len(b) \in Nat /\ Cardinality(Kept) \in Nat
  BY FS_CardinalityType DEF ShortestInv, ScriptInv, ScriptType
<1>3. /\ i > Len(a) \/ j > Len(b) => dp[<< i, j >>] = 0
      /\ i <= Len(a) /\ j <= Len(b) /\ a[i] = b[j] => dp[<< i, j >>] = dp[<< i + 1, j + 1 >>] + 1
      /\ i <= Len(a) /\ j <= Len(b) /\ a[i] # b[j] =>
           dp[<< i, j >>] = LongerOf(dp[<< i + 1, j >>], dp[<< i, j + 1 >>])
  BY <1>2, CellIs
<1>4. /\ i <= Len(a) => dp[<< i + 1, j >>] \in Nat
      /\ j <= Len(b) => dp[<< i, j + 1 >>] \in Nat
      /\ i <= Len(a) /\ j <= Len(b) => dp[<< i + 1, j + 1 >>] \in Nat
  <2>1. /\ i <= Len(a) => i + 1 \in 1..(Len(a) + 1)
        /\ j <= Len(b) => j + 1 \in 1..(Len(b) + 1)
    BY <1>2
  <2> QED
    BY <1>2, <2>1, LengthsType
<1>5. CASE Keep
  <2>1. i <= Len(a) /\ j <= Len(b) /\ a[i] = b[j] /\ Emit("equal", a[i]) /\ i' = i + 1 /\ j' = j + 1
        /\ dp' = dp /\ a' = a /\ b' = b
    BY <1>5 DEF Keep, Emit
  <2>2. a[i] \in Line
    BY <1>2, <2>1
  <2>3. IsFiniteSet(Kept') /\ Cardinality(Kept') = Cardinality(Kept) + 1
    BY <1>2, <2>1, <2>2, KeptGrows
  <2>4. dp[<< i, j >>] = dp[<< i + 1, j + 1 >>] + 1 /\ dp[<< i + 1, j + 1 >>] \in Nat
    BY <1>3, <1>4, <2>1
  <2>5. dp'[<< i', j' >>] = dp[<< i + 1, j + 1 >>] /\ dp'[<< 1, 1 >>] = dp[<< 1, 1 >>]
    BY <2>1
  <2>6. Cardinality(Kept') + dp'[<< i', j' >>] = dp'[<< 1, 1 >>]
    <3> DEFINE next == dp[<< i + 1, j + 1 >>]
    <3>1. next \in Nat /\ Cardinality(Kept) \in Nat /\ Cardinality(Kept) + (next + 1) = dp[<< 1, 1 >>]
      BY <1>2, <2>4
    <3> HIDE DEF next
    <3>2. Cardinality(Kept') + next = dp[<< 1, 1 >>]
      BY <2>3, <3>1
    <3> QED
      BY <2>5, <3>2, Zenon DEF next
  <2> QED
    BY <1>1, <1>2, <2>1, <2>3, <2>6 DEF ShortestInv
<1>6. CASE Delete
  <2>1. i <= Len(a) /\ (j <= Len(b) => a[i] # b[j] /\ DeletionIsBest) /\ Emit("delete", a[i]) /\ i' = i + 1 /\ j' = j
        /\ dp' = dp /\ a' = a /\ b' = b
    BY <1>6 DEF Delete, Emit
  <2>2. a[i] \in Line
    BY <1>2, <2>1
  <2>3. IsFiniteSet(Kept') /\ Cardinality(Kept') = Cardinality(Kept)
    BY <1>2, <2>1, <2>2, KeptGrows
  <2>4. dp[<< i, j >>] = dp[<< i + 1, j >>]
    <3>1. CASE j <= Len(b)
      BY <1>3, <2>1, <3>1 DEF DeletionIsBest, LongerOf
    <3>2. CASE j > Len(b)
      <4>1. i + 1 \in 1..(Len(a) + 1)
        BY <1>2, <2>1
      <4>2. dp[<< i + 1, j >>] = 0
        BY <1>2, <3>2, <4>1, CellIs
      <4> QED
        BY <1>3, <3>2, <4>2
    <3> QED
      BY <1>2, <3>1, <3>2
  <2>5. Cardinality(Kept') + dp'[<< i', j' >>] = dp'[<< 1, 1 >>]
    BY <1>2, <2>1, <2>3, <2>4
  <2> QED
    BY <1>1, <1>2, <2>1, <2>3, <2>5 DEF ShortestInv
<1>7. CASE Insert
  <2>1. j <= Len(b) /\ (i <= Len(a) => a[i] # b[j] /\ ~DeletionIsBest) /\ Emit("insert", b[j]) /\ j' = j + 1 /\ i' = i
        /\ dp' = dp /\ a' = a /\ b' = b
    BY <1>7 DEF Insert, Emit
  <2>2. b[j] \in Line
    BY <1>2, <2>1
  <2>3. IsFiniteSet(Kept') /\ Cardinality(Kept') = Cardinality(Kept)
    BY <1>2, <2>1, <2>2, KeptGrows
  <2>4. dp[<< i, j >>] = dp[<< i, j + 1 >>]
    <3>1. CASE i <= Len(a)
      BY <1>3, <1>4, <2>1, <3>1 DEF DeletionIsBest, LongerOf
    <3>2. CASE i > Len(a)
      <4>1. j + 1 \in 1..(Len(b) + 1)
        BY <1>2, <2>1
      <4>2. dp[<< i, j + 1 >>] = 0
        BY <1>2, <3>2, <4>1, CellIs
      <4> QED
        BY <1>3, <3>2, <4>2
    <3> QED
      BY <1>2, <3>1, <3>2
  <2>5. Cardinality(Kept') + dp'[<< i', j' >>] = dp'[<< 1, 1 >>]
    BY <1>2, <2>1, <2>3, <2>4
  <2> QED
    BY <1>1, <1>2, <2>1, <2>3, <2>5 DEF ShortestInv
<1>8. CASE Walked \/ GroupHunk \/ Grouped \/ UNCHANGED vars
  <2>1. UNCHANGED << a, b, dp, i, j, ops >>
    BY <1>8 DEF Walked, GroupHunk, Grouped, vars
  <2> QED
    BY <1>1, <1>2, <2>1 DEF ShortestInv, Kept
<1> QED
  BY <1>5, <1>6, <1>7, <1>8 DEF Next

(* No other script keeps more lines, for all texts: the table of lcsDiff   *)
(* holds the lengths of longest common subsequences and its walk loses     *)
(* none of what the table promises.                                        *)
THEOREM ScriptIsAlwaysShortest == Spec => []ScriptIsShortest
<1>1. ShortestInv => ScriptIsShortest
  <2> SUFFICES ASSUME ShortestInv, phase = "done",
                      NEW S \in SUBSET DOMAIN a, Cardinality(S) > Cardinality(Kept),
                      NEW f \in [S -> DOMAIN b], Common(f)
               PROVE  FALSE
    BY DEF ScriptIsShortest
  <2>1. /\ a \in Seq(Line) /\ b \in Seq(Line) /\ dp = Lengths(a, b) /\ IsFiniteSet(Kept)
        /\ Cardinality(Kept) + dp[<< i, j >>] = dp[<< 1, 1 >>]
        /\ i = Len(a) + 1 /\ j = Len(b) + 1 /\ Len(a) \in Nat /\ Len(b) \in Nat
    BY DEF ShortestInv, ScriptInv, ScriptType, Exhausted
  <2>2. dp[<< i, j >>] = 0
    <3>1. Len(a) + 1 \in 1..(Len(a) + 1) /\ Len(b) + 1 \in 1..(Len(b) + 1) /\ Len(a) + 1 > Len(a)
      BY <2>1
    <3> QED
      BY <2>1, <3>1, CellIs
  <2>3. Cardinality(Kept) \in Nat /\ Cardinality(Kept) = dp[<< 1, 1 >>]
    BY <2>1, <2>2, FS_CardinalityType
  <2>4. S \in SUBSET (1..Len(a)) /\ f \in [S -> 1..Len(b)] /\ CommonIn(a, b, f)
    BY <2>1 DEF Common, CommonIn
  <2>5. Bounded(a, b, 1, 1)
    <3>1. 1 \in 1..(Len(a) + 1) /\ 1 \in 1..(Len(b) + 1)
      BY <2>1
    <3> QED
      BY <2>1, <3>1, TableBounds
  <2>6. Cardinality(S) <= dp[<< 1, 1 >>]
    BY <2>1, <2>4, <2>5 DEF Bounded
  <2>7. Cardinality(S) \in Nat
    <3>1. 1 \in Nat
      OBVIOUS
    <3> QED
      BY <2>1, <2>4, <3>1, SomePlaces
  <2> QED
    BY <2>3, <2>6, <2>7
<1> QED
  BY InitShortest, NextShortest, <1>1, PTL DEF Spec
-----------------------------------------------------------------------------
(* Counting what a side keeps.  p says how far a text has come at each op, *)
(* K are the ops that take a line of it.                                   *)
Counts(N, K, p) ==
  /\ p \in [1..(N + 1) -> Nat]
  /\ \A n \in 1..N : p[n + 1] = p[n] + (IF n \in K THEN 1 ELSE 0)

TakenBefore(K, s, n) == {m \in K : s <= m /\ m < n}

LEMMA CountFrom ==
  ASSUME NEW N \in Nat, NEW K \in SUBSET (1..N), NEW p, Counts(N, K, p),
         NEW s \in 1..(N + 1), NEW n \in s..(N + 1)
  PROVE  IsFiniteSet(TakenBefore(K, s, n)) /\ Cardinality(TakenBefore(K, s, n)) = p[n] - p[s]
<1> DEFINE S == {u \in Nat : s + u <= N + 1 =>
                   /\ IsFiniteSet(TakenBefore(K, s, s + u))
                   /\ Cardinality(TakenBefore(K, s, s + u)) = p[s + u] - p[s]}
<1>1. 0 \in S
  <2>1. TakenBefore(K, s, s + 0) = {}
    <3> SUFFICES ASSUME NEW m \in K, s <= m, m < s + 0 PROVE FALSE
      BY DEF TakenBefore
    <3> QED
      OBVIOUS
  <2>2. p[s + 0] - p[s] = 0
    BY DEF Counts
  <2> QED
    BY <2>1, <2>2, FS_EmptySet
<1>2. ASSUME NEW u \in S PROVE u + 1 \in S
  <2> SUFFICES ASSUME s + (u + 1) <= N + 1
               PROVE  /\ IsFiniteSet(TakenBefore(K, s, s + (u + 1)))
                      /\ Cardinality(TakenBefore(K, s, s + (u + 1))) = p[s + (u + 1)] - p[s]
    OBVIOUS
  <2> DEFINE c == s + u
             T == TakenBefore(K, s, c)
  <2>1. u \in Nat /\ c \in 1..N /\ s <= c /\ s + (u + 1) = c + 1
    OBVIOUS
  <2>2. IsFiniteSet(T) /\ Cardinality(T) = p[c] - p[s]
    BY <2>1
  <2>3. p[c] \in Nat /\ p[s] \in Nat /\ p[c + 1] = p[c] + (IF c \in K THEN 1 ELSE 0)
    BY <2>1 DEF Counts
  <2>4. TakenBefore(K, s, c + 1) = IF c \in K THEN T \cup {c} ELSE T
    <3>1. ASSUME NEW m \in K PROVE m < c + 1 <=> m < c \/ m = c
      BY <2>1
    <3>2. \A m \in K : m \in TakenBefore(K, s, c + 1) <=> m \in T \/ m = c
      BY <2>1, <3>1 DEF TakenBefore
    <3>3. TakenBefore(K, s, c + 1) \subseteq K /\ T \subseteq K
      BY DEF TakenBefore
    <3> HIDE DEF T, c, S
    <3> QED
      BY <3>2, <3>3
  <2>5. c \notin T
    BY <2>1 DEF TakenBefore
  <2> HIDE DEF T, c, S
  <2>6. IsFiniteSet(TakenBefore(K, s, c + 1)) /\ Cardinality(TakenBefore(K, s, c + 1)) = p[c + 1] - p[s]
    <3>1. CASE c \in K
      <4>1. IsFiniteSet(T \cup {c}) /\ Cardinality(T \cup {c}) = Cardinality(T) + 1
        BY <2>2, <2>5, FS_AddElement
      <4>2. TakenBefore(K, s, c + 1) = T \cup {c} /\ p[c + 1] = p[c] + 1
        BY <2>3, <2>4, <3>1
      <4>3. Cardinality(T) + 1 = p[c + 1] - p[s]
        BY <2>2, <2>3, <4>2
      <4> QED
        BY <4>1, <4>2, <4>3
    <3>2. CASE c \notin K
      <4>1. TakenBefore(K, s, c + 1) = T /\ p[c + 1] = p[c]
        BY <2>3, <2>4, <3>2
      <4> QED
        BY <2>2, <4>1
    <3> QED
      BY <3>1, <3>2
  <2> QED
    BY <2>1, <2>6
<1>3. S = Nat
  <2>1. S \in SUBSET Nat
    OBVIOUS
  <2> HIDE DEF S
  <2> QED
    BY <1>1, <1>2, <2>1, AllNaturals
<1>4. n - s \in Nat /\ s + (n - s) = n /\ n <= N + 1
  OBVIOUS
<1> QED
  BY <1>3, <1>4

EachTaken(K, p, s, e) ==
  \A k \in 1..(p[e + 1] - p[s]) : \E n \in s..e : n \in K /\ p[n] = p[s] + k - 1

LEMMA EachIsTaken ==
  ASSUME NEW N \in Nat, NEW K \in SUBSET (1..N), NEW p, Counts(N, K, p),
         NEW s \in 1..N, NEW e \in s..N
  PROVE  EachTaken(K, p, s, e)
<1> SUFFICES \A k \in 1..(p[e + 1] - p[s]) : \E n \in s..e : n \in K /\ p[n] = p[s] + k - 1
  BY DEF EachTaken
<1> TAKE k \in 1..(p[e + 1] - p[s])
<1>1. p \in [1..(N + 1) -> Nat] /\ p[s] \in Nat /\ p[e + 1] \in Nat
  BY DEF Counts
<1> DEFINE R == {n \in s..e : p[n] <= p[s] + k - 1}
<1>2. R \in SUBSET (0..e) /\ s \in R /\ e \in Nat
  BY <1>1, SMTT(30)
<1>3. PICK n \in R : \A m \in R : m <= n
  <2> HIDE DEF R
  <2> QED
    BY <1>2, GreatestOf
<1>4. n \in s..e /\ p[n] \in Nat /\ p[n] <= p[s] + k - 1
  BY <1>1
<1>5. p[n + 1] \in Nat /\ p[n + 1] > p[s] + k - 1
  <2>1. CASE n = e
    BY <1>1, <2>1, SMTT(30)
  <2>2. CASE n # e
    <3>1. n + 1 \in s..e /\ n + 1 \notin R
      BY <1>3, <1>4, <2>2
    <3> QED
      BY <1>1, <3>1, SMTT(30)
  <2> QED
    BY <2>1, <2>2
<1>6. p[n + 1] = p[n] + (IF n \in K THEN 1 ELSE 0)
  BY <1>4, SMTT(30) DEF Counts
<1>7. n \in K /\ p[n] = p[s] + k - 1
  BY <1>1, <1>4, <1>5, <1>6, SMTT(30)
<1> QED
  BY <1>4, <1>7

(* p and t are the places in a text and that text, for all ops but those   *)
(* of the kind `other`.                                                    *)
Taking(other) == {n \in 1..Len(ops) : ops[n].kind # other}

Tells(other, p, t) ==
  Counts(Len(ops), Taking(other), p) /\ \A n \in Taking(other) : ops[n].line = t[p[n]]

LEMMA SideIs ==
  ASSUME Len(ops) \in Nat, NEW other, NEW p, NEW t, Tells(other, p, t),
         NEW s \in 1..Len(ops), NEW e \in s..Len(ops)
  PROVE  /\ p[e + 1] - p[s] \in Nat
         /\ Side(<< s, e >>, other) = [k \in 1..(p[e + 1] - p[s]) |-> t[p[s] + k - 1]]
<1> DEFINE K == Taking(other)
           kept == {n \in s..e : ops[n].kind # other}
           At(k) == CHOOSE n \in kept : Cardinality({m \in kept : m < n}) = k - 1
<1>0. K \in SUBSET (1..Len(ops)) /\ Counts(Len(ops), K, p) /\ \A n \in K : ops[n].line = t[p[n]]
  BY DEF Tells, Taking
<1>1. kept = TakenBefore(K, s, e + 1) /\ \A n \in s..e : {m \in kept : m < n} = TakenBefore(K, s, n)
  BY DEF TakenBefore, Taking
<1>2. \A n \in s..(e + 1) : IsFiniteSet(TakenBefore(K, s, n)) /\ Cardinality(TakenBefore(K, s, n)) = p[n] - p[s]
  <2> HIDE DEF K
  <2>1. s \in 1..(Len(ops) + 1) /\ \A n \in s..(e + 1) : n \in s..(Len(ops) + 1)
    OBVIOUS
  <2> QED
    BY <1>0, <2>1, CountFrom, Zenon
<1>3. Cardinality(kept) = p[e + 1] - p[s] /\ Cardinality(kept) \in Nat
  <2>1. e + 1 \in s..(e + 1)
    OBVIOUS
  <2> HIDE DEF kept
  <2> QED
    BY <1>1, <1>2, <2>1, FS_CardinalityType
<1>4. Side(<< s, e >>, other) = [k \in 1..Cardinality(kept) |-> ops[At(k)].line]
  BY DEF Side
<1>t. EachTaken(K, p, s, e)
  <2>1. Len(ops) \in Nat /\ s \in 1..Len(ops) /\ e \in s..Len(ops)
    OBVIOUS
  <2> HIDE DEF K, kept
  <2> QED
    BY <1>0, <2>1, EachIsTaken
<1>5. ASSUME NEW k \in 1..Cardinality(kept) PROVE ops[At(k)].line = t[p[s] + k - 1]
  <2>1. PICK n \in s..e : n \in K /\ p[n] = p[s] + k - 1
    <3> HIDE DEF K, kept
    <3>1. k \in 1..(p[e + 1] - p[s])
      BY <1>3
    <3> QED
      BY <1>t, <3>1 DEF EachTaken
  <2>2. \A m \in s..e : p[m] \in Nat /\ p[s] \in Nat
    <3>1. p \in [1..(Len(ops) + 1) -> Nat]
      BY <1>0 DEF Counts
    <3> QED
      BY <3>1
  <2>3. n \in kept /\ Cardinality({m \in kept : m < n}) = k - 1
    <3>1. Cardinality(TakenBefore(K, s, n)) = p[n] - p[s]
      BY <1>2
    <3>2. n \in kept
      BY <2>1 DEF Taking
    <3> HIDE DEF kept
    <3>3. p[n] - p[s] = k - 1
      BY <2>1, <2>2
    <3>4. {m \in kept : m < n} = TakenBefore(K, s, n)
      BY <1>1
    <3> QED
      BY <3>1, <3>2, <3>3, <3>4
  <2>4. At(k) \in kept /\ Cardinality({m \in kept : m < At(k)}) = k - 1
    <3> HIDE DEF kept
    <3> QED
      BY <2>3
  <2> HIDE DEF At
  <2>5. At(k) \in s..e /\ At(k) \in K
    BY <2>4 DEF Taking
  <2>6. p[At(k)] - p[s] = k - 1
    <3> HIDE DEF kept
    <3>1. Cardinality(TakenBefore(K, s, At(k))) = p[At(k)] - p[s]
      BY <1>2, <2>5
    <3> QED
      BY <1>1, <2>4, <2>5, <3>1
  <2>7. p[At(k)] = p[s] + k - 1
    BY <2>2, <2>5, <2>6
  <2> QED
    BY <1>0, <2>5, <2>7
<1> HIDE DEF kept, At
<1>6. [k \in 1..Cardinality(kept) |-> ops[At(k)].line] = [k \in 1..Cardinality(kept) |-> t[p[s] + k - 1]]
  BY <1>5
<1> QED
  BY <1>3, <1>4, <1>6
-----------------------------------------------------------------------------
(* How far the script is in both texts before op n, and after the last.    *)
PlacesA == [n \in 1..(Len(ops) + 1) |-> IF n = 1 THEN 1 ELSE AfterA(ops[n - 1])]
PlacesB == [n \in 1..(Len(ops) + 1) |-> IF n = 1 THEN 1 ELSE AfterB(ops[n - 1])]

OnOld == Taking("insert")
OnNew == Taking("delete")

LEMMA OpType ==
  ASSUME ops \in Seq(Op), NEW n \in 1..Len(ops)
  PROVE  /\ ops[n].kind \in {"equal", "delete", "insert"}
         /\ ops[n].lineA \in Nat /\ ops[n].lineB \in Nat
<1>1. ops[n] \in Op
  OBVIOUS
<1> QED
  BY <1>1 DEF Op

LEMMA PlaceOfOp ==
  ASSUME ScriptInv, NEW n \in 1..Len(ops)
  PROVE  /\ PlacesA[n] = ops[n].lineA /\ PlacesB[n] = ops[n].lineB
         /\ PlacesA[n + 1] = AfterA(ops[n]) /\ PlacesB[n + 1] = AfterB(ops[n])
<1>1. Len(ops) \in Nat /\ n \in DOMAIN ops
  BY DEF ScriptInv, ScriptType
<1>2. /\ ops[n].lineA = (IF n = 1 THEN 1 ELSE AfterA(ops[n - 1]))
      /\ ops[n].lineB = (IF n = 1 THEN 1 ELSE AfterB(ops[n - 1]))
  BY <1>1 DEF ScriptInv, Chained
<1>3. n + 1 \in 1..(Len(ops) + 1) /\ n + 1 # 1 /\ (n + 1) - 1 = n /\ n \in 1..(Len(ops) + 1)
  BY <1>1
<1>4. PlacesA[n + 1] = AfterA(ops[n]) /\ PlacesB[n + 1] = AfterB(ops[n])
  BY <1>3 DEF PlacesA, PlacesB
<1>5. PlacesA[n] = ops[n].lineA /\ PlacesB[n] = ops[n].lineB
  BY <1>2, <1>3 DEF PlacesA, PlacesB
<1> QED
  BY <1>4, <1>5

LEMMA ScriptCounts ==
  ASSUME ScriptInv
  PROVE  /\ Len(ops) \in Nat
         /\ Tells("insert", PlacesA, a)
         /\ Tells("delete", PlacesB, b)
<1>1. ops \in Seq(Op) /\ Len(ops) \in Nat
  BY DEF ScriptInv, ScriptType
<1>2. ASSUME NEW n \in 1..Len(ops)
      PROVE  /\ PlacesA[n + 1] = PlacesA[n] + (IF n \in OnOld THEN 1 ELSE 0)
             /\ PlacesB[n + 1] = PlacesB[n] + (IF n \in OnNew THEN 1 ELSE 0)
  BY PlaceOfOp DEF AfterA, AfterB, OnOld, OnNew, Taking
<1>3. ASSUME NEW n \in 1..(Len(ops) + 1) PROVE PlacesA[n] \in Nat /\ PlacesB[n] \in Nat
  <2>1. CASE n = 1
    BY <2>1 DEF PlacesA, PlacesB
  <2>2. CASE n # 1
    <3>1. n - 1 \in 1..Len(ops)
      BY <1>1, <2>2
    <3>2. ops[n - 1].lineA \in Nat /\ ops[n - 1].lineB \in Nat
      BY <1>1, <3>1, OpType
    <3> QED
      BY <2>2, <3>2 DEF PlacesA, PlacesB, AfterA, AfterB
  <2> QED
    BY <2>1, <2>2
<1>4. PlacesA \in [1..(Len(ops) + 1) -> Nat] /\ PlacesB \in [1..(Len(ops) + 1) -> Nat]
  <2>1. /\ PlacesA = [n \in 1..(Len(ops) + 1) |-> PlacesA[n]]
        /\ PlacesB = [n \in 1..(Len(ops) + 1) |-> PlacesB[n]]
    BY DEF PlacesA, PlacesB
  <2> QED
    BY <1>3, <2>1
<1>5. ASSUME NEW n \in 1..Len(ops)
      PROVE  /\ n \in OnOld => ops[n].line = a[PlacesA[n]]
             /\ n \in OnNew => ops[n].line = b[PlacesB[n]]
  <2>1. OpIsTrue(ops[n])
    BY <1>1 DEF ScriptInv, Chained
  <2> QED
    BY <2>1, PlaceOfOp DEF OpIsTrue, OnOld, OnNew, Taking
<1> QED
  BY <1>1, <1>2, <1>4, <1>5 DEF Tells, Counts, OnOld, OnNew, Taking

LEMMA PlacesAreIn ==
  ASSUME ScriptInv, NEW n \in 1..(Len(ops) + 1)
  PROVE  PlacesA[n] \in 1..(Len(a) + 1) /\ PlacesB[n] \in 1..(Len(b) + 1)
<1> DEFINE S == {u \in Nat : u + 1 <= Len(ops) + 1 =>
                   PlacesA[u + 1] \in 1..(Len(a) + 1) /\ PlacesB[u + 1] \in 1..(Len(b) + 1)}
<1>0. /\ Len(ops) \in Nat /\ Len(a) \in Nat /\ Len(b) \in Nat
      /\ a \in Seq(Line) /\ b \in Seq(Line) /\ ops \in Seq(Op)
  BY DEF ScriptInv, ScriptType
<1>1. 0 \in S
  <2>1. 0 + 1 = 1 /\ 1 \in 1..(Len(ops) + 1)
    BY <1>0
  <2>2. PlacesA[0 + 1] = 1 /\ PlacesB[0 + 1] = 1
    BY <2>1 DEF PlacesA, PlacesB
  <2> QED
    BY <1>0, <2>2
<1>2. ASSUME NEW u \in S PROVE u + 1 \in S
  <2> SUFFICES ASSUME (u + 1) + 1 <= Len(ops) + 1
               PROVE  /\ PlacesA[(u + 1) + 1] \in 1..(Len(a) + 1)
                      /\ PlacesB[(u + 1) + 1] \in 1..(Len(b) + 1)
    OBVIOUS
  <2>1. u + 1 \in 1..Len(ops) /\ u + 1 <= Len(ops) + 1
    BY <1>0
  <2>2. PlacesA[u + 1] \in 1..(Len(a) + 1) /\ PlacesB[u + 1] \in 1..(Len(b) + 1)
    BY <2>1
  <2> HIDE DEF S
  <2>3. OpIsTrue(ops[u + 1])
    BY <1>0, <2>1 DEF ScriptInv, Chained
  <2>4. /\ PlacesA[u + 1] = ops[u + 1].lineA /\ PlacesB[u + 1] = ops[u + 1].lineB
        /\ PlacesA[(u + 1) + 1] = AfterA(ops[u + 1]) /\ PlacesB[(u + 1) + 1] = AfterB(ops[u + 1])
    BY <2>1, PlaceOfOp
  <2>5. /\ ops[u + 1].kind # "insert" => ops[u + 1].lineA \in 1..Len(a)
        /\ ops[u + 1].kind # "delete" => ops[u + 1].lineB \in 1..Len(b)
    BY <1>0, <2>3 DEF OpIsTrue
  <2>6. PlacesA[(u + 1) + 1] \in 1..(Len(a) + 1)
    BY <1>0, <2>2, <2>4, <2>5, SMTT(30) DEF AfterA
  <2>7. PlacesB[(u + 1) + 1] \in 1..(Len(b) + 1)
    BY <1>0, <2>2, <2>4, <2>5, SMTT(30) DEF AfterB
  <2> QED
    BY <2>6, <2>7
<1>3. S = Nat
  <2>1. S \in SUBSET Nat
    OBVIOUS
  <2> HIDE DEF S
  <2> QED
    BY <1>1, <1>2, <2>1, AllNaturals
<1>4. n - 1 \in Nat /\ (n - 1) + 1 = n /\ n <= Len(ops) + 1
  BY <1>0
<1> QED
  BY <1>3, <1>4

(* The sides of a hunk are parts of the texts.                             *)
LEMMA SidesAre ==
  ASSUME ScriptInv, NEW s \in 1..Len(ops), NEW e \in s..Len(ops)
  PROVE  /\ PlacesA[e + 1] - PlacesA[s] \in Nat
         /\ OldSide(<< s, e >>) = [k \in 1..(PlacesA[e + 1] - PlacesA[s]) |-> a[PlacesA[s] + k - 1]]
         /\ PlacesB[e + 1] - PlacesB[s] \in Nat
         /\ NewSide(<< s, e >>) = [k \in 1..(PlacesB[e + 1] - PlacesB[s]) |-> b[PlacesB[s] + k - 1]]
<1>1. Len(ops) \in Nat /\ Tells("insert", PlacesA, a) /\ Tells("delete", PlacesB, b)
  BY ScriptCounts
<1>2. /\ PlacesA[e + 1] - PlacesA[s] \in Nat
      /\ Side(<< s, e >>, "insert") = [k \in 1..(PlacesA[e + 1] - PlacesA[s]) |-> a[PlacesA[s] + k - 1]]
  BY <1>1, SideIs
<1>3. /\ PlacesB[e + 1] - PlacesB[s] \in Nat
      /\ Side(<< s, e >>, "delete") = [k \in 1..(PlacesB[e + 1] - PlacesB[s]) |-> b[PlacesB[s] + k - 1]]
  BY <1>1, SideIs
<1> QED
  BY <1>2, <1>3 DEF OldSide, NewSide
-----------------------------------------------------------------------------
(* Applying the hunks.  Before op n the reader has what a says up to that  *)
(* place, and from there on what b says.                                   *)
Mix(n) ==
  [q \in 1..((PlacesA[n] - 1) + (Len(b) + 1 - PlacesB[n])) |->
     IF q < PlacesA[n] THEN a[q] ELSE b[q - PlacesA[n] + PlacesB[n]]]

LEMMA ThreeParts ==
  ASSUME NEW x \in Seq(Line), NEW y \in Seq(Line), NEW z \in Seq(Line)
  PROVE  /\ x \o y \o z \in Seq(Line)
         /\ Len(x \o y \o z) = Len(x) + Len(y) + Len(z)
         /\ \A q \in 1..(Len(x) + Len(y) + Len(z)) :
              (x \o y \o z)[q] = IF q <= Len(x) THEN x[q]
                                 ELSE IF q <= Len(x) + Len(y) THEN y[q - Len(x)]
                                 ELSE z[q - Len(x) - Len(y)]
<1>1. /\ x \o y \in Seq(Line) /\ Len(x \o y) = Len(x) + Len(y)
      /\ \A q \in 1..(Len(x) + Len(y)) :
           (x \o y)[q] = IF q <= Len(x) THEN x[q] ELSE y[q - Len(x)]
  OBVIOUS
<1> DEFINE w == x \o y
<1>2. w \in Seq(Line)
  BY <1>1
<1> HIDE DEF w
<1>3. /\ w \o z \in Seq(Line) /\ Len(w \o z) = Len(w) + Len(z)
      /\ \A q \in 1..(Len(w) + Len(z)) :
           (w \o z)[q] = IF q <= Len(w) THEN w[q] ELSE z[q - Len(w)]
  BY <1>2
<1> QED
  BY <1>1, <1>3 DEF w

LEMMA SameElements ==
  ASSUME NEW x \in Seq(Line), NEW y \in Seq(Line), Len(x) = Len(y),
         \A q \in 1..Len(x) : x[q] = y[q]
  PROVE  x = y
OBVIOUS

LEMMA MixIs ==
  ASSUME ScriptInv, NEW n \in 1..(Len(ops) + 1)
  PROVE  /\ Mix(n) \in Seq(Line)
         /\ Len(Mix(n)) = (PlacesA[n] - 1) + (Len(b) + 1 - PlacesB[n])
         /\ \A q \in 1..Len(Mix(n)) :
              Mix(n)[q] = IF q < PlacesA[n] THEN a[q] ELSE b[q - PlacesA[n] + PlacesB[n]]
<1>1. a \in Seq(Line) /\ b \in Seq(Line) /\ Len(a) \in Nat /\ Len(b) \in Nat
  BY DEF ScriptInv, ScriptType
<1>2. PlacesA[n] \in 1..(Len(a) + 1) /\ PlacesB[n] \in 1..(Len(b) + 1)
  BY PlacesAreIn
<1> DEFINE p == PlacesA[n]
           r == PlacesB[n]
           L == (p - 1) + (Len(b) + 1 - r)
<1>3. L \in Nat
  BY <1>1, <1>2, SMTT(30)
<1>4. \A q \in 1..L : IF q < p THEN a[q] \in Line ELSE b[q - p + r] \in Line
  <2>1. p \in Nat /\ r \in Nat /\ p <= Len(a) + 1 /\ r >= 1
    BY <1>1, <1>2
  <2> HIDE DEF p, r
  <2>2. ASSUME NEW q \in 1..L, q < p PROVE a[q] \in Line
    <3>1. q \in 1..Len(a)
      BY <1>1, <2>1, <2>2
    <3> QED
      BY <1>1, <3>1
  <2>3. ASSUME NEW q \in 1..L, ~(q < p) PROVE b[q - p + r] \in Line
    <3>1. q - p + r \in 1..Len(b)
      BY <1>1, <2>1, <2>3
    <3> QED
      BY <1>1, <3>1
  <2> QED
    BY <2>2, <2>3
<1>5. Mix(n) = [q \in 1..L |-> IF q < p THEN a[q] ELSE b[q - p + r]]
  BY DEF Mix
<1> HIDE DEF L, p, r
<1>6. Mix(n) \in [1..L -> Line]
  BY <1>4, <1>5
<1>7. Mix(n) \in Seq(Line) /\ Len(Mix(n)) = L
  BY <1>3, <1>6
<1> QED
  BY <1>5, <1>7 DEF L, p, r

LEMMA PartOf ==
  ASSUME NEW x \in Seq(Line), NEW m \in 1..(Len(x) + 1), NEW n \in (m - 1)..Len(x)
  PROVE  /\ SubSeq(x, m, n) \in Seq(Line)
         /\ Len(SubSeq(x, m, n)) = n - m + 1
         /\ \A k \in 1..(n - m + 1) : SubSeq(x, m, n)[k] = x[m + k - 1]
<1>1. \A k \in m..n : x[k] \in Line
  OBVIOUS
<1>2. SubSeq(x, m, n) \in Seq(Line)
  BY <1>1
<1>3. Len(SubSeq(x, m, n)) = n - m + 1
  OBVIOUS
<1> QED
  BY <1>2, <1>3

(* What the header of a hunk says.                                         *)
Fit(h) == h[1] = 1 \/ ops[h[1]].kind = "equal"

LEMMA HeaderIs ==
  ASSUME ScriptInv, NEW s \in 1..Len(ops), NEW e \in s..Len(ops), Fit(<< s, e >>)
  PROVE  /\ Header(<< s, e >>).countA = PlacesA[e + 1] - PlacesA[s]
         /\ Before(Header(<< s, e >>).startA, Header(<< s, e >>).countA) = PlacesA[s] - 1
<1> DEFINE old == OldSide(<< s, e >>)
           D == PlacesA[e + 1] - PlacesA[s]
<1>1. Len(ops) \in Nat /\ e + 1 \in 1..(Len(ops) + 1) /\ s \in 1..(Len(ops) + 1) /\ s + 1 \in 1..(Len(ops) + 1)
  BY ScriptCounts
<1>2. PlacesA[s] \in Nat \ {0} /\ PlacesA[e + 1] \in Nat
  BY <1>1, PlacesAreIn, SMTT(30) DEF ScriptInv, ScriptType
<1>3. D \in Nat /\ old = [k \in 1..D |-> a[PlacesA[s] + k - 1]]
  BY SidesAre
<1>4. Len(old) = D /\ (old = << >> <=> D = 0)
  <2> HIDE DEF D, old
  <2>1. DOMAIN old = 1..D
    BY <1>3
  <2>2. Len(old) = D
    BY <1>3
  <2>3. D = 0 => old = << >>
    BY <1>3
  <2>4. old = << >> => D = 0
    BY <2>2
  <2> QED
    BY <2>2, <2>3, <2>4
<1>5. PlacesA[s] = ops[s].lineA
  BY PlaceOfOp
<1>6. /\ Header(<< s, e >>).countA = Len(old)
      /\ Header(<< s, e >>).startA = IF old = << >> THEN 0 ELSE ops[s].lineA
  BY DEF Header, Start
<1>7. D = 0 => PlacesA[s] = 1
  <2> SUFFICES ASSUME D = 0, s # 1 PROVE FALSE
    <3>1. s = 1 => PlacesA[s] = 1
      BY <1>1 DEF PlacesA
    <3> QED
      BY <3>1
  <2>1. ops[s].kind = "equal"
    BY DEF Fit
  <2>2. PlacesA[s + 1] = PlacesA[s] + 1
    BY <2>1, PlaceOfOp DEF AfterA
  <2>3. Counts(Len(ops), OnOld, PlacesA)
    BY ScriptCounts DEF Tells, OnOld
  <2>4. PlacesA[e + 1] >= PlacesA[s + 1]
    <3>1. CASE s = e
      BY <1>2, <2>2, <3>1
    <3>2. CASE s # e
      <4>1. s + 1 \in 1..Len(ops) /\ e \in (s + 1)..Len(ops)
        BY <1>1, <3>2
      <4>2. PlacesA[e + 1] - PlacesA[s + 1] \in Nat
        BY <4>1, SidesAre
      <4>3. PlacesA[s + 1] \in Nat
        BY <1>1, PlacesAreIn DEF ScriptInv, ScriptType
      <4> QED
        BY <1>2, <4>2, <4>3
    <3> QED
      BY <3>1, <3>2
  <2> QED
    BY <1>2, <2>2, <2>4
<1>8. Header(<< s, e >>).countA = D
  BY <1>4, <1>6
<1>9. Before(Header(<< s, e >>).startA, Header(<< s, e >>).countA) = PlacesA[s] - 1
  <2>1. CASE D = 0
    <3>1. old = << >> /\ PlacesA[s] = 1
      BY <1>4, <1>7, <2>1
    <3>2. Header(<< s, e >>).startA = 0
      BY <1>6, <3>1
    <3> QED
      BY <1>8, <2>1, <3>1, <3>2 DEF Before
  <2>2. CASE D # 0
    BY <1>4, <1>5, <1>6, <1>8, <2>2 DEF Before
  <2> QED
    BY <2>1, <2>2
<1> QED
  BY <1>8, <1>9

(* A hunk replaces in the text before its end what b says there.           *)
LEMMA PatchOne ==
  ASSUME ScriptInv, NEW s \in 1..Len(ops), NEW e \in s..Len(ops), Fit(<< s, e >>)
  PROVE  Patched(Mix(e + 1), << s, e >>) = Mix(s)
<1> DEFINE p == PlacesA[s]
           r == PlacesB[s]
           u == PlacesA[e + 1]
           v == PlacesB[e + 1]
           text == Mix(e + 1)
           new == NewSide(<< s, e >>)
           x == SubSeq(text, 1, p - 1)
           z == SubSeq(text, u, Len(text))
<1>1. Len(ops) \in Nat /\ e + 1 \in 1..(Len(ops) + 1) /\ s \in 1..(Len(ops) + 1) /\ Len(a) \in Nat /\ Len(b) \in Nat
  BY ScriptCounts DEF ScriptInv, ScriptType
<1>2. p \in 1..(Len(a) + 1) /\ r \in 1..(Len(b) + 1) /\ u \in 1..(Len(a) + 1) /\ v \in 1..(Len(b) + 1)
  BY <1>1, PlacesAreIn
<1>3. u - p \in Nat /\ v - r \in Nat /\ new = [k \in 1..(v - r) |-> b[r + k - 1]]
  BY SidesAre
<1>4. /\ text \in Seq(Line)
      /\ Len(text) = (u - 1) + (Len(b) + 1 - v)
      /\ \A q \in 1..Len(text) : text[q] = IF q < u THEN a[q] ELSE b[q - u + v]
  BY <1>1, MixIs
<1>5. /\ Mix(s) \in Seq(Line)
      /\ Len(Mix(s)) = (p - 1) + (Len(b) + 1 - r)
      /\ \A q \in 1..Len(Mix(s)) : Mix(s)[q] = IF q < p THEN a[q] ELSE b[q - p + r]
  BY <1>1, MixIs
<1>6. Patched(text, << s, e >>) = x \o new \o z
  <2>1. (p - 1) + (u - p) + 1 = u
    BY <1>2, SMTT(30)
  <2> QED
    BY <2>1, HeaderIs DEF Patched
<1>7. b \in Seq(Line)
  BY DEF ScriptInv, ScriptType
<1> HIDE DEF text, new, p, r, u, v
<1>8. x \in Seq(Line) /\ Len(x) = p - 1 /\ \A q \in 1..(p - 1) : x[q] = a[q]
  <2>0. /\ Len(text) \in Nat /\ p - 1 <= Len(text) /\ p <= u
        /\ p \in Nat /\ 1 <= p /\ u \in Nat
    <3>1. Len(text) \in Nat /\ Len(text) >= u - 1
      BY <1>1, <1>2, <1>4
    <3>2. p <= u
      BY <1>2, <1>3
    <3> QED
      BY <1>2, <3>1, <3>2
  <2>1. 1 \in 1..(Len(text) + 1) /\ p - 1 \in (1 - 1)..Len(text)
    BY <2>0
  <2>2. /\ SubSeq(text, 1, p - 1) \in Seq(Line)
        /\ Len(SubSeq(text, 1, p - 1)) = (p - 1) - 1 + 1
        /\ \A k \in 1..((p - 1) - 1 + 1) : SubSeq(text, 1, p - 1)[k] = text[1 + k - 1]
    BY <1>4, <2>1, PartOf
  <2>3. ASSUME NEW q \in 1..(p - 1) PROVE text[1 + q - 1] = a[q] /\ q \in 1..((p - 1) - 1 + 1)
    <3>1. q \in 1..Len(text) /\ q < u /\ 1 + q - 1 = q /\ q \in 1..((p - 1) - 1 + 1)
      BY <2>0
    <3> QED
      BY <1>4, <3>1
  <2> QED
    BY <1>2, <2>2, <2>3
<1>9. new \in Seq(Line) /\ Len(new) = v - r /\ \A q \in 1..(v - r) : new[q] = b[r + q - 1]
  <2>1. ASSUME NEW k \in 1..(v - r) PROVE b[r + k - 1] \in Line
    <3>1. r + k - 1 \in 1..Len(b)
      BY <1>1, <1>2
    <3> QED
      BY <1>7, <3>1
  <2>2. new \in [1..(v - r) -> Line]
    BY <1>3, <2>1
  <2> QED
    BY <1>3, <2>2, SMTT(30)
<1>10. z \in Seq(Line) /\ Len(z) = Len(b) + 1 - v /\ \A q \in 1..(Len(b) + 1 - v) : z[q] = b[q - 1 + v]
  <2>1. u \in 1..(Len(text) + 1) /\ Len(text) \in (u - 1)..Len(text) /\ Len(text) - u + 1 = Len(b) + 1 - v
    BY <1>1, <1>2, <1>4
  <2>2. /\ z \in Seq(Line)
        /\ Len(z) = Len(text) - u + 1
        /\ \A k \in 1..(Len(text) - u + 1) : z[k] = text[u + k - 1]
    BY <1>4, <2>1, PartOf
  <2>3. ASSUME NEW q \in 1..(Len(b) + 1 - v) PROVE text[u + q - 1] = b[q - 1 + v]
    <3>1. u + q - 1 \in 1..Len(text) /\ ~(u + q - 1 < u) /\ (u + q - 1) - u + v = q - 1 + v
      BY <1>1, <1>2, <1>4, SMTT(30)
    <3> QED
      BY <1>4, <3>1
  <2> QED
    BY <2>1, <2>2, <2>3
<1> HIDE DEF x, z
<1> DEFINE w == x \o new \o z
<1>11. /\ w \in Seq(Line)
       /\ Len(w) = Len(x) + Len(new) + Len(z)
       /\ \A q \in 1..(Len(x) + Len(new) + Len(z)) :
            w[q] = IF q <= Len(x) THEN x[q]
                   ELSE IF q <= Len(x) + Len(new) THEN new[q - Len(x)]
                   ELSE z[q - Len(x) - Len(new)]
  BY <1>8, <1>9, <1>10, ThreeParts
<1> HIDE DEF w
<1>12. Len(w) = Len(Mix(s))
  BY <1>1, <1>2, <1>3, <1>5, <1>8, <1>9, <1>10, <1>11
<1>13. ASSUME NEW q \in 1..Len(w) PROVE w[q] = Mix(s)[q]
  <2>0. Mix(s)[q] = IF q < p THEN a[q] ELSE b[q - p + r]
    BY <1>5, <1>12
  <2>1. CASE q <= Len(x)
    <3>1. q \in 1..(p - 1) /\ q < p
      BY <1>1, <1>2, <1>8, <2>1
    <3>2. w[q] = x[q]
      BY <1>11, <2>1
    <3> QED
      BY <1>8, <2>0, <3>1, <3>2
  <2>2. CASE ~(q <= Len(x)) /\ q <= Len(x) + Len(new)
    <3>1. q - Len(x) \in 1..(v - r) /\ ~(q < p) /\ r + (q - Len(x)) - 1 = q - p + r
      BY <1>1, <1>2, <1>3, <1>8, <1>9, <2>2
    <3>2. w[q] = new[q - Len(x)]
      BY <1>11, <2>2
    <3> QED
      BY <1>9, <2>0, <3>1, <3>2
  <2>3. CASE ~(q <= Len(x)) /\ ~(q <= Len(x) + Len(new))
    <3>1. /\ q - Len(x) - Len(new) \in 1..(Len(b) + 1 - v) /\ ~(q < p)
          /\ (q - Len(x) - Len(new)) - 1 + v = q - p + r
      BY <1>1, <1>2, <1>3, <1>8, <1>9, <1>10, <1>11, <2>3, SMTT(30)
    <3>2. w[q] = z[q - Len(x) - Len(new)]
      BY <1>8, <1>9, <1>11, <2>3
    <3> QED
      BY <1>10, <2>0, <3>1, <3>2
  <2> QED
    BY <2>1, <2>2, <2>3
<1>14. w = Mix(s)
  BY <1>5, <1>11, <1>12, <1>13, SameElements
<1> QED
  BY <1>6, <1>14 DEF w, text

(* An op that both texts have does not tell the two ways of reading apart. *)
LEMMA MixOfEqual ==
  ASSUME ScriptInv, NEW n \in 1..Len(ops), ops[n].kind = "equal"
  PROVE  Mix(n) = Mix(n + 1)
<1> DEFINE p == PlacesA[n]
           r == PlacesB[n]
           u == PlacesA[n + 1]
           v == PlacesB[n + 1]
<1>1. Len(ops) \in Nat /\ n \in 1..(Len(ops) + 1) /\ n + 1 \in 1..(Len(ops) + 1) /\ Len(b) \in Nat /\ Len(a) \in Nat
  BY ScriptCounts DEF ScriptInv, ScriptType
<1>2. p \in 1..(Len(a) + 1) /\ r \in 1..(Len(b) + 1)
  BY <1>1, PlacesAreIn
<1>3. u = p + 1 /\ v = r + 1
  BY PlaceOfOp DEF AfterA, AfterB
<1>4. a[p] = b[r]
  <2>1. OpIsTrue(ops[n])
    BY <1>1 DEF ScriptInv, Chained
  <2> QED
    BY <2>1, PlaceOfOp DEF OpIsTrue
<1>5. /\ Mix(n) \in Seq(Line)
      /\ Len(Mix(n)) = (p - 1) + (Len(b) + 1 - r)
      /\ \A q \in 1..Len(Mix(n)) : Mix(n)[q] = IF q < p THEN a[q] ELSE b[q - p + r]
  BY <1>1, MixIs
<1>6. /\ Mix(n + 1) \in Seq(Line)
      /\ Len(Mix(n + 1)) = (u - 1) + (Len(b) + 1 - v)
      /\ \A q \in 1..Len(Mix(n + 1)) : Mix(n + 1)[q] = IF q < u THEN a[q] ELSE b[q - u + v]
  BY <1>1, MixIs
<1> HIDE DEF p, r, u, v
<1>7. Len(Mix(n)) = Len(Mix(n + 1))
  <2>1. (u - 1) + (Len(b) + 1 - v) = (p - 1) + (Len(b) + 1 - r)
    BY <1>1, <1>2, <1>3, SMTT(30)
  <2> QED
    BY <1>5, <1>6, <2>1
<1>8. ASSUME NEW q \in 1..Len(Mix(n)) PROVE Mix(n)[q] = Mix(n + 1)[q]
  <2>0. q \in Int
    BY <1>1, <1>2, <1>5
  <2>1. Mix(n)[q] = IF q < p THEN a[q] ELSE b[q - p + r]
    BY <1>5
  <2>2. Mix(n + 1)[q] = IF q < u THEN a[q] ELSE b[q - u + v]
    BY <1>6, <1>7
  <2>3. CASE q < p
    <3>1. q < u
      BY <1>2, <1>3, <2>0, <2>3
    <3> QED
      BY <2>1, <2>2, <2>3, <3>1
  <2>4. CASE q = p
    <3>1. ~(q < p) /\ q < u /\ q - p + r = r
      BY <1>2, <1>3, <2>0, <2>4
    <3> QED
      BY <1>4, <2>1, <2>2, <2>4, <3>1
  <2>5. CASE p < q
    <3>1. ~(q < p) /\ ~(q < u) /\ q - u + v = q - p + r
      BY <1>2, <1>3, <2>0, <2>5
    <3> QED
      BY <2>1, <2>2, <3>1
  <2>6. q < p \/ q = p \/ p < q
    BY <1>2, <2>0
  <2> QED
    BY <2>3, <2>4, <2>5, <2>6
<1> QED
  BY <1>5, <1>6, <1>7, <1>8, SameElements

LEMMA MixOfRun ==
  ASSUME ScriptInv, NEW x \in 1..(Len(ops) + 1), NEW y \in x..(Len(ops) + 1),
         \A n \in x..(y - 1) : ops[n].kind = "equal"
  PROVE  Mix(x) = Mix(y)
<1> DEFINE S == {u \in Nat : x + u <= y => Mix(x) = Mix(x + u)}
<1>1. 0 \in S
  OBVIOUS
<1>2. ASSUME NEW u \in S PROVE u + 1 \in S
  <2> SUFFICES ASSUME x + (u + 1) <= y PROVE Mix(x) = Mix(x + (u + 1))
    OBVIOUS
  <2>1. Len(ops) \in Nat
    BY ScriptCounts
  <2>2. x + u \in 1..Len(ops) /\ x + u \in x..(y - 1) /\ (x + u) + 1 = x + (u + 1) /\ x + u <= y
    BY <2>1
  <2>3. Mix(x + u) = Mix((x + u) + 1)
    BY <2>2, MixOfEqual
  <2> QED
    BY <2>2, <2>3
<1>3. S = Nat
  <2>1. S \in SUBSET Nat
    OBVIOUS
  <2> HIDE DEF S
  <2> QED
    BY <1>1, <1>2, <2>1, AllNaturals
<1>4. y - x \in Nat /\ x + (y - x) = y /\ y <= y
  OBVIOUS
<1> QED
  BY <1>3, <1>4

LEMMA MixAtTheEnds ==
  ASSUME ScriptInv, phase # "walk"
  PROVE  Mix(Len(ops) + 1) = a /\ Mix(1) = b
<1>1. /\ Len(ops) \in Nat /\ 1 \in 1..(Len(ops) + 1) /\ Len(ops) + 1 \in 1..(Len(ops) + 1)
      /\ a \in Seq(Line) /\ b \in Seq(Line) /\ Len(a) \in Nat /\ Len(b) \in Nat
  BY ScriptCounts DEF ScriptInv, ScriptType
<1>2. PlacesA[1] = 1 /\ PlacesB[1] = 1
  BY <1>1 DEF PlacesA, PlacesB
<1>3. PlacesA[Len(ops) + 1] = Len(a) + 1 /\ PlacesB[Len(ops) + 1] = Len(b) + 1
  <2>1. AtA = Len(a) + 1 /\ AtB = Len(b) + 1
    BY DEF ScriptInv, Reached, Exhausted
  <2>2. ops = << >> <=> Len(ops) + 1 = 1
    BY DEF ScriptInv, ScriptType
  <2>3. (Len(ops) + 1) - 1 = Len(ops)
    BY <1>1
  <2> QED
    BY <1>1, <2>1, <2>2, <2>3 DEF PlacesA, PlacesB, AtA, AtB
<1>4. Mix(Len(ops) + 1) = a
  <2>1. /\ Mix(Len(ops) + 1) \in Seq(Line)
        /\ Len(Mix(Len(ops) + 1)) = (Len(a) + 1 - 1) + (Len(b) + 1 - (Len(b) + 1))
        /\ \A q \in 1..Len(Mix(Len(ops) + 1)) :
             Mix(Len(ops) + 1)[q] = IF q < Len(a) + 1 THEN a[q] ELSE b[q - (Len(a) + 1) + (Len(b) + 1)]
    BY <1>1, <1>3, MixIs, SMTT(30)
  <2>2. Len(Mix(Len(ops) + 1)) = Len(a)
    BY <1>1, <2>1
  <2>3. ASSUME NEW q \in 1..Len(Mix(Len(ops) + 1)) PROVE Mix(Len(ops) + 1)[q] = a[q]
    BY <1>1, <2>1, <2>2
  <2> QED
    BY <1>1, <2>1, <2>2, <2>3, SameElements
<1>5. Mix(1) = b
  <2>1. /\ Mix(1) \in Seq(Line)
        /\ Len(Mix(1)) = (1 - 1) + (Len(b) + 1 - 1)
        /\ \A q \in 1..Len(Mix(1)) : Mix(1)[q] = IF q < 1 THEN a[q] ELSE b[q - 1 + 1]
    BY <1>1, <1>2, MixIs
  <2>2. Len(Mix(1)) = Len(b)
    BY <1>1, <2>1
  <2>3. ASSUME NEW q \in 1..Len(Mix(1)) PROVE Mix(1)[q] = b[q]
    BY <1>1, <2>1, <2>2
  <2> QED
    BY <1>1, <2>1, <2>2, <2>3, SameElements
<1> QED
  BY <1>4, <1>5
-----------------------------------------------------------------------------
(* Every hunk begins with the script or with an op that both texts have.   *)
HunksFit == \A k \in DOMAIN hunks : hunks[k][1] <= hunks[k][2] /\ Fit(hunks[k])

PatchInv ==
  /\ GroupInv
  /\ HunksFit
  /\ hunks = << >> => pos = 1

LEMMA InitPatch == Init => PatchInv
BY InitGroup DEF Init, PatchInv, HunksFit

LEMMA GroupHunkFits == PatchInv /\ GroupHunk => HunksFit'
<1> SUFFICES ASSUME PatchInv, GroupHunk PROVE HunksFit'
  OBVIOUS
<1> DEFINE C == ChangesFrom(pos)
           f == Min(C)
           h == Hunk(f)
<1>1. ops \in Seq(Op) /\ Len(ops) \in Nat /\ pos \in 1..(Len(ops) + 1) /\ Context \in Nat \ {0}
  BY ContextAssumption DEF PatchInv, GroupInv, ScriptInv, ScriptType, HunkType
<1>2. C \in SUBSET Nat /\ C # {} /\ C \subseteq 1..Len(ops)
  BY <1>1 DEF ChangesFrom, GroupHunk
<1>3. f \in C /\ \A n \in C : f <= n
  <2> HIDE DEF C
  <2> QED
    BY <1>2, LeastChange
<1>4. f \in 1..Len(ops) /\ ops[f].kind # "equal" /\ f >= pos
  BY <1>1, <1>3 DEF ChangesFrom
<1>5. hunks' = Append(hunks, h) /\ ops' = ops
  BY DEF GroupHunk
<1>6. hunks # << >> => pos + Context < f
  BY <1>3 DEF PatchInv, GroupInv, NextIsAhead
<1> HIDE DEF f
<1>7. /\ h \in (1..Len(ops)) \X (1..Len(ops))
      /\ h[1] = 1 \/ h[1] = f - Context
      /\ h[1] <= h[2]
  BY <1>1, <1>4, NewHunk
<1>8. h[1] = 1 \/ ops[h[1]].kind = "equal"
  <2> SUFFICES ASSUME h[1] # 1 PROVE ops[h[1]].kind = "equal"
    OBVIOUS
  <2>1. h[1] = f - Context /\ h[1] \in 1..Len(ops)
    BY <1>7
  <2>2. pos <= h[1]
    <3>1. CASE hunks = << >>
      BY <2>1, <3>1 DEF PatchInv
    <3>2. CASE hunks # << >>
      BY <1>1, <1>4, <1>6, <2>1, <3>2
    <3> QED
      BY <3>1, <3>2
  <2>3. ~(f <= h[1])
    BY <1>1, <1>4, <2>1
  <2>4. h[1] \notin C
    BY <1>3, <2>3
  <2>5. h[1] \in pos..Len(ops)
    BY <1>1, <2>1, <2>2
  <2> QED
    BY <2>4, <2>5 DEF ChangesFrom
<1>9. hunks \in Seq((1..Len(ops)) \X (1..Len(ops)))
  BY DEF PatchInv, GroupInv, HunkType
<1> HIDE DEF h, C
<1>10. ASSUME NEW k \in DOMAIN hunks' PROVE hunks'[k][1] <= hunks'[k][2] /\ (hunks'[k][1] = 1 \/ ops[hunks'[k][1]].kind = "equal")
  <2>1. CASE k = Len(hunks) + 1
    <3>1. hunks'[k] = h
      BY <1>5, <1>9, <2>1
    <3> QED
      BY <1>7, <1>8, <3>1
  <2>2. CASE k # Len(hunks) + 1
    <3>1. k \in DOMAIN hunks /\ hunks'[k] = hunks[k]
      BY <1>5, <1>7, <1>9, <2>2, SMTT(30)
    <3> QED
      BY <3>1 DEF PatchInv, HunksFit, Fit
  <2> QED
    BY <2>1, <2>2
<1> QED
  BY <1>5, <1>10 DEF HunksFit, Fit

LEMMA NextPatch == PatchInv /\ [Next]_vars => PatchInv'
<1> SUFFICES ASSUME PatchInv, [Next]_vars PROVE PatchInv'
  OBVIOUS
<1>1. GroupInv'
  BY NextGroup DEF PatchInv
<1>2. CASE Keep \/ Delete \/ Insert
  <2>1. hunks = << >> /\ pos = 1 /\ UNCHANGED << hunks, pos >>
    BY <1>2 DEF Keep, Delete, Insert, Emit, PatchInv, GroupInv
  <2> QED
    BY <1>1, <2>1 DEF PatchInv, HunksFit
<1>3. CASE Walked \/ Grouped \/ UNCHANGED vars
  <2>1. UNCHANGED << ops, pos, hunks >>
    BY <1>3 DEF Walked, Grouped, vars
  <2> QED
    BY <1>1, <2>1 DEF PatchInv, HunksFit, Fit
<1>4. CASE GroupHunk
  <2>1. HunksFit'
    BY <1>4, GroupHunkFits
  <2>2. hunks' # << >>
    BY <1>4, SMTT(30) DEF GroupHunk, PatchInv, GroupInv, HunkType
  <2> QED
    BY <1>1, <2>1, <2>2 DEF PatchInv
<1> QED
  BY <1>2, <1>3, <1>4 DEF Next
-----------------------------------------------------------------------------
(* Where the k-th hunk begins; after the last one comes the script's end.  *)
StartOf(k) == IF k > Len(hunks) THEN Len(ops) + 1 ELSE hunks[k][1]

LEMMA HunkOf ==
  ASSUME PatchInv, NEW k \in DOMAIN hunks
  PROVE  /\ hunks[k][1] \in 1..Len(ops)
         /\ hunks[k][2] \in hunks[k][1]..Len(ops)
         /\ hunks[k] = << hunks[k][1], hunks[k][2] >>
         /\ Fit(hunks[k])
<1>1. hunks[k] \in (1..Len(ops)) \X (1..Len(ops)) /\ Len(ops) \in Nat
  BY DEF PatchInv, GroupInv, HunkType, ScriptInv, ScriptType
<1>2. hunks[k][1] <= hunks[k][2] /\ Fit(hunks[k])
  BY DEF PatchInv, HunksFit
<1> QED
  BY <1>1, <1>2

(* Between two hunks, and before the first one, nothing changes.           *)
LEMMA EqualBetween ==
  ASSUME PatchInv, phase = "done", NEW k \in 0..Len(hunks),
         NEW n \in (IF k = 0 THEN 1 ELSE hunks[k][2] + 1)..(StartOf(k + 1) - 1)
  PROVE  n \in 1..Len(ops) => ops[n].kind = "equal"
<1>0. Len(hunks) \in Nat /\ Len(ops) \in Nat /\ DOMAIN hunks = 1..Len(hunks) /\ pos \in 1..(Len(ops) + 1)
  BY DEF PatchInv, GroupInv, HunkType, ScriptInv, ScriptType
<1> SUFFICES ASSUME n \in 1..Len(ops), ops[n].kind # "equal" PROVE FALSE
  OBVIOUS
<1>1. n \in ChangesFrom(1) /\ n < pos
  <2>1. ChangesFrom(pos) = {}
    BY DEF PatchInv, GroupInv
  <2>2. n \notin pos..Len(ops)
    BY <2>1 DEF ChangesFrom
  <2> QED
    BY <1>0, <2>2 DEF ChangesFrom
<1>2. PICK l \in DOMAIN hunks : Shows(hunks[l], n)
  BY <1>1 DEF PatchInv, GroupInv, PassedAreShown
<1>3. n \in hunks[l][1]..hunks[l][2]
  <2>1. n \in DOMAIN ops /\ n \in (n - Context)..(n + Context)
    BY <1>0, ContextAssumption DEF PatchInv, GroupInv, ScriptInv, ScriptType
  <2> QED
    BY <1>2, <2>1 DEF Shows
<1>4. hunks[l][1] \in 1..Len(ops) /\ hunks[l][2] \in hunks[l][1]..Len(ops) /\ l \in 1..Len(hunks)
  BY <1>0, HunkOf
<1>5. l > k
  <2> SUFFICES ASSUME l <= k PROVE FALSE
    BY <1>4
  <2>1. k \in DOMAIN hunks /\ k # 0 /\ n \in (hunks[k][2] + 1)..(StartOf(k + 1) - 1)
    BY <1>0, <1>4
  <2>2. hunks[k][1] \in 1..Len(ops) /\ hunks[k][2] \in hunks[k][1]..Len(ops)
    BY <2>1, HunkOf
  <2>3. hunks[k][2] < n
    BY <1>0, <2>1, <2>2
  <2>4. CASE l = k
    BY <1>3, <1>4, <2>3, <2>4
  <2>5. CASE l < k
    <3>1. hunks[l][2] + 1 < hunks[k][1]
      BY <2>1, <2>5 DEF PatchInv, GroupInv, HunksAreApart
    <3> QED
      BY <1>3, <1>4, <2>2, <2>3, <3>1
  <2> QED
    BY <1>4, <2>4, <2>5
<1>6. k + 1 \in DOMAIN hunks /\ StartOf(k + 1) = hunks[k + 1][1]
  BY <1>0, <1>4, <1>5 DEF StartOf
<1>7. hunks[k + 1][1] \in 1..Len(ops) /\ hunks[k + 1][2] \in hunks[k + 1][1]..Len(ops)
  BY <1>6, HunkOf
<1>8. hunks[k + 1][1] <= hunks[l][1]
  <2>1. CASE l = k + 1
    BY <1>7, <2>1
  <2>2. CASE k + 1 < l
    <3>1. hunks[k + 1][2] + 1 < hunks[l][1]
      BY <1>6, <2>2 DEF PatchInv, GroupInv, HunksAreApart
    <3> QED
      BY <1>4, <1>7, <3>1, SMTT(30)
  <2> QED
    BY <1>4, <1>5, <2>1, <2>2
<1>9. n <= hunks[k + 1][1] - 1
  <2>1. n <= StartOf(k + 1) - 1
    OBVIOUS
  <2> QED
    BY <1>6, <2>1
<1> QED
  BY <1>3, <1>4, <1>7, <1>8, <1>9

LEMMA StartsAre ==
  ASSUME PatchInv, NEW k \in 1..(Len(hunks) + 1)
  PROVE  StartOf(k) \in 1..(Len(ops) + 1)
<1>1. Len(hunks) \in Nat /\ Len(ops) \in Nat /\ DOMAIN hunks = 1..Len(hunks)
  BY SMTT(30) DEF PatchInv, GroupInv, HunkType, ScriptInv, ScriptType
<1>2. CASE k > Len(hunks)
  BY <1>1, <1>2 DEF StartOf
<1>3. CASE ~(k > Len(hunks))
  <2>1. k \in DOMAIN hunks
    BY <1>1, <1>3
  <2>2. hunks[k][1] \in 1..Len(ops)
    BY <2>1, HunkOf
  <2> QED
    BY <1>1, <1>3, <2>2 DEF StartOf
<1> QED
  BY <1>2, <1>3

LEMMA HunkPatches ==
  ASSUME PatchInv, phase = "done", NEW k \in DOMAIN hunks
  PROVE  Patched(Mix(StartOf(k + 1)), hunks[k]) = Mix(StartOf(k))
<1>0. Len(hunks) \in Nat /\ Len(ops) \in Nat /\ DOMAIN hunks = 1..Len(hunks) /\ ScriptInv
  BY SMTT(30) DEF PatchInv, GroupInv, HunkType, ScriptInv, ScriptType
<1> DEFINE s == hunks[k][1]
           e == hunks[k][2]
           t == StartOf(k + 1)
<1>1. s \in 1..Len(ops) /\ e \in s..Len(ops) /\ hunks[k] = << s, e >> /\ Fit(<< s, e >>)
  BY HunkOf
<1>2. k + 1 \in 1..(Len(hunks) + 1) /\ k \in 0..Len(hunks) /\ k # 0
  BY <1>0
<1>3. t \in 1..(Len(ops) + 1)
  BY <1>2, StartsAre
<1>4. e + 1 <= t
  <2>1. CASE k + 1 > Len(hunks)
    BY <1>0, <1>1, <2>1 DEF StartOf
  <2>2. CASE ~(k + 1 > Len(hunks))
    <3>1. k + 1 \in DOMAIN hunks /\ k < k + 1
      BY <1>0, <2>2
    <3>2. hunks[k][2] + 1 < hunks[k + 1][1]
      BY <3>1 DEF PatchInv, GroupInv, HunksAreApart
    <3>3. t = hunks[k + 1][1]
      BY <2>2 DEF StartOf
    <3> HIDE DEF t
    <3> QED
      BY <1>1, <1>3, <3>2, <3>3
  <2> QED
    BY <2>1, <2>2
<1>5. ASSUME NEW n \in (e + 1)..(t - 1) PROVE ops[n].kind = "equal"
  <2>1. n \in (IF k = 0 THEN 1 ELSE hunks[k][2] + 1)..(StartOf(k + 1) - 1)
    BY <1>2
  <2>2. n \in 1..Len(ops) => ops[n].kind = "equal"
    BY <1>2, <2>1, EqualBetween
  <2> HIDE DEF s, e, t
  <2>3. n \in 1..Len(ops)
    BY <1>0, <1>1, <1>3
  <2> QED
    BY <2>2, <2>3
<1>6. StartOf(k) = s
  BY <1>0 DEF StartOf
<1> HIDE DEF s, e, t
<1>7. e + 1 \in 1..(Len(ops) + 1) /\ t \in (e + 1)..(Len(ops) + 1)
  BY <1>0, <1>1, <1>3, <1>4
<1>8. Mix(e + 1) = Mix(t)
  BY <1>0, <1>5, <1>7, MixOfRun
<1>9. Patched(Mix(e + 1), << s, e >>) = Mix(s)
  BY <1>0, <1>1, PatchOne
<1> QED
  BY <1>1, <1>6, <1>8, <1>9 DEF t

LEMMA PatchingGivesB ==
  ASSUME PatchInv, phase = "done"
  PROVE  AllPatched = b
<1> DEFINE N == Len(hunks)
           D == 1..(N + 1)
           g == [k \in D |-> Mix(StartOf(k))]
           from == CHOOSE from : from = [k \in D |-> IF k > N THEN a ELSE Patched(from[k + 1], hunks[k])]
<1>0. N \in Nat /\ Len(ops) \in Nat /\ DOMAIN hunks = 1..N /\ ScriptInv /\ hunks \in Seq((1..Len(ops)) \X (1..Len(ops)))
  BY DEF PatchInv, GroupInv, HunkType, ScriptInv, ScriptType
<1>1. Mix(Len(ops) + 1) = a /\ Mix(1) = b
  BY <1>0, MixAtTheEnds
<1>2. ASSUME NEW k \in D
      PROVE  g[k] = IF k > N THEN a ELSE Patched(g[k + 1], hunks[k])
  <2>1. CASE k > N
    <3>1. StartOf(k) = Len(ops) + 1
      BY <2>1 DEF StartOf
    <3> QED
      BY <1>1, <2>1, <3>1
  <2>2. CASE ~(k > N)
    <3>1. k \in DOMAIN hunks /\ k + 1 \in D
      BY <1>0, <2>2
    <3>2. Patched(Mix(StartOf(k + 1)), hunks[k]) = Mix(StartOf(k))
      BY <3>1, HunkPatches
    <3> QED
      BY <2>2, <3>1, <3>2
  <2> QED
    BY <2>1, <2>2
<1>3. AllPatched = from[1]
  BY Zenon DEF AllPatched
<1>4. g = [k \in D |-> IF k > N THEN a ELSE Patched(g[k + 1], hunks[k])]
  <2>1. g = [k \in D |-> g[k]]
    OBVIOUS
  <2> HIDE DEF g, N, D
  <2> QED
    BY <1>2, <2>1
<1>5. from = [k \in D |-> IF k > N THEN a ELSE Patched(from[k + 1], hunks[k])]
  <2> HIDE DEF g, N, D
  <2> QED
    BY <1>4, Zenon
<1> HIDE DEF from
<1> DEFINE S == {u \in Nat : u <= N => from[N + 1 - u] = g[N + 1 - u]}
<1>6. 0 \in S
  <2>1. N + 1 \in D /\ N + 1 > N /\ N + 1 - 0 = N + 1
    BY <1>0
  <2> HIDE DEF g, N, D
  <2>2. from[N + 1] = a /\ g[N + 1] = a
    BY <1>2, <1>5, <2>1
  <2> QED
    BY <2>1, <2>2
<1>7. ASSUME NEW u \in S PROVE u + 1 \in S
  <2> SUFFICES ASSUME u + 1 <= N PROVE from[N + 1 - (u + 1)] = g[N + 1 - (u + 1)]
    OBVIOUS
  <2> DEFINE k == N + 1 - (u + 1)
  <2>1. k \in D /\ ~(k > N) /\ k + 1 = N + 1 - u /\ u <= N
    BY <1>0
  <2>2. from[k + 1] = g[k + 1]
    BY <2>1
  <2> HIDE DEF g, N, D, k
  <2>3. from[k] = Patched(from[k + 1], hunks[k]) /\ g[k] = Patched(g[k + 1], hunks[k])
    BY <1>2, <1>5, <2>1
  <2> QED
    BY <2>2, <2>3 DEF k
<1>8. S = Nat
  <2>1. S \in SUBSET Nat
    OBVIOUS
  <2> HIDE DEF S
  <2> QED
    BY <1>6, <1>7, <2>1, AllNaturals
<1>9. from[1] = Mix(StartOf(1))
  <2>1. N \in Nat /\ N <= N /\ N + 1 - N = 1 /\ 1 \in D
    BY <1>0
  <2>2. from[N + 1 - N] = g[N + 1 - N]
    BY <1>8, <2>1
  <2> QED
    BY <2>1, <2>2
<1>10. Mix(1) = Mix(StartOf(1))
  <2> DEFINE t == StartOf(1)
  <2>1. 1 \in 1..(N + 1) /\ 1 \in 1..(Len(ops) + 1)
    BY <1>0
  <2>2. t \in 1..(Len(ops) + 1)
    BY <2>1, StartsAre
  <2>3. ASSUME NEW n \in 1..(t - 1) PROVE ops[n].kind = "equal"
    <3>1. 0 \in 0..Len(hunks) /\ n \in (IF 0 = 0 THEN 1 ELSE hunks[0][2] + 1)..(StartOf(0 + 1) - 1)
      BY <1>0
    <3>2. n \in 1..Len(ops) => ops[n].kind = "equal"
      BY <3>1, EqualBetween
    <3> HIDE DEF t
    <3>3. n \in 1..Len(ops)
      BY <1>0, <2>2
    <3> QED
      BY <3>2, <3>3
  <2> HIDE DEF t
  <2>4. t \in 1..(Len(ops) + 1) /\ t >= 1
    BY <1>0, <2>2
  <2>5. Mix(1) = Mix(t)
    BY <1>0, <2>1, <2>3, <2>4, MixOfRun
  <2> QED
    BY <2>5 DEF t
<1> QED
  BY <1>1, <1>3, <1>9, <1>10

LEMMA SidesAreAtTheirPlaces ==
  ASSUME PatchInv, NEW k \in DOMAIN hunks
  PROVE  LET hd == Header(hunks[k])
         IN  /\ hd.startA > 0 \/ hd.countA > 0 => OldSide(hunks[k]) = SubSeq(a, hd.startA, hd.startA + hd.countA - 1)
             /\ hd.startB > 0 \/ hd.countB > 0 => NewSide(hunks[k]) = SubSeq(b, hd.startB, hd.startB + hd.countB - 1)
<1> DEFINE s == hunks[k][1]
           e == hunks[k][2]
           old == OldSide(hunks[k])
           new == NewSide(hunks[k])
           hd == Header(hunks[k])
           p == PlacesA[s]
           u == PlacesA[e + 1]
           r == PlacesB[s]
           v == PlacesB[e + 1]
<1>0. /\ ScriptInv /\ Len(ops) \in Nat /\ a \in Seq(Line) /\ b \in Seq(Line)
      /\ Len(a) \in Nat /\ Len(b) \in Nat
  BY DEF PatchInv, GroupInv, ScriptInv, ScriptType
<1>1. s \in 1..Len(ops) /\ e \in s..Len(ops) /\ hunks[k] = << s, e >> /\ Fit(<< s, e >>)
  BY HunkOf
<1>2. /\ u - p \in Nat /\ old = [q \in 1..(u - p) |-> a[p + q - 1]]
      /\ v - r \in Nat /\ new = [q \in 1..(v - r) |-> b[r + q - 1]]
  <2> HIDE DEF s, e
  <2> QED
    BY <1>0, <1>1, SidesAre
<1>3. s \in 1..(Len(ops) + 1) /\ e + 1 \in 1..(Len(ops) + 1)
  <2> HIDE DEF s, e
  <2> QED
    BY <1>0, <1>1
<1>4. p \in 1..(Len(a) + 1) /\ r \in 1..(Len(b) + 1) /\ u \in 1..(Len(a) + 1) /\ v \in 1..(Len(b) + 1)
  <2> HIDE DEF s, e
  <2> QED
    BY <1>0, <1>3, PlacesAreIn
<1>5. ops[s].lineA = p /\ ops[s].lineB = r
  <2> HIDE DEF s
  <2> QED
    BY <1>0, <1>1, PlaceOfOp
<1>6. /\ hd.startA = (IF old = << >> THEN 0 ELSE p) /\ hd.countA = Len(old)
      /\ hd.startB = (IF new = << >> THEN 0 ELSE r) /\ hd.countB = Len(new)
  BY <1>5 DEF Header, Start
<1> HIDE DEF old, new, hd, p, u, r, v, s, e
<1>7. Len(old) = u - p /\ (old = << >> <=> u - p = 0) /\ Len(new) = v - r /\ (new = << >> <=> v - r = 0)
  BY <1>2
<1>8. ASSUME hd.startA > 0 \/ hd.countA > 0 PROVE old = SubSeq(a, hd.startA, hd.startA + hd.countA - 1)
  <2>1. u - p # 0
    BY <1>6, <1>7, <1>8
  <2>2. hd.startA = p /\ hd.startA + hd.countA - 1 = u - 1
    BY <1>4, <1>6, <1>7, <2>1
  <2>3. p \in 1..(Len(a) + 1) /\ u - 1 \in (p - 1)..Len(a) /\ (u - 1) - p + 1 = u - p
    BY <1>0, <1>2, <1>4
  <2>4. /\ SubSeq(a, p, u - 1) \in Seq(Line)
        /\ Len(SubSeq(a, p, u - 1)) = u - p
        /\ \A q \in 1..(u - p) : SubSeq(a, p, u - 1)[q] = a[p + q - 1]
    BY <1>0, <2>3, PartOf
  <2>5. SubSeq(a, p, u - 1) = [q \in 1..(u - p) |-> a[p + q - 1]]
    BY <1>2, <2>4, SMTT(30)
  <2> QED
    BY <1>2, <2>2, <2>5
<1>9. ASSUME hd.startB > 0 \/ hd.countB > 0 PROVE new = SubSeq(b, hd.startB, hd.startB + hd.countB - 1)
  <2>1. v - r # 0
    BY <1>6, <1>7, <1>9
  <2>2. hd.startB = r /\ hd.startB + hd.countB - 1 = v - 1
    BY <1>4, <1>6, <1>7, <2>1
  <2>3. r \in 1..(Len(b) + 1) /\ v - 1 \in (r - 1)..Len(b) /\ (v - 1) - r + 1 = v - r
    BY <1>0, <1>2, <1>4
  <2>4. /\ SubSeq(b, r, v - 1) \in Seq(Line)
        /\ Len(SubSeq(b, r, v - 1)) = v - r
        /\ \A q \in 1..(v - r) : SubSeq(b, r, v - 1)[q] = b[r + q - 1]
    BY <1>0, <2>3, PartOf
  <2>5. SubSeq(b, r, v - 1) = [q \in 1..(v - r) |-> b[r + q - 1]]
    BY <1>2, <2>4, SMTT(30)
  <2> QED
    BY <1>2, <2>2, <2>5
<1> QED
  BY <1>8, <1>9 DEF hd, old, new

(* HunksPatch for all texts and every context: whoever replaces in the     *)
(* text on the machine what the headers of a preview name by the new sides *)
(* of its hunks has the text that the preview is about, and every header   *)
(* names the lines that its hunk shows.                                    *)
THEOREM HunksAlwaysPatch == Spec => []HunksPatch
<1>1. PatchInv => HunksPatch
  BY PatchingGivesB, SidesAreAtTheirPlaces DEF HunksPatch
<1> QED
  BY InitPatch, NextPatch, <1>1, PTL DEF Spec
=============================================================================
