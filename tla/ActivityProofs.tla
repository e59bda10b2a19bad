--------------------------- MODULE ActivityProofs ---------------------------
(***************************************************************************)
(* Proofs about Activity, for any limit of the file, any number of events  *)
(* and any number of errors and crashes: the log stays bounded, and what   *)
(* the panel's timeline leaves out is old or spoiled by a torn write.      *)
(***************************************************************************)
EXTENDS Activity, FiniteSetTheorems, TLAPS

Lines == [events : SUBSET Nat, whole : BOOLEAN, ended : BOOLEAN]

(* Lines of the events up to `top`, oldest first, each of some event, and  *)
(* of one if it parses; only the last may lack its newline.                *)
Ordered(lines) ==
  \A i, k \in DOMAIN lines : i < k => \A d \in lines[i].events, e \in lines[k].events : d < e

Parses(lines) == \A i \in DOMAIN lines : lines[i].whole => \E e \in Nat : lines[i].events = {e}

Closed(lines) == \A i \in DOMAIN lines : i < Len(lines) => lines[i].ended

InOrder(lines, top) ==
  /\ lines \in Seq(Lines)
  /\ \A i \in DOMAIN lines : lines[i].events # {} /\ lines[i].events \subseteq 1..top
  /\ Ordered(lines)
  /\ Parses(lines)
  /\ Closed(lines)
-----------------------------------------------------------------------------
LEMMA EventsAre ==
  ASSUME NEW top \in Nat, NEW lines, InOrder(lines, top)
  PROVE  /\ Events(lines) \subseteq 1..top
         /\ IsFiniteSet(Events(lines))
         /\ Size(lines) \in Nat
         /\ Len(lines) \in Nat
<1>0. Len(lines) \in Nat
  BY DEF InOrder
<1>1. Events(lines) \subseteq 1..top
  BY DEF Events, InOrder
<1>2. IsFiniteSet(1..top)
  BY FS_Interval
<1>3. IsFiniteSet(Events(lines))
  BY <1>1, <1>2, FS_Subset
<1> QED
  BY <1>0, <1>1, <1>3, FS_CardinalityType DEF Size

LEMMA NoLines == ASSUME NEW top \in Nat PROVE InOrder(<< >>, top) /\ Events(<< >>) = {} /\ Size(<< >>) = 0 /\ ~IsOpen(<< >>)
<1>1. Events(<< >>) = {}
  BY DEF Events
<1> QED
  BY <1>1, FS_EmptySet DEF InOrder, Ordered, Parses, Closed, Size, IsOpen

LEMMA MoreEvents ==
  ASSUME NEW top \in Nat, NEW more \in Nat, top <= more, NEW lines, InOrder(lines, top)
  PROVE  InOrder(lines, more)
<1>1. \A i \in DOMAIN lines : lines[i].events \subseteq 1..more
  BY DEF InOrder
<1> QED
  BY <1>1 DEF InOrder

IsTorn(l) == ~l.ended

(* A write adds its event to the last line, if a newline is missing there, *)
(* or makes a line of it.                                                  *)
LEMMA AppendKeepsOrder ==
  ASSUME NEW top \in Nat, NEW lines, InOrder(lines, top),
         NEW piece \in Lines, piece.events = {top + 1}
  PROVE  /\ InOrder(AppendLine(lines, piece), top + 1)
         /\ Events(AppendLine(lines, piece)) = Events(lines) \cup {top + 1}
         /\ IsOpen(AppendLine(lines, piece)) <=> IsTorn(piece)
         /\ Len(AppendLine(lines, piece)) = Len(lines) + (IF IsOpen(lines) THEN 0 ELSE 1)
<1> DEFINE u == AppendLine(lines, piece)
<1> SUFFICES /\ InOrder(u, top + 1)
             /\ Events(u) = Events(lines) \cup {top + 1}
             /\ IsOpen(u) <=> IsTorn(piece)
             /\ Len(u) = Len(lines) + (IF IsOpen(lines) THEN 0 ELSE 1)
  OBVIOUS
<1>1. /\ lines \in Seq(Lines)
      /\ DOMAIN lines = 1..Len(lines)
      /\ Len(lines) \in Nat
      /\ \A i \in 1..Len(lines) : lines[i] \in Lines /\ lines[i].events # {} /\ lines[i].events \subseteq 1..top
  BY DEF InOrder
<1>2. piece \in Lines /\ piece.events = {top + 1} /\ piece.ended \in BOOLEAN
  BY DEF Lines
<1>3. CASE IsOpen(lines)
  <2> DEFINE n == Len(lines)
             l == Line(lines[n].events \cup {top + 1}, FALSE, piece.ended)
  <2>1. n \in 1..n /\ n \in Nat
    BY <1>1, <1>3 DEF IsOpen
  <2>2. l \in Lines /\ l.events = lines[n].events \cup {top + 1} /\ l.whole = FALSE /\ l.ended = piece.ended
    <3>1. lines[n].events \in SUBSET Nat
      BY <1>1, <2>1
    <3> QED
      BY <3>1, <1>2 DEF Line, Lines
  <2>3. u = [lines EXCEPT ![n] = l]
    BY <1>2, <1>3 DEF AppendLine
  <2> HIDE DEF l
  <2>4. /\ u \in Seq(Lines) /\ Len(u) = n /\ DOMAIN u = 1..n
        /\ u[n] = l
        /\ \A i \in 1..n : i # n => u[i] = lines[i]
    BY <1>1, <2>1, <2>2, <2>3
  <2> HIDE DEF u, n
  <2>5. \A i \in 1..n : u[i].events = lines[i].events \/ (i = n /\ u[i].events = lines[i].events \cup {top + 1})
    BY <2>1, <2>2, <2>4
  <2>6. \A i \in 1..n : u[i].events # {} /\ u[i].events \subseteq 1..(top + 1)
    <3> SUFFICES ASSUME NEW i \in 1..n
                 PROVE  u[i].events # {} /\ u[i].events \subseteq 1..(top + 1)
      OBVIOUS
    <3>1. lines[i].events # {} /\ lines[i].events \subseteq 1..top
      BY <1>1 DEF n
    <3>2. 1..top \subseteq 1..(top + 1) /\ {top + 1} \subseteq 1..(top + 1)
      OBVIOUS
    <3> QED
      BY <3>1, <3>2, <2>5, Zenon
  <2>7. Ordered(u)
    <3> SUFFICES ASSUME NEW i \in 1..n, NEW k \in 1..n, i < k, NEW d \in u[i].events, NEW e \in u[k].events
                 PROVE  d < e
      BY <2>4 DEF Ordered
    <3>1. d \in lines[i].events /\ d \in 1..top
      <4>1. i # n
        BY <2>1
      <4>2. u[i] = lines[i]
        BY <4>1, <2>4
      <4>3. lines[i].events \subseteq 1..top
        BY <1>1 DEF n
      <4> QED
        BY <4>2, <4>3
    <3>2. e \in lines[k].events \/ e = top + 1
      BY <2>5
    <3>3. e \in lines[k].events => d < e
      BY <3>1, <1>1 DEF InOrder, Ordered, n
    <3> QED
      BY <3>1, <3>2, <3>3
  <2>8. Parses(u)
    <3> SUFFICES ASSUME NEW i \in 1..n, u[i].whole
                 PROVE  \E e \in Nat : u[i].events = {e}
      BY <2>4 DEF Parses
    <3>1. CASE i = n
      BY <3>1, <2>2, <2>4
    <3>2. CASE i # n
      <4>1. u[i] = lines[i]
        BY <3>2, <2>4
      <4> QED
        BY <4>1, <1>1 DEF InOrder, Parses, n
    <3> QED
      BY <3>1, <3>2
  <2>9. Closed(u)
    <3> SUFFICES ASSUME NEW i \in 1..n, i < n
                 PROVE  u[i].ended
      BY <2>4 DEF Closed
    <3>1. u[i] = lines[i]
      BY <2>4, <2>1
    <3> QED
      BY <3>1, <1>1 DEF InOrder, Closed, n
  <2>10. Events(u) = Events(lines) \cup {top + 1}
    <3>1. \A i \in 1..n : u[i].events \subseteq lines[i].events \cup {top + 1}
      BY <2>5
    <3>2. \A i \in 1..n : lines[i].events \subseteq u[i].events
      BY <2>5
    <3>3. top + 1 \in u[n].events
      BY <2>2, <2>4
    <3>4. DOMAIN lines = 1..n /\ DOMAIN u = 1..n
      BY <1>1, <2>4 DEF n
    <3>5. ASSUME NEW x PROVE x \in Events(u) <=> x \in Events(lines) \cup {top + 1}
      BY <2>1, <3>1, <3>2, <3>3, <3>4 DEF Events
    <3> QED
      BY <3>5
  <2>11. IsOpen(u) <=> IsTorn(piece)
    <3>1. u # << >> /\ Last(u) = l
      BY <2>1, <2>4 DEF Last
    <3> QED
      BY <3>1, <2>2, Zenon DEF IsOpen, IsTorn
  <2>12. InOrder(u, top + 1)
    BY <2>4, <2>6, <2>7, <2>8, <2>9 DEF InOrder
  <2>13. Len(u) = Len(lines) + (IF IsOpen(lines) THEN 0 ELSE 1)
    <3> DEFINE more == IF IsOpen(lines) THEN 0 ELSE 1
    <3>1. more = 0
      BY <1>3, Zenon
    <3> HIDE DEF more
    <3>2. Len(u) = Len(lines) /\ Len(lines) \in Nat
      BY <1>1, <2>4, Zenon DEF n
    <3>3. Len(u) = Len(lines) + more
      BY <3>1, <3>2
    <3> QED
      BY <3>3 DEF more
  <2> QED
    BY <2>10, <2>11, <2>12, <2>13, Zenon
<1>4. CASE ~IsOpen(lines)
  <2> DEFINE n == Len(lines)
  <2>1. u = Append(lines, piece)
    BY <1>4 DEF AppendLine
  <2>2. /\ u \in Seq(Lines) /\ Len(u) = n + 1 /\ DOMAIN u = 1..(n + 1)
        /\ u[n + 1] = piece
        /\ \A i \in 1..n : u[i] = lines[i]
    BY <1>1, <1>2, <2>1
  <2>3. n \in Nat
    BY <1>1
  <2> HIDE DEF u
  <2>4. \A i \in 1..(n + 1) : u[i].events # {} /\ u[i].events \subseteq 1..(top + 1)
    <3>1. \A i \in 1..n : u[i].events # {} /\ u[i].events \subseteq 1..(top + 1)
      BY <1>1, <2>2
    <3>2. {top + 1} # {} /\ {top + 1} \subseteq 1..(top + 1)
      OBVIOUS
    <3>3. u[n + 1].events # {} /\ u[n + 1].events \subseteq 1..(top + 1)
      BY <3>2, <1>2, <2>2, Zenon
    <3> QED
      BY <3>1, <3>3, <2>3
  <2>5. Ordered(u)
    <3> SUFFICES ASSUME NEW i \in 1..(n + 1), NEW k \in 1..(n + 1), i < k, NEW d \in u[i].events, NEW e \in u[k].events
                 PROVE  d < e
      BY <2>2 DEF Ordered
    <3>1. i \in 1..n
      BY <2>3
    <3>2. d \in lines[i].events /\ d \in 1..top
      BY <3>1, <2>2, <1>1
    <3>3. CASE k = n + 1
      BY <3>2, <3>3, <1>2, <2>2
    <3>4. CASE k \in 1..n
      BY <3>1, <3>2, <3>4, <2>2, <1>1 DEF InOrder, Ordered
    <3> QED
      BY <3>3, <3>4, <2>3
  <2>6. Parses(u)
    <3> SUFFICES ASSUME NEW i \in 1..(n + 1), u[i].whole
                 PROVE  \E e \in Nat : u[i].events = {e}
      BY <2>2 DEF Parses
    <3>1. CASE i = n + 1
      BY <3>1, <1>2, <2>2
    <3>2. CASE i \in 1..n
      <4>1. u[i] = lines[i]
        BY <3>2, <2>2
      <4> QED
        BY <4>1, <3>2, <1>1 DEF InOrder, Parses
    <3> QED
      BY <3>1, <3>2, <2>3
  <2>7. Closed(u)
    <3> SUFFICES ASSUME NEW i \in 1..(n + 1), i < n + 1
                 PROVE  u[i].ended
      BY <2>2 DEF Closed
    <3>1. i \in 1..n /\ u[i] = lines[i]
      BY <2>2, <2>3
    <3>2. CASE i < n
      BY <3>1, <3>2, <1>1 DEF InOrder, Closed
    <3>3. CASE i = n
      <4>1. lines # << >> /\ Last(lines) = lines[i]
        BY <3>1, <3>3, <1>1 DEF Last
      <4> QED
        BY <4>1, <3>1, <1>4, Zenon DEF IsOpen
    <3> QED
      BY <3>1, <3>2, <3>3
  <2>8. Events(u) = Events(lines) \cup {top + 1}
    BY <1>1, <1>2, <2>2, <2>3 DEF Events
  <2>9. IsOpen(u) <=> IsTorn(piece)
    <3>1. u # << >> /\ Last(u) = piece
      BY <2>2, <2>3 DEF Last
    <3> QED
      BY <3>1, <1>2, Zenon DEF IsOpen, IsTorn
  <2>10. InOrder(u, top + 1)
    BY <2>2, <2>4, <2>5, <2>6, <2>7 DEF InOrder
  <2>11. Len(u) = Len(lines) + (IF IsOpen(lines) THEN 0 ELSE 1)
    BY <1>4, <2>2, <2>3
  <2> QED
    BY <2>8, <2>9, <2>10, <2>11, Zenon
<1> QED
  BY <1>3, <1>4
-----------------------------------------------------------------------------
(* As many lines, as many events at least.                                 *)
LEMMA AsManyEvents ==
  ASSUME NEW top \in Nat, NEW lines, InOrder(lines, top), NEW h \in 0..Len(lines)
  PROVE  /\ IsFiniteSet(UNION {lines[i].events : i \in 1..h})
         /\ h <= Cardinality(UNION {lines[i].events : i \in 1..h})
<1> DEFINE E == UNION {lines[i].events : i \in 1..h}
           g == [i \in 1..h |-> CHOOSE e \in lines[i].events : TRUE]
<1>1. /\ Len(lines) \in Nat /\ DOMAIN lines = 1..Len(lines)
      /\ \A i \in 1..h : i \in DOMAIN lines /\ lines[i].events # {} /\ lines[i].events \subseteq 1..top
  BY DEF InOrder
<1>2. \A i \in 1..h : g[i] \in lines[i].events
  BY <1>1
<1>3. g \in [1..h -> E]
  BY <1>2
<1>4. IsInjective(g)
  <2> SUFFICES ASSUME NEW i \in 1..h, NEW k \in 1..h, i # k
               PROVE  g[i] # g[k]
    BY DEF IsInjective
  <2>1. /\ g[i] \in lines[i].events /\ g[k] \in lines[k].events
        /\ i \in DOMAIN lines /\ k \in DOMAIN lines
        /\ g[i] \in 1..top /\ g[k] \in 1..top
    BY <1>1, <1>2
  <2> HIDE DEF g
  <2>2. i < k => g[i] < g[k]
    BY <2>1 DEF InOrder, Ordered
  <2>3. k < i => g[k] < g[i]
    BY <2>1 DEF InOrder, Ordered
  <2> QED
    BY <2>1, <2>2, <2>3
<1>5. E \subseteq 1..top
  BY <1>1
<1>6. IsFiniteSet(E)
  <2>1. IsFiniteSet(1..top)
    BY FS_Interval
  <2> HIDE DEF E
  <2> QED
    BY <1>5, <2>1, FS_Subset
<1> HIDE DEF g, E
<1>7. g \in Injection(1..h, E)
  BY <1>3, <1>4 DEF Injection
<1>8. Cardinality(1..h) <= Cardinality(E)
  BY <1>6, <1>7, FS_Injection
<1>9. Cardinality(1..h) = h
  BY <1>1, FS_Interval
<1> QED
  BY <1>6, <1>8, <1>9 DEF E

(* Compaction keeps the newer lines; each line that it drops has an event. *)
LEMMA KeptIsNewer ==
  ASSUME NEW top \in Nat, InOrder(file, top), Len(file) >= 2
  PROVE  /\ InOrder(Kept, top)
         /\ Len(Kept) = Len(file) - Len(file) \div 2
         /\ ~IsOpen(Kept)
         /\ Events(Kept) \subseteq Events(file)
         /\ \A e \in Events(file) \ Events(Kept), x \in Events(Kept) : e < x
         /\ Size(Kept) + Len(file) \div 2 <= Size(file)
<1> DEFINE n == Len(file)
           h == Len(file) \div 2
           u == Kept
<1>1. /\ n \in Nat /\ h \in 1..(n - 1) /\ n - h \in 1..n
      /\ DOMAIN file = 1..n
      /\ \A i \in 1..n : file[i] \in Lines /\ file[i].events # {} /\ file[i].events \subseteq 1..top
  BY DEF InOrder
<1>2. u = [i \in 1..(n - h) |-> [file[h + i] EXCEPT !.ended = TRUE]]
  BY DEF Kept
<1> SUFFICES /\ InOrder(u, top)
             /\ Len(u) = n - h
             /\ ~IsOpen(u)
             /\ Events(u) \subseteq Events(file)
             /\ \A e \in Events(file) \ Events(u), x \in Events(u) : e < x
             /\ Size(u) + h <= Size(file)
  OBVIOUS
<1> HIDE DEF u, h
<1>3. \A i \in 1..(n - h) : h + i \in 1..n
  BY <1>1
<1>4. \A i \in 1..(n - h) : /\ u[i] \in Lines
                            /\ u[i].events = file[h + i].events
                            /\ u[i].whole = file[h + i].whole
                            /\ u[i].ended = TRUE
  BY <1>1, <1>2, <1>3 DEF Lines
<1>5. DOMAIN u = 1..(n - h) /\ Len(u) = n - h /\ u \in Seq(Lines)
  <2>1. u = [i \in 1..(n - h) |-> u[i]]
    BY <1>2
  <2>2. u \in Seq(Lines)
    BY <2>1, <1>1, <1>4, SMTT(30)
  <2> QED
    BY <2>1, <2>2, <1>1
<1>6. Ordered(u)
  <2> SUFFICES ASSUME NEW i \in 1..(n - h), NEW k \in 1..(n - h), i < k, NEW d \in u[i].events, NEW e \in u[k].events
               PROVE  d < e
    BY <1>5 DEF Ordered
  <2>1. /\ d \in file[h + i].events /\ e \in file[h + k].events
        /\ h + i \in DOMAIN file /\ h + k \in DOMAIN file /\ h + i < h + k
    BY <1>1, <1>3, <1>4, SMTT(30)
  <2> QED
    BY <2>1 DEF InOrder, Ordered
<1>7. Parses(u)
  <2> SUFFICES ASSUME NEW i \in 1..(n - h), u[i].whole
               PROVE  \E e \in Nat : u[i].events = {e}
    BY <1>5 DEF Parses
  <2>1. h + i \in DOMAIN file /\ file[h + i].whole /\ u[i].events = file[h + i].events
    BY <1>1, <1>3, <1>4
  <2> QED
    BY <2>1 DEF InOrder, Parses
<1>8. Closed(u) /\ ~IsOpen(u)
  <2>1. u # << >> /\ Last(u).ended = TRUE
    BY <1>1, <1>4, <1>5 DEF Last
  <2>2. ~IsOpen(u)
    BY <2>1, Zenon DEF IsOpen
  <2> QED
    BY <2>2, <1>4, <1>5 DEF Closed
<1>9. InOrder(u, top)
  <2>1. \A i \in DOMAIN u : u[i].events # {} /\ u[i].events \subseteq 1..top
    BY <1>1, <1>3, <1>4, <1>5
  <2> QED
    BY <2>1, <1>5, <1>6, <1>7, <1>8 DEF InOrder
<1> DEFINE D == UNION {file[i].events : i \in 1..h}
<1>10. /\ \A i \in 1..n : i \in 1..h \/ i - h \in 1..(n - h)
       /\ 1..h \subseteq 1..n
  BY <1>1
<1>11. Events(u) \subseteq Events(file)
  <2> SUFFICES ASSUME NEW i \in 1..(n - h), NEW e \in u[i].events
               PROVE  e \in Events(file)
    BY <1>5 DEF Events
  <2>1. h + i \in DOMAIN file /\ e \in file[h + i].events
    BY <1>1, <1>3, <1>4
  <2> QED
    BY <2>1 DEF Events
<1>12. \A e \in D, x \in Events(u) : e < x
  <2> SUFFICES ASSUME NEW i \in 1..h, NEW k \in 1..(n - h), NEW e \in file[i].events, NEW x \in file[h + k].events
               PROVE  e < x
    BY <1>4, <1>5 DEF Events
  <2>1. i \in DOMAIN file /\ h + k \in DOMAIN file /\ i < h + k
    BY <1>1, <1>3
  <2> QED
    BY <2>1 DEF InOrder, Ordered
<1>13. Events(file) = D \cup Events(u)
  <2>1. ASSUME NEW e \in Events(file) PROVE e \in D \cup Events(u)
    <3>1. PICK i \in 1..n : e \in file[i].events
      BY <1>1 DEF Events
    <3>2. CASE i \in 1..h
      BY <3>1, <3>2
    <3>3. CASE i - h \in 1..(n - h)
      <4>1. h + (i - h) = i
        BY <1>1
      <4>2. e \in u[i - h].events
        BY <3>1, <3>3, <4>1, <1>4
      <4> QED
        BY <3>3, <4>2, <1>5 DEF Events
    <3> QED
      BY <3>2, <3>3, <1>10
  <2>2. D \subseteq Events(file)
    BY <1>1, <1>10 DEF Events
  <2> QED
    BY <2>1, <2>2, <1>11
<1>14. D \cap Events(u) = {}
  <2>1. Events(u) \subseteq 1..top
    BY <1>9, EventsAre
  <2> HIDE DEF D
  <2>2. ASSUME NEW e \in D, e \in Events(u) PROVE FALSE
    <3>1. e < e /\ e \in 1..top
      BY <2>1, <2>2, <1>12
    <3> QED
      BY <3>1
  <2> QED
    BY <2>2
<1>15. IsFiniteSet(D) /\ h <= Cardinality(D)
  <2>1. h \in 0..Len(file)
    BY <1>1
  <2> QED
    BY <2>1, AsManyEvents, Zenon
<1> HIDE DEF D
<1>16. Size(u) + h <= Size(file)
  <2>1. IsFiniteSet(Events(u)) /\ Size(u) \in Nat
    BY <1>9, EventsAre
  <2>2. Cardinality(Events(file)) = Cardinality(D) + Cardinality(Events(u)) - Cardinality({})
    BY <2>1, <1>13, <1>14, <1>15, FS_Union
  <2>3. Cardinality({}) = 0 /\ Cardinality(D) \in Nat
    BY <1>15, FS_EmptySet, FS_CardinalityType
  <2> QED
    BY <2>1, <2>2, <2>3, <1>1, <1>15 DEF Size
<1>17. \A e \in Events(file) \ Events(u), x \in Events(u) : e < x
  BY <1>12, <1>13
<1> QED
  BY <1>5, <1>8, <1>9, <1>11, <1>16, <1>17
-----------------------------------------------------------------------------
(* The events that have been written, or should have been.                 *)
Written == IF step = "idle" THEN count ELSE count - 1

LogType ==
  /\ count \in Nat
  /\ faults \in Nat
  /\ step \in {"idle", "compact", "rename", "write"}
  /\ step # "idle" => count > 0
  /\ returned \subseteq 1..Written
  /\ InOrder(file, Written)
  /\ InOrder(tmp, Written)

(* Only a torn write puts two events into one line, and its fault has been *)
(* counted before the next event comes.                                    *)
LinesAreEvents == Size(file) + (IF IsOpen(file) THEN 1 ELSE 0) <= Len(file) + faults

SizeIsBounded == Size(file) <= MaxBytes + faults + (IF step = "write" THEN 0 ELSE 1)

CompactsTheLarge == step \in {"compact", "rename"} => MaxBytes < Size(file)

CopyIsKept == step = "rename" => Len(file) >= 2 /\ tmp = Kept

MissingAreOld ==
  \A e \in returned \ Events(file) : Surviving <= Len(file) /\ \A x \in Events(file) : e < x

LogInv ==
  /\ LogType
  /\ LinesAreEvents
  /\ SizeIsBounded
  /\ CompactsTheLarge
  /\ CopyIsKept
  /\ MissingAreOld
-----------------------------------------------------------------------------
LEMMA SurvivingIs ==
  ASSUME faults \in Nat
  PROVE  /\ Surviving \in Nat
         /\ Surviving <= (IF MaxBytes + 1 - faults < 2 THEN 0 ELSE (MaxBytes + 2 - faults) \div 2)
         /\ \A n \in Nat : n >= MaxBytes + 1 - faults => Surviving <= n /\ Surviving <= n - n \div 2
         /\ MaxBytes + 1 - faults < 2 => Surviving = 0
BY SizeAssumption DEF Surviving

LEMMA SurvivingShrinks ==
  ASSUME faults \in Nat, faults' \in Nat, faults <= faults'
  PROVE  Surviving \in Nat /\ Surviving' \in Nat /\ Surviving' <= Surviving
<1>1. ASSUME NEW x \in Nat, NEW y \in Nat, x <= y
      PROVE  x \div 2 \in Nat /\ y \div 2 \in Nat /\ x \div 2 <= y \div 2
  <2>1. /\ 2 * (x \div 2) <= x /\ x <= 2 * (x \div 2) + 1 /\ x \div 2 \in Nat
        /\ 2 * (y \div 2) <= y /\ y <= 2 * (y \div 2) + 1 /\ y \div 2 \in Nat
    OBVIOUS
  <2> QED
    BY <2>1, <1>1
<1> DEFINE l == MaxBytes + 1 - faults
           m == MaxBytes + 1 - faults'
<1>2. /\ Surviving = (IF l < 2 THEN 0 ELSE (l + 1) \div 2)
      /\ Surviving' = (IF m < 2 THEN 0 ELSE (m + 1) \div 2)
  BY DEF Surviving
<1>3. l \in Int /\ m \in Int /\ m <= l
  <2>1. MaxBytes \in Int /\ faults \in Int /\ faults' \in Int /\ faults <= faults'
    BY SizeAssumption
  <2>2. \A x, y, z \in Int : x <= y => z + 1 - x \in Int /\ z + 1 - y \in Int /\ z + 1 - y <= z + 1 - x
    OBVIOUS
  <2> QED
    BY <2>1, <2>2, Zenon
<1> HIDE DEF l, m
<1>4. CASE m < 2
  <2>1. l >= 2 => l + 1 \in Nat /\ (l + 1) \div 2 \in Nat
    BY <1>3
  <2> QED
    BY <2>1, <1>2, <1>3, <1>4
<1>5. CASE ~(m < 2)
  <2>1. m + 1 \in Nat /\ l + 1 \in Nat /\ m + 1 <= l + 1
    BY <1>3, <1>5
  <2>2. (m + 1) \div 2 \in Nat /\ (l + 1) \div 2 \in Nat /\ (m + 1) \div 2 <= (l + 1) \div 2
    BY <2>1, <1>1
  <2> QED
    BY <2>2, <1>2, <1>3, <1>5
<1> QED
  BY <1>4, <1>5

LEMMA InitLog == Init => LogInv
<1> SUFFICES ASSUME Init PROVE LogInv
  OBVIOUS
<1>1. /\ InOrder(<< >>, 0) /\ Events(<< >>) = {} /\ Size(<< >>) = 0 /\ ~IsOpen(<< >>)
  BY NoLines
<1> QED
  BY <1>1, SizeAssumption
  DEF Init, LogInv, LogType, Written, LinesAreEvents, SizeIsBounded, CompactsTheLarge, CopyIsKept, MissingAreOld

(* The end of an append that has left bytes of its event in the file.      *)
LEMMA WrittenKeeps ==
  ASSUME LogInv, step = "write", step' = "idle", count' = count,
         faults' \in Nat, faults <= faults',
         NEW piece \in Lines, piece.events = {count},
         IsTorn(piece) => faults < faults',
         file' = AppendLine(file, piece),
         returned' \subseteq returned \cup {count},
         tmp' = tmp
  PROVE  LogInv'
<1> DEFINE top == count - 1
           u   == AppendLine(file, piece)
<1>1. /\ count \in Nat /\ count > 0 /\ top \in Nat /\ top + 1 = count
      /\ faults \in Nat
      /\ Written = top /\ Written' = count
      /\ InOrder(file, top) /\ InOrder(tmp, top)
      /\ returned \subseteq 1..top
  BY DEF LogInv, LogType, Written
<1>2. /\ InOrder(u, count)
      /\ Events(u) = Events(file) \cup {count}
      /\ IsOpen(u) <=> IsTorn(piece)
      /\ Len(u) = Len(file) + (IF IsOpen(file) THEN 0 ELSE 1)
  <2>1. piece.events = {top + 1}
    BY <1>1
  <2> HIDE DEF top
  <2>2. /\ InOrder(u, top + 1)
        /\ Events(u) = Events(file) \cup {top + 1}
        /\ IsOpen(u) <=> IsTorn(piece)
        /\ Len(u) = Len(file) + (IF IsOpen(file) THEN 0 ELSE 1)
    BY <1>1, <2>1, AppendKeepsOrder
  <2> QED
    BY <2>2, <1>1
<1>3. InOrder(tmp, count)
  BY <1>1, MoreEvents
<1>4. Events(file) \subseteq 1..top /\ IsFiniteSet(Events(file)) /\ Size(file) \in Nat /\ Len(file) \in Nat
  <2> HIDE DEF top
  <2> QED
    BY <1>1, EventsAre
<1>5. Size(u) = Size(file) + 1
  <2>1. count \notin Events(file)
    BY <1>1, <1>4
  <2> QED
    BY <2>1, <1>2, <1>4, FS_AddElement, ZenonT(30) DEF Size
<1> HIDE DEF u
<1>6. file' = u
  BY DEF u
<1>7. LogType'
  BY <1>1, <1>2, <1>3, <1>6 DEF LogType
<1>8. LinesAreEvents'
  <2>1. Size(file) + (IF IsOpen(file) THEN 1 ELSE 0) <= Len(file) + faults
    BY DEF LogInv, LinesAreEvents
  <2>2. Size(u) + (IF IsTorn(piece) THEN 1 ELSE 0) <= Len(u) + faults'
    BY <2>1, <1>1, <1>2, <1>4, <1>5
  <2>3. (IF IsOpen(u) THEN 1 ELSE 0) = (IF IsTorn(piece) THEN 1 ELSE 0)
    BY <1>2, Zenon
  <2> QED
    BY <2>2, <2>3, <1>6 DEF LinesAreEvents
<1>9. SizeIsBounded'
  BY <1>1, <1>4, <1>5, <1>6, SizeAssumption, SMTT(30) DEF LogInv, SizeIsBounded
<1>10. MissingAreOld'
  <2> SUFFICES ASSUME NEW e \in returned', e \notin Events(u)
               PROVE  Surviving' <= Len(u) /\ \A x \in Events(u) : e < x
    BY <1>6 DEF MissingAreOld
  <2>1. e \in returned \ Events(file) /\ e \in 1..top
    BY <1>1, <1>2
  <2>2. Surviving <= Len(file) /\ \A x \in Events(file) : e < x
    BY <2>1 DEF LogInv, MissingAreOld
  <2>3. e < count
    BY <2>1, <1>1
  <2>4. Surviving' <= Surviving /\ Surviving \in Nat /\ Surviving' \in Nat
    BY <1>1, SurvivingShrinks
  <2> QED
    BY <2>2, <2>3, <2>4, <1>2, <1>4
<1> QED
  BY <1>7, <1>8, <1>9, <1>10 DEF LogInv, CompactsTheLarge, CopyIsKept

(* A fault that leaves the file as it is.                                  *)
LEMMA FaultKeeps ==
  ASSUME LogInv, step # "idle", step' \in {"idle", "write"},
         step = "write" => step' = "idle",
         count' = count, faults' = faults + 1,
         file' = file, returned' = returned,
         InOrder(tmp', count - 1)
  PROVE  LogInv'
<1> DEFINE top == count - 1
<1>1. /\ count \in Nat /\ count > 0 /\ top \in Nat /\ top <= count
      /\ faults \in Nat
      /\ Written = top /\ Written' \in {top, count}
      /\ InOrder(file, top)
      /\ returned \subseteq 1..top
  BY DEF LogInv, LogType, Written
<1>2. InOrder(file, Written') /\ InOrder(tmp', Written')
  BY <1>1, MoreEvents
<1>3. Size(file) \in Nat /\ Len(file) \in Nat
  <2> HIDE DEF top
  <2> QED
    BY <1>1, EventsAre
<1>4. LogType'
  BY <1>1, <1>2 DEF LogType
<1>5. LinesAreEvents'
  BY <1>1, <1>3 DEF LogInv, LinesAreEvents
<1>6. SizeIsBounded'
  BY <1>1, <1>3, SizeAssumption DEF LogInv, SizeIsBounded
<1>7. MissingAreOld'
  <2>1. Surviving' <= Surviving /\ Surviving \in Nat /\ Surviving' \in Nat
    BY <1>1, SurvivingShrinks
  <2> QED
    BY <2>1, <1>3 DEF LogInv, MissingAreOld
<1> QED
  BY <1>4, <1>5, <1>6, <1>7 DEF LogInv, CompactsTheLarge, CopyIsKept

(* The ends of a compaction: the file is emptied or replaced by its newer  *)
(* half, and what it loses is older than what it keeps.                    *)
LEMMA CompactedKeeps ==
  ASSUME LogInv, step \in {"compact", "rename"}, step' = "write",
         UNCHANGED << count, returned, faults >>,
         \/ Len(file) < 2 /\ file' = << >> /\ tmp' = tmp
         \/ Len(file) >= 2 /\ file' = Kept /\ tmp' = << >>
  PROVE  LogInv'
<1> DEFINE top == count - 1
<1>1. /\ count \in Nat /\ count > 0 /\ top \in Nat
      /\ faults \in Nat
      /\ Written = top /\ Written' = top
      /\ InOrder(file, top) /\ InOrder(tmp, top)
      /\ returned \subseteq 1..top
  BY DEF LogInv, LogType, Written
<1> HIDE DEF top
<1>2. Size(file) \in Nat /\ Len(file) \in Nat /\ Events(file) \subseteq 1..top
  BY <1>1, EventsAre
<1>3. /\ Size(file) <= Len(file) + faults
      /\ Size(file) <= MaxBytes + faults + 1
      /\ MaxBytes < Size(file)
  BY <1>1, <1>2, SizeAssumption DEF LogInv, LinesAreEvents, SizeIsBounded, CompactsTheLarge
<1>4. Len(file) >= MaxBytes + 1 - faults
  BY <1>1, <1>2, <1>3, SizeAssumption
<1>5. InOrder(<< >>, top) /\ Events(<< >>) = {} /\ Size(<< >>) = 0 /\ ~IsOpen(<< >>)
  BY <1>1, NoLines
<1>6. Surviving' = Surviving
  BY DEF Surviving
<1>7. CASE Len(file) < 2 /\ file' = << >> /\ tmp' = tmp
  <2>1. LogType'
    BY <1>1, <1>5, <1>7 DEF LogType
  <2>2. LinesAreEvents' /\ SizeIsBounded'
    BY <1>1, <1>5, <1>7, SizeAssumption DEF LinesAreEvents, SizeIsBounded
  <2>3. Surviving = 0
    BY <1>1, <1>2, <1>4, <1>7, SurvivingIs, SizeAssumption
  <2>4. MissingAreOld'
    BY <1>5, <1>6, <1>7, <2>3 DEF MissingAreOld
  <2> QED
    BY <2>1, <2>2, <2>4 DEF LogInv, CompactsTheLarge, CopyIsKept
<1>8. CASE Len(file) >= 2 /\ file' = Kept /\ tmp' = << >>
  <2> DEFINE u == Kept
  <2>1. /\ InOrder(u, top)
        /\ Len(u) = Len(file) - Len(file) \div 2
        /\ ~IsOpen(u)
        /\ Events(u) \subseteq Events(file)
        /\ \A e \in Events(file) \ Events(u), x \in Events(u) : e < x
        /\ Size(u) + Len(file) \div 2 <= Size(file)
    BY <1>1, <1>8, KeptIsNewer
  <2>2. file' = u
    BY <1>8
  <2> HIDE DEF u
  <2>3. Size(u) \in Nat /\ Len(u) \in Nat
    BY <1>1, <2>1, EventsAre
  <2>4. Len(file) \div 2 \in Nat /\ Len(file) \div 2 >= 1
    BY <1>2, <1>8
  <2>5. LogType'
    BY <1>1, <1>5, <1>8, <2>1, <2>2 DEF LogType
  <2>6. LinesAreEvents'
    <3>1. Size(u) <= Len(u) + faults
      BY <1>1, <1>2, <1>3, <2>1, <2>3, <2>4
    <3>2. Size(u) + (IF IsOpen(u) THEN 1 ELSE 0) <= Len(u) + faults
      BY <3>1, <2>1, <2>3
    <3> QED
      BY <3>2, <2>2 DEF LinesAreEvents
  <2>7. SizeIsBounded'
    BY <1>1, <1>2, <1>3, <2>1, <2>2, <2>3, <2>4, SizeAssumption DEF SizeIsBounded
  <2>8. MissingAreOld'
    <3> SUFFICES ASSUME NEW e \in returned, e \notin Events(u)
                 PROVE  Surviving <= Len(u) /\ \A x \in Events(u) : e < x
      BY <1>6, <2>2 DEF MissingAreOld
    <3>1. Surviving <= Len(u)
      BY <1>1, <1>2, <1>4, <2>1, SurvivingIs
    <3>2. CASE e \in Events(file)
      BY <3>1, <3>2, <2>1
    <3>3. CASE e \notin Events(file)
      <4>1. \A x \in Events(file) : e < x
        BY <3>3 DEF LogInv, MissingAreOld
      <4> QED
        BY <3>1, <4>1, <2>1
    <3> QED
      BY <3>2, <3>3
  <2> QED
    BY <2>5, <2>6, <2>7, <2>8 DEF LogInv, CompactsTheLarge, CopyIsKept
<1> QED
  BY <1>7, <1>8

LEMMA PiecesAre ==
  ASSUME count \in Nat
  PROVE  /\ \A piece \in Torn(count) \cup {Whole(count)} : piece \in Lines /\ piece.events = {count}
         /\ ~IsTorn(Whole(count))
<1>1. {count} \in SUBSET Nat
  OBVIOUS
<1>2. ASSUME NEW whole \in BOOLEAN, NEW ended \in BOOLEAN
      PROVE  Line({count}, whole, ended) \in Lines /\ Line({count}, whole, ended).events = {count}
  BY <1>1 DEF Line, Lines
<1>3. Whole(count).ended = TRUE
  BY DEF Whole, Line
<1>4. ~IsTorn(Whole(count))
  BY <1>3, Zenon DEF IsTorn
<1>5. ASSUME NEW piece \in Torn(count) \cup {Whole(count)}
      PROVE  piece \in Lines /\ piece.events = {count}
  <2>1. PICK whole \in BOOLEAN, ended \in BOOLEAN : piece = Line({count}, whole, ended)
    BY <1>5, Zenon DEF Torn, Whole
  <2> QED
    BY <1>2, <2>1
<1> QED
  BY <1>4, <1>5

LEMMA NextLog == LogInv /\ [Next]_vars => LogInv'
<1> SUFFICES ASSUME LogInv, [Next]_vars PROVE LogInv'
  OBVIOUS
<1>1. CASE Begin
  <2>1. /\ count \in Nat /\ Written = count /\ Written' = count /\ count' = count + 1
        /\ step = "idle" /\ step' \in {"compact", "write"}
        /\ UNCHANGED << file, tmp, returned, faults >>
    BY <1>1 DEF Begin, Written, LogInv, LogType
  <2>2. step' = "compact" <=> MaxBytes < Size(file)
    <3>1. Size(file) \in Nat
      BY <2>1, EventsAre DEF LogInv, LogType
    <3> QED
      BY <1>1, <3>1, SizeAssumption DEF Begin
  <2>3. LogType'
    BY <2>1 DEF LogInv, LogType
  <2>4. SizeIsBounded'
    <3>1. Size(file) \in Nat /\ faults \in Nat
      BY <2>1, EventsAre DEF LogInv, LogType
    <3> QED
      BY <2>1, <2>2, <3>1, SizeAssumption DEF LogInv, SizeIsBounded
  <2>5. MissingAreOld' /\ LinesAreEvents'
    BY <2>1 DEF LogInv, MissingAreOld, LinesAreEvents, Surviving
  <2> QED
    BY <2>1, <2>2, <2>3, <2>4, <2>5 DEF LogInv, CompactsTheLarge, CopyIsKept
<1>2. CASE CompactTruncate
  BY <1>2, CompactedKeeps DEF CompactTruncate
<1>3. CASE CompactCopy
  <2>1. /\ UNCHANGED << file, count, returned, faults >> /\ tmp' = Kept
        /\ step = "compact" /\ step' = "rename" /\ Len(file) >= 2
    BY <1>3 DEF CompactCopy
  <2>2. Written' = Written /\ Written \in Nat /\ Kept' = Kept
    BY <2>1 DEF Written, LogInv, LogType, Kept
  <2>3. InOrder(Kept, Written)
    BY <2>1, <2>2, KeptIsNewer DEF LogInv, LogType
  <2>4. LogType'
    BY <2>1, <2>2, <2>3 DEF LogInv, LogType
  <2> QED
    BY <2>1, <2>2, <2>4
    DEF LogInv, LinesAreEvents, SizeIsBounded, CompactsTheLarge, CopyIsKept, MissingAreOld, Surviving
<1>4. CASE CompactRename
  <2>1. tmp = Kept /\ Len(file) >= 2
    BY <1>4 DEF CompactRename, LogInv, CopyIsKept
  <2> QED
    BY <1>4, <2>1, CompactedKeeps DEF CompactRename
<1>5. CASE CompactFails
  <2>1. /\ step \in {"compact", "rename"} /\ step' = "write" /\ faults' = faults + 1
        /\ UNCHANGED << file, count, returned >>
        /\ tmp' \in {<< >>, tmp}
    BY <1>5 DEF CompactFails, Fault
  <2>2. InOrder(tmp, count - 1) /\ InOrder(<< >>, count - 1)
    BY <2>1, NoLines DEF LogInv, LogType, Written
  <2> QED
    BY <2>1, <2>2, FaultKeeps
<1>6. CASE Write
  <2>1. /\ step = "write" /\ step' = "idle" /\ count' = count /\ faults' = faults /\ tmp' = tmp
        /\ returned' = returned \cup {count}
        /\ file' = AppendLine(file, Whole(count))
        /\ faults \in Nat /\ count \in Nat
    BY <1>6 DEF Write, LogInv, LogType
  <2>2. Whole(count) \in Lines /\ Whole(count).events = {count} /\ ~IsTorn(Whole(count))
    BY <2>1, PiecesAre
  <2> QED
    BY <2>1, <2>2, WrittenKeeps
<1>7. CASE WriteFails
  <2>1. /\ step = "write" /\ step' = "idle" /\ count' = count /\ faults' = faults + 1 /\ tmp' = tmp
        /\ returned' = returned /\ faults \in Nat /\ count \in Nat
        /\ \/ file' = file
           \/ \E piece \in Torn(count) : file' = AppendLine(file, piece)
    BY <1>7 DEF WriteFails, Fault, LogInv, LogType
  <2>2. InOrder(tmp', count - 1)
    BY <2>1 DEF LogInv, LogType, Written
  <2>3. faults' \in Nat /\ faults < faults' /\ faults <= faults'
    BY <2>1
  <2>4. CASE file' = file
    BY <2>1, <2>2, <2>4, FaultKeeps
  <2>5. ASSUME NEW piece \in Torn(count), file' = AppendLine(file, piece)
        PROVE  LogInv'
    <3>1. piece \in Lines /\ piece.events = {count}
      BY <2>1, PiecesAre
    <3> QED
      BY <2>1, <2>3, <2>5, <3>1, WrittenKeeps
  <2> QED
    BY <2>1, <2>4, <2>5
<1>8. CASE Crash
  <2>1. /\ step # "idle" /\ step' = "idle" /\ count' = count /\ faults' = faults + 1
        /\ returned' = returned /\ faults \in Nat /\ count \in Nat /\ count > 0
        /\ tmp' \in {tmp} \cup (IF step = "compact" /\ Len(file) >= 2 THEN {<< >>, << Head(Kept) >>} ELSE {})
        /\ \/ file' = file
           \/ /\ step = "write"
              /\ \E piece \in Torn(count) \cup {Whole(count)} : file' = AppendLine(file, piece)
    BY <1>8 DEF Crash, Fault, LogInv, LogType
  <2>2. InOrder(tmp, count - 1) /\ InOrder(<< >>, count - 1) /\ InOrder(file, count - 1)
    BY <2>1, NoLines DEF LogInv, LogType, Written
  <2>3. Len(file) >= 2 => InOrder(<< Head(Kept) >>, count - 1)
    <3> SUFFICES ASSUME Len(file) >= 2 PROVE InOrder(<< Head(Kept) >>, count - 1)
      OBVIOUS
    <3> DEFINE k == Kept
               l == Head(k)
    <3>1. InOrder(k, count - 1) /\ Len(k) \in Nat \ {0} /\ DOMAIN k = 1..Len(k)
      <4>1. InOrder(k, count - 1) /\ Len(k) = Len(file) - Len(file) \div 2 /\ count - 1 \in Nat
        BY <2>1, <2>2, KeptIsNewer
      <4>2. Len(k) \in Nat \ {0}
        <5>1. Len(file) \in Nat
          BY <2>2, <4>1, EventsAre
        <5> HIDE DEF k
        <5> QED
          BY <4>1, <5>1
      <4> HIDE DEF k
      <4> QED
        BY <4>1, <4>2 DEF InOrder
    <3> HIDE DEF k
    <3>2. l = k[1] /\ 1 \in DOMAIN k /\ l \in Lines
      BY <3>1 DEF InOrder
    <3>3. l.events # {} /\ l.events \subseteq 1..(count - 1)
      BY <3>1, <3>2 DEF InOrder
    <3>4. l.whole => \E e \in Nat : l.events = {e}
      BY <3>1, <3>2 DEF InOrder, Parses
    <3> HIDE DEF l
    <3>5. InOrder(<< l >>, count - 1)
      BY <3>2, <3>3, <3>4 DEF InOrder, Ordered, Parses, Closed
    <3> QED
      BY <3>5 DEF l, k
  <2>4. InOrder(tmp', count - 1)
    BY <2>1, <2>2, <2>3
  <2>5. faults' \in Nat /\ faults < faults' /\ faults <= faults'
    BY <2>1
  <2>6. CASE file' = file
    BY <2>1, <2>4, <2>6, FaultKeeps
  <2>7. ASSUME step = "write", NEW piece \in Torn(count) \cup {Whole(count)}, file' = AppendLine(file, piece)
        PROVE  LogInv'
    <3>1. tmp' = tmp /\ piece \in Lines /\ piece.events = {count}
      BY <2>1, <2>7, PiecesAre
    <3> QED
      BY <2>1, <2>5, <2>7, <3>1, WrittenKeeps
  <2> QED
    BY <2>1, <2>6, <2>7
<1>9. CASE UNCHANGED vars
  BY <1>9 DEF vars, LogInv, LogType, Written, LinesAreEvents, SizeIsBounded, CompactsTheLarge, CopyIsKept, Kept,
     MissingAreOld, Surviving
<1> QED
  BY <1>1, <1>2, <1>3, <1>4, <1>5, <1>6, <1>7, <1>8, <1>9 DEF Next
-----------------------------------------------------------------------------
(* No append, compaction, failure or crash makes activity.log grow past    *)
(* MaxBytes by more than the event that is being written and one for each  *)
(* fault, however many events are recorded.                                *)
THEOREM LogIsAlwaysBounded == Spec => []LogIsBounded
<1>1. LogInv => LogIsBounded
  <2> SUFFICES ASSUME LogInv PROVE LogIsBounded
    OBVIOUS
  <2>1. Size(file) \in Nat /\ faults \in Nat
    <3>1. Written \in Nat /\ InOrder(file, Written) /\ faults \in Nat
      BY DEF LogInv, LogType, Written
    <3> QED
      BY <3>1, EventsAre
  <2> QED
    BY <2>1, SizeAssumption DEF LogInv, SizeIsBounded, LogIsBounded
<1> QED
  BY InitLog, NextLog, <1>1, PTL DEF Spec

(* The file and what a compaction has written are sequences of lines of    *)
(* recorded events, of which only the last may lack its newline.           *)
THEOREM LinesAreWellFormed == Spec => []TypeOK
<1>1. LogInv => TypeOK
  <2> SUFFICES ASSUME LogInv PROVE TypeOK
    OBVIOUS
  <2>1. /\ Written \in Nat /\ count \in Nat /\ Written <= count
        /\ InOrder(file, Written) /\ InOrder(tmp, Written)
        /\ returned \subseteq 1..Written
        /\ step \in {"idle", "compact", "rename", "write"}
    BY DEF LogInv, LogType, Written
  <2>2. ASSUME NEW lines, InOrder(lines, Written), NEW i \in DOMAIN lines
        PROVE  /\ lines[i].events \subseteq 1..count
               /\ lines[i].whole => Cardinality(lines[i].events) = 1
               /\ ~lines[i].ended => i = Len(lines)
    <3>1. lines[i].events \subseteq 1..count
      BY <2>1, <2>2 DEF InOrder
    <3>2. lines[i].whole => \E e \in Nat : lines[i].events = {e}
      BY <2>2, Zenon DEF InOrder, Parses
    <3>3. \A e : Cardinality({e}) = 1
      BY FS_Singleton
    <3>4. i < Len(lines) => lines[i].ended
      BY <2>2, Zenon DEF InOrder, Closed
    <3>5. i < Len(lines) \/ i = Len(lines)
      BY <2>2 DEF InOrder
    <3> QED
      BY <3>1, <3>2, <3>3, <3>4, <3>5, Zenon
  <2>3. returned \subseteq 1..count
    BY <2>1
  <2>4. \A lines \in {file, tmp} : InOrder(lines, Written)
    BY <2>1
  <2> QED
    BY <2>1, <2>2, <2>3, <2>4, Zenon DEF TypeOK
<1> QED
  BY InitLog, NextLog, <1>1, PTL DEF Spec
-----------------------------------------------------------------------------
(* The lines that parse, numbered from the newest on.                      *)
LEMMA NewerIs ==
  ASSUME NEW top \in Nat, InOrder(file, top)
  PROVE  /\ Parsed \subseteq 1..Len(file)
         /\ Cardinality(Parsed) \in 0..Len(file)
         /\ \A i, j \in Parsed : i < j => Newer(j) < Newer(i)
         /\ \A i \in Parsed : Newer(i) \in 0..(Cardinality(Parsed) - 1)
         /\ \A k \in 1..Cardinality(Parsed) : \E i \in Parsed : Newer(i) = k - 1
<1> DEFINE P == Parsed
           c == Cardinality(P)
           N(i) == {j \in P : i < j}
<1>1. P \subseteq 1..Len(file) /\ Len(file) \in Nat
  BY DEF Parsed, InOrder
<1>2. \A i : Newer(i) = Cardinality(N(i))
  BY DEF Newer
<1> HIDE DEF P
<1>3. IsFiniteSet(P) /\ c \in 0..Len(file)
  <2>1. IsFiniteSet(1..Len(file)) /\ Cardinality(1..Len(file)) = Len(file)
    <3> DEFINE n == Len(file)
    <3>1. n \in Nat /\ 1 \in Int
      BY <1>1
    <3> HIDE DEF n
    <3>2. IsFiniteSet(1..n) /\ Cardinality(1..n) = n
      BY <3>1, FS_Interval
    <3> QED
      BY <3>2 DEF n
  <2>2. IsFiniteSet(P) /\ Cardinality(P) <= Cardinality(1..Len(file))
    BY <1>1, <2>1, FS_Subset
  <2> QED
    BY <2>1, <2>2, FS_CardinalityType
<1>4. \A i : IsFiniteSet(N(i)) /\ Cardinality(N(i)) \in Nat
  BY <1>3, FS_Subset, FS_CardinalityType
<1>5. ASSUME NEW i \in P
      PROVE  Newer(i) \in 0..(c - 1)
  <2>1. i \notin N(i)
    BY <1>1
  <2>2. N(i) \in SUBSET (P \ {i})
    BY <2>1
  <2>3. IsFiniteSet(P \ {i}) /\ Cardinality(P \ {i}) = c - 1
    BY <1>3, FS_RemoveElement
  <2> DEFINE S == N(i)
  <2>4. IsFiniteSet(S) /\ Cardinality(S) \in Nat /\ Newer(i) = Cardinality(S)
    BY <1>2, <1>4
  <2> HIDE DEF S, N, c
  <2>5. Cardinality(S) <= Cardinality(P \ {i})
    BY <2>2, <2>3, FS_Subset DEF S
  <2> QED
    BY <2>3, <2>4, <2>5, <1>3
<1>6. ASSUME NEW i \in P, NEW j \in P, i < j
      PROVE  Newer(j) < Newer(i)
  <2> DEFINE S == N(i)
             T == N(j)
  <2>0. \A k \in P : k \in Nat
    BY <1>1
  <2>1. j \in S /\ j \notin T /\ T \subseteq S
    <3>1. \A k \in P : j < k => i < k
      BY <1>6, <2>0
    <3>2. ~(j < j)
      BY <2>0
    <3> QED
      BY <1>6, <3>1, <3>2
  <2>2. T \in SUBSET (S \ {j})
    BY <2>1
  <2>3. /\ IsFiniteSet(S) /\ Cardinality(S) \in Nat /\ Newer(i) = Cardinality(S)
        /\ Cardinality(T) \in Nat /\ Newer(j) = Cardinality(T)
    BY <1>2, <1>4
  <2> HIDE DEF S, T, N, c
  <2>4. IsFiniteSet(S \ {j}) /\ Cardinality(S \ {j}) = Cardinality(S) - 1
    BY <2>1, <2>3, FS_RemoveElement
  <2>5. Cardinality(T) <= Cardinality(S \ {j})
    BY <2>2, <2>4, FS_Subset
  <2> QED
    BY <2>3, <2>4, <2>5
<1>7. \A k \in 1..c : \E i \in P : Newer(i) = k - 1
  <2> DEFINE f == [i \in P |-> Newer(i) + 1]
             R == 1..c
  <2>0. \A i \in P : Newer(i) \in Nat /\ Newer(i) + 1 \in R
    BY <1>3, <1>5
  <2>1. f \in [P -> R]
    BY <2>0
  <2>2. IsInjective(f)
    <3> SUFFICES ASSUME NEW i \in P, NEW j \in P, i # j
                 PROVE  Newer(i) + 1 # Newer(j) + 1
      BY DEF IsInjective
    <3>1. i < j \/ j < i
      BY <1>1
    <3>2. Newer(i) # Newer(j)
      BY <3>1, <1>6, <2>0
    <3> QED
      BY <3>2, <2>0
  <2>3. IsFiniteSet(R) /\ Cardinality(R) = c
    BY <1>3, FS_Interval
  <2> HIDE DEF f, R
  <2>4. f \in Injection(P, R)
    BY <2>1, <2>2 DEF Injection
  <2>5. f \in Surjection(P, R)
    BY <2>3, <2>4, FS_Injection
  <2> SUFFICES ASSUME NEW k \in R PROVE \E i \in P : Newer(i) = k - 1
    BY DEF R
  <2>6. PICK i \in P : f[i] = k
    BY <2>5 DEF Surjection
  <2> QED
    BY <2>0, <2>6 DEF f
<1> QED
  BY <1>1, <1>3, <1>5, <1>6, <1>7 DEF P

(* What Recent shows: the event of every line that parses, newest first.   *)
LEMMA RecentIs ==
  ASSUME LogInv
  PROVE  /\ \A e : e \in Range(Recent(Len(file))) <=> \E i \in Parsed : e \in file[i].events
         /\ \A k, l \in DOMAIN Recent(Len(file)) : k < l => Recent(Len(file))[k] > Recent(Len(file))[l]
<1> DEFINE c == Cardinality(Parsed)
           shown == Recent(Len(file))
           Shows(k, e) == e \in 1..count /\ \E i \in Parsed : Newer(i) = k - 1 /\ e \in file[i].events
<1>1. Written \in Nat /\ InOrder(file, Written) /\ count \in Nat /\ Written <= count
  BY DEF LogInv, LogType, Written
<1>2. /\ Parsed \subseteq 1..Len(file)
      /\ c \in 0..Len(file)
      /\ \A i, j \in Parsed : i < j => Newer(j) < Newer(i)
      /\ \A i \in Parsed : Newer(i) \in 0..(c - 1)
      /\ \A k \in 1..c : \E i \in Parsed : Newer(i) = k - 1
  BY <1>1, NewerIs
<1>3. Len(file) \in Nat /\ DOMAIN file = 1..Len(file)
  BY <1>1 DEF InOrder
<1>4. \A i \in Parsed : i \in DOMAIN file /\ \E e \in Nat : file[i].events = {e} /\ e \in 1..count
  <2> SUFFICES ASSUME NEW i \in Parsed PROVE i \in DOMAIN file /\ \E e \in Nat : file[i].events = {e} /\ e \in 1..count
    OBVIOUS
  <2>1. i \in DOMAIN file /\ file[i].whole
    BY DEF Parsed
  <2>2. \E e \in Nat : file[i].events = {e}
    BY <1>1, <2>1, Zenon DEF InOrder, Parses
  <2>3. file[i].events \subseteq 1..count
    BY <1>1, <2>1 DEF InOrder
  <2> QED
    BY <2>1, <2>2, <2>3
<1> DEFINE most == IF c < Len(file) THEN c ELSE Len(file)
<1>5. most = c
  BY <1>2, <1>3
<1>6. shown = [k \in 1..most |-> CHOOSE e \in 1..count : \E i \in Parsed : Newer(i) = k - 1 /\ e \in file[i].events]
  BY DEF Recent
<1> HIDE DEF most, c, shown
<1>7. DOMAIN shown = 1..c
  BY <1>5, <1>6
<1>8. ASSUME NEW k \in 1..c
      PROVE  \E i \in Parsed : Newer(i) = k - 1 /\ file[i].events = {shown[k]} /\ i \in DOMAIN file
  <2>1. PICK i \in Parsed : Newer(i) = k - 1
    BY <1>2
  <2>2. PICK e \in 1..count : file[i].events = {e}
    BY <1>4
  <2>3. shown[k] = CHOOSE x \in 1..count : \E j \in Parsed : Newer(j) = k - 1 /\ x \in file[j].events
    BY <1>5, <1>6
  <2>4. \E j \in Parsed : Newer(j) = k - 1 /\ shown[k] \in file[j].events
    BY <2>1, <2>2, <2>3
  <2>5. PICK j \in Parsed : Newer(j) = k - 1 /\ shown[k] \in file[j].events
    BY <2>4
  <2>6. file[j].events = {shown[k]} /\ j \in DOMAIN file
    BY <1>4, <2>5
  <2> QED
    BY <2>5, <2>6
<1>9. ASSUME NEW i \in Parsed, NEW j \in Parsed, Newer(i) = Newer(j)
      PROVE  i = j
  <2>1. /\ i \in Nat /\ j \in Nat
        /\ i < j => Newer(j) < Newer(i)
        /\ j < i => Newer(i) < Newer(j)
        /\ Newer(i) \in Int /\ Newer(j) \in Int
    BY <1>2
  <2> QED
    BY <2>1, <1>9
<1>10. ASSUME NEW e
       PROVE  e \in Range(shown) <=> \E i \in Parsed : e \in file[i].events
  <2>1. ASSUME NEW k \in 1..c, e = shown[k] PROVE \E i \in Parsed : e \in file[i].events
    BY <1>8, <2>1
  <2>2. ASSUME NEW i \in Parsed, e \in file[i].events PROVE e \in Range(shown)
    <3> DEFINE k == Newer(i) + 1
    <3>1. k \in 1..c /\ k - 1 = Newer(i)
      BY <1>2, <1>3
    <3> HIDE DEF k
    <3>2. PICK j \in Parsed : Newer(j) = k - 1 /\ file[j].events = {shown[k]}
      BY <3>1, <1>8
    <3>3. j = i
      BY <3>1, <3>2, <1>9
    <3>4. e = shown[k]
      BY <2>2, <3>2, <3>3
    <3> QED
      BY <3>1, <3>4, <1>7 DEF Range
  <2> QED
    BY <2>1, <2>2, <1>7 DEF Range
<1>11. ASSUME NEW k \in 1..c, NEW l \in 1..c, k < l
       PROVE  shown[k] > shown[l]
  <2>1. PICK i \in Parsed : Newer(i) = k - 1 /\ file[i].events = {shown[k]} /\ i \in DOMAIN file
    BY <1>8
  <2>2. PICK j \in Parsed : Newer(j) = l - 1 /\ file[j].events = {shown[l]} /\ j \in DOMAIN file
    BY <1>8
  <2>3. j < i
    <3>1. i \in Nat /\ j \in Nat /\ Newer(i) < Newer(j) /\ Newer(i) \in Int /\ Newer(j) \in Int
      BY <1>2, <1>11, <2>1, <2>2
    <3>2. ~(i < j) /\ i # j
      BY <1>2, <3>1
    <3> QED
      BY <3>1, <3>2
  <2>4. shown[l] < shown[k]
    BY <1>1, <2>1, <2>2, <2>3 DEF InOrder, Ordered
  <2>5. shown[l] \in Nat /\ shown[k] \in Nat
    BY <1>4, <2>1, <2>2
  <2> QED
    BY <2>4, <2>5
<1> QED
  BY <1>7, <1>10, <1>11 DEF shown

(* The timeline is "newest first" and complete: whatever append or         *)
(* compaction was interrupted, an event that was recorded and is not shown *)
(* shares its line with a torn write or was dropped, with all before it,   *)
(* for as many newer ones as compaction keeps.                             *)
THEOREM TimelineIsAlwaysTrue == Spec => []TimelineIsTrue
<1>1. LogInv => TimelineIsTrue
  <2> SUFFICES ASSUME LogInv PROVE TimelineIsTrue
    OBVIOUS
  <2> DEFINE shown == Recent(Len(file))
  <2>1. /\ \A e : e \in Range(shown) <=> \E i \in Parsed : e \in file[i].events
        /\ \A k, l \in DOMAIN shown : k < l => shown[k] > shown[l]
    BY RecentIs
  <2> HIDE DEF shown
  <2>2. Parsed \subseteq DOMAIN file
    BY DEF Parsed
  <2>3. ASSUME NEW e \in returned \ (Range(shown) \cup Spoiled)
        PROVE  Len(file) >= Surviving /\ \A x \in Range(shown) : e < x
    <3>1. e \notin Events(file)
      <4> SUFFICES ASSUME NEW i \in DOMAIN file, e \in file[i].events PROVE FALSE
        BY DEF Events
      <4>1. CASE i \in Parsed
        BY <4>1, <2>1, <2>3
      <4>2. CASE i \notin Parsed
        <5>1. ~file[i].whole
          BY <4>2, Zenon DEF Parsed
        <5>2. e \in Spoiled
          BY <5>1, Zenon DEF Spoiled
        <5> QED
          BY <5>2, <2>3
      <4> QED
        BY <4>1, <4>2
    <3>2. Surviving <= Len(file) /\ \A x \in Events(file) : e < x
      BY <3>1, <2>3 DEF LogInv, MissingAreOld
    <3>3. Range(shown) \subseteq Events(file)
      BY <2>1, <2>2 DEF Events
    <3>4. Surviving \in Nat /\ Len(file) \in Nat
      <4>1. Written \in Nat /\ InOrder(file, Written) /\ faults \in Nat
        BY DEF LogInv, LogType, Written
      <4> QED
        BY <4>1, SurvivingIs, EventsAre
    <3> QED
      BY <3>2, <3>3, <3>4
  <2> QED
    BY <2>1, <2>3 DEF TimelineIsTrue, shown
<1> QED
  BY InitLog, NextLog, <1>1, PTL DEF Spec
=============================================================================
