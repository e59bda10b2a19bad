------------------------------ MODULE Activity ------------------------------
(***************************************************************************)
(* The panel's timeline (internal/activity): a file of one event per line, *)
(* appended to and, when it has grown, cut to its newer half.  A mutex     *)
(* makes appends follow one another; what can interrupt one is an error of *)
(* the file system or the end of the process.                              *)
(*                                                                         *)
(* Events are numbered in the order of their appends.  The file is a       *)
(* sequence of lines; a line has the events of which it holds bytes, and   *)
(* is `whole` when it is the JSON of one of them.  Only the last line may  *)
(* lack its newline.  A size is the number of events of which there are    *)
(* bytes, so a torn write counts in full.  Both scanners have limits       *)
(* (64 KiB, 1 MiB) that no line the daemon writes comes near: they are     *)
(* left out.                                                               *)
(***************************************************************************)
EXTENDS SequencesExt, Integers

CONSTANTS
  MaxBytes,       (* as in the code, but in writes                         *)
  MaxEvents,      (* bounds the model                                      *)
  MaxFaults       (* bounds the model                                      *)

ASSUME SizeAssumption == MaxBytes \in Nat \ {0}

VARIABLES
  file,
  tmp,            (* the file that compaction writes                       *)
  step,           (* of the append that holds the mutex, or "idle"         *)
  count,          (* of events                                             *)
  returned,       (* the events whose Append returned no error             *)
  faults

vars == << file, tmp, step, count, returned, faults >>

Line(events, whole, ended) == [events |-> events, whole |-> whole, ended |-> ended]

(* O_APPEND: bytes after a line without a newline make it longer.          *)
IsOpen(lines) == lines # << >> /\ ~Last(lines).ended

AppendLine(lines, piece) ==
  IF IsOpen(lines)
  THEN [lines EXCEPT ![Len(lines)] = Line(@.events \cup piece.events, FALSE, piece.ended)]
  ELSE Append(lines, piece)

Events(lines) == UNION {lines[i].events : i \in DOMAIN lines}

Size(lines) == Cardinality(Events(lines))

(* What one write of event e leaves in the file: all, a part, or all but   *)
(* the newline.                                                            *)
Whole(e) == Line({e}, TRUE, TRUE)
Torn(e)  == {Line({e}, whole, FALSE) : whole \in BOOLEAN}

(* Up to n events, newest first; lines that do not parse are skipped.      *)
Parsed == {i \in DOMAIN file : file[i].whole}

Newer(i) == Cardinality({j \in Parsed : i < j})

Recent(n) ==
  [k \in 1..(IF Cardinality(Parsed) < n THEN Cardinality(Parsed) ELSE n) |->
     CHOOSE e \in 1..count : \E i \in Parsed : Newer(i) = k - 1 /\ e \in file[i].events]
-----------------------------------------------------------------------------
(* New, on a host without a log.                                           *)
Init ==
  /\ file = << >>
  /\ tmp = << >>
  /\ step = "idle"
  /\ count = 0
  /\ returned = {}
  /\ faults = 0

(* Mutant: the size is never looked at.                                    *)
BeginUnchecked ==
  /\ step = "idle"
  /\ count < MaxEvents
  /\ count' = count + 1
  /\ step' = "write"
  /\ UNCHANGED << file, tmp, returned, faults >>

Begin ==
  /\ step = "idle"
  /\ count < MaxEvents
  /\ count' = count + 1
  /\ step' = IF Size(file) > MaxBytes THEN "compact" ELSE "write"
  /\ UNCHANGED << file, tmp, returned, faults >>

(* A single line has no newer half.                                        *)
CompactTruncate ==
  /\ step = "compact"
  /\ Len(file) < 2
  /\ file' = << >>
  /\ step' = "write"
  /\ UNCHANGED << tmp, count, returned, faults >>

(* Mutant: the scanner has cut the newlines off and none are written.      *)
KeptUnended ==
  LET dropped == Len(file) \div 2
  IN  [i \in 1..(Len(file) - dropped) |-> [file[dropped + i] EXCEPT !.ended = FALSE]]

(* The lines kept are written with a newline, whether they had one or not. *)
Kept ==
  LET dropped == Len(file) \div 2
  IN  [i \in 1..(Len(file) - dropped) |-> [file[dropped + i] EXCEPT !.ended = TRUE]]

(* Mutant: what an interrupted compaction left is not truncated.           *)
CompactCopyAppending ==
  /\ step = "compact"
  /\ Len(file) >= 2
  /\ tmp' = tmp \o Kept
  /\ step' = "rename"
  /\ UNCHANGED << file, count, returned, faults >>

CompactCopy ==
  /\ step = "compact"
  /\ Len(file) >= 2
  /\ tmp' = Kept
  /\ step' = "rename"
  /\ UNCHANGED << file, count, returned, faults >>

CompactRename ==
  /\ step = "rename"
  /\ file' = tmp
  /\ tmp' = << >>
  /\ step' = "write"
  /\ UNCHANGED << count, returned, faults >>

Fault == faults < MaxFaults /\ faults' = faults + 1

(* The append goes on without it.  The temporary file is removed when      *)
(* writing it fails, not when renaming it does.                            *)
CompactFails ==
  /\ step \in {"compact", "rename"}
  /\ Fault
  /\ tmp' = IF step = "compact" THEN << >> ELSE tmp
  /\ step' = "write"
  /\ UNCHANGED << file, count, returned >>

Write ==
  /\ step = "write"
  /\ file' = AppendLine(file, Whole(count))
  /\ returned' = returned \cup {count}
  /\ step' = "idle"
  /\ UNCHANGED << tmp, count, faults >>

(* The caller ignores the error (logEvent).                                *)
WriteFails ==
  /\ step = "write"
  /\ Fault
  /\ file' \in {file} \cup {AppendLine(file, piece) : piece \in Torn(count)}
  /\ step' = "idle"
  /\ UNCHANGED << tmp, count, returned >>

(* The daemon dies and is started again: New finds the files as they are.  *)
Crash ==
  /\ step # "idle"
  /\ Fault
  /\ file' \in {file} \cup (IF step = "write" THEN {AppendLine(file, piece) : piece \in Torn(count) \cup {Whole(count)}}
                                               ELSE {})
  /\ tmp' \in {tmp} \cup (IF step = "compact" /\ Len(file) >= 2 THEN {<< >>, << Head(Kept) >>} ELSE {})
  /\ step' = "idle"
  /\ UNCHANGED << count, returned >>

Next ==
  \/ Begin
  \/ CompactTruncate
  \/ CompactCopy
  \/ CompactRename
  \/ CompactFails
  \/ Write
  \/ WriteFails
  \/ Crash

Spec == Init /\ [][Next]_vars
-----------------------------------------------------------------------------
TypeOK ==
  /\ \A lines \in {file, tmp} :
       \A i \in DOMAIN lines :
         /\ lines[i].events \subseteq 1..count
         /\ lines[i].whole => Cardinality(lines[i].events) = 1
         /\ ~lines[i].ended => i = Len(lines)
  /\ step \in {"idle", "compact", "rename", "write"}
  /\ returned \subseteq 1..count

(* "newest first" (activity.go:114): no event is shown twice or out of     *)
(* order, and one that was recorded is missing only where it shares a line *)
(* with a torn write or has been dropped for newer ones, as many as        *)
(* compaction keeps, and then so is every event before it: an interrupted  *)
(* append or compaction costs nothing else.                                *)
Spoiled == UNION {file[i].events : i \in {j \in DOMAIN file : ~file[j].whole}}

(* Each fault makes at most two lines of a file into one.                  *)
Surviving ==
  LET lines == MaxBytes + 1 - faults
  IN  IF lines < 2 THEN 0 ELSE (lines + 1) \div 2

TimelineIsTrue ==
  LET shown == Recent(Len(file))
  IN  /\ \A i, j \in DOMAIN shown : i < j => shown[i] > shown[j]
      /\ \A e \in returned \ (Range(shown) \cup Spoiled) :
           /\ Len(file) >= Surviving
           /\ \A x \in Range(shown) : e < x

(* The file stays within one event of its limit, but for the compactions   *)
(* that failed.                                                            *)
LogIsBounded == Size(file) <= MaxBytes + 1 + faults
=============================================================================
