----------------------------- MODULE MCLineDiff -----------------------------
(* All pairs of short texts.                                               *)
EXTENDS LineDiff

CONSTANT MaxLines

MCTexts == UNION {[1..n -> Line] : n \in 0..MaxLines}
=============================================================================
