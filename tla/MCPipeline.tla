----------------------------- MODULE MCPipeline -----------------------------
(* Bounds for VideoPipeline.  Of segments of at least 2 s, at most 2, a video *)
(* of 0 s has none, one of 1 s has one, and one of 5 s reaches the maximum.   *)
EXTENDS VideoPipeline

CONSTANTS t1, t2
Tasks2 == {t1, t2}
Lengths == [t \in Tasks |-> IF t = t1 THEN {5} ELSE {0, 1, 5}]

\* What may be left behind: a segment beyond those of a short video, an
\* encoded one.
Leftovers == {Seg(2), Enc(1)}

=============================================================================
