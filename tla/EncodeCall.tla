------------------------------ MODULE EncodeCall ------------------------------
(***************************************************************************)
(* What ProcessVideo may rely on when it calls encodeSegments, whichever   *)
(* way goroutines, semaphore and channel are arranged inside: nil only if  *)
(* every segment was encoded, an error only if there is a reason, never    *)
(* more than MaxParallel encoders at work.  And what it may not rely on:   *)
(* that the encoders rest when the call has returned an error.             *)
(*                                                                         *)
(* SegmentEncoder implements it (the goroutines of one call), and every    *)
(* task of VideoPipeline uses encodeSegments as this module says.          *)
(***************************************************************************)
EXTENDS Naturals, FiniteSets

CONSTANTS
  Segments,     \* the segments a video may be split into
  MaxParallel   \* MaxParallelJobs

VARIABLES
  coder,    \* "none", "waiting", "writing", "done" or "failed", per segment
  outcome   \* of the call: "idle", "running", "ok" or "error"

callVars == <<coder, outcome>>

CallInit ==
  /\ coder = [i \in Segments |-> "none"]
  /\ outcome = "idle"

Writing == {i \in Segments : coder[i] = "writing"}
Step(i, from, to) ==
  coder[i] = from /\ coder' = [coder EXCEPT ![i] = to] /\ UNCHANGED outcome
Return(result) == outcome' = result /\ UNCHANGED coder

\* One encoder per segment is spawned.
Call(given) ==
  /\ outcome = "idle" /\ given # {}
  /\ outcome' = "running"
  /\ coder' = [i \in Segments |-> IF i \in given THEN "waiting" ELSE "none"]

CannotStart == outcome = "idle" /\ Return("error")

Begin(i) == Cardinality(Writing) < MaxParallel /\ Step(i, "waiting", "writing")
End(i) == Step(i, "writing", "done") \/ Step(i, "writing", "failed")
FailAtOnce(i) == Step(i, "waiting", "failed")

ReturnOk ==
  /\ outcome = "running" /\ \A i \in Segments : coder[i] \in {"none", "done"}
  /\ Return("ok")

ReturnError ==
  /\ outcome = "running" /\ \E i \in Segments : coder[i] = "failed"
  /\ Return("error")

CallNext ==
  \/ \E given \in SUBSET Segments : Call(given)
  \/ \E i \in Segments : Begin(i) \/ End(i) \/ FailAtOnce(i)
  \/ CannotStart \/ ReturnOk \/ ReturnError

CallSpec == CallInit /\ [][CallNext]_callVars

=============================================================================
