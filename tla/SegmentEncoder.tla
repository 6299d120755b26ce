--------------------------- MODULE SegmentEncoder ---------------------------
(***************************************************************************)
(* One call of encodeSegments: a goroutine per segment, at most            *)
(* MaxParallel of them in ffmpeg at once; each puts its result into        *)
(* resultChan, whose capacity is the number of segments; a closer closes   *)
(* the channel when all are done; the caller collects results and returns  *)
(* at the FIRST error, leaving the other goroutines to themselves.  What   *)
(* the caller sees of it is EncodeCall, which this module implements.      *)
(***************************************************************************)
EXTENDS Naturals, Sequences, FiniteSets

CONSTANTS
  NSegs,        \* len(segments), never 0: splitVideo returns an error then
  MaxParallel   \* MaxParallelJobs

ASSUME EncoderAssumption == NSegs \in Nat \ {0} /\ MaxParallel \in Nat \ {0}

Segs == 1..NSegs

VARIABLES
  coder,       \* per segment: where its goroutine is
  verdict,     \* per segment: what ffmpeg made of it, "none" before
  slots,       \* len(sem)
  resultChan,  \* segments whose result waits in the channel
  open,        \* resultChan is not closed
  encoded,     \* segments whose path the caller has recorded
  returned     \* "none", "ok" or "error"

vars == <<coder, verdict, slots, resultChan, open, encoded, returned>>

Init ==
  /\ coder = [i \in Segs |-> "none"]
  /\ verdict = [i \in Segs |-> "none"]
  /\ slots = 0
  /\ resultChan = <<>> /\ open = TRUE
  /\ encoded = {} /\ returned = "none"

Step(i, from, to) == coder[i] = from /\ coder' = [coder EXCEPT ![i] = to]

-----------------------------------------------------------------------------
(* Mutants.                                                                *)

\* The semaphore is acquired after ffmpeg was started.
Acquire_Late(i) ==
  /\ Step(i, "spawned", "encoding")
  /\ slots' = slots + 1
  /\ UNCHANGED <<verdict, resultChan, open, encoded, returned>>

\* resultChan is unbuffered: only a waiting caller takes a result.
Send_Unbuffered(i) ==
  /\ returned = "none" /\ Len(resultChan) = 0
  /\ Step(i, "reporting", "sent")
  /\ resultChan' = Append(resultChan, i)
  /\ UNCHANGED <<verdict, slots, open, encoded, returned>>

\* The closer waits for one goroutine only.
Close_Early ==
  /\ open /\ \E i \in Segs : coder[i] = "done"
  /\ open' = FALSE
  /\ UNCHANGED <<coder, verdict, slots, resultChan, encoded, returned>>

\* close(resultChan) is left out.
Close_Omitted == FALSE /\ UNCHANGED vars

\* A failed result is skipped instead of returned.
Collect_Skips ==
  /\ returned = "none" /\ resultChan # <<>>
  /\ resultChan' = Tail(resultChan)
  /\ encoded' = IF verdict[Head(resultChan)] = "ok"
                THEN encoded \cup {Head(resultChan)} ELSE encoded
  /\ UNCHANGED <<coder, verdict, slots, open, returned>>

-----------------------------------------------------------------------------
NotSpawned == \A i \in Segs : coder[i] = "none"

\* The directory is made, the goroutines are spawned.  (One that is not yet
\* spawned and one that has not run yet are the same.)
Spawn ==
  /\ NotSpawned /\ returned = "none"
  /\ coder' = [i \in Segs |-> "spawned"]
  /\ UNCHANGED <<verdict, slots, resultChan, open, encoded, returned>>

MkdirFails ==
  /\ NotSpawned /\ returned = "none"
  /\ returned' = "error"
  /\ UNCHANGED <<coder, verdict, slots, resultChan, open, encoded>>

\* sem <- struct{}{}
Acquire(i) ==
  /\ slots < MaxParallel
  /\ Step(i, "spawned", "encoding")
  /\ slots' = slots + 1
  /\ UNCHANGED <<verdict, resultChan, open, encoded, returned>>

\* ffmpeg ends.
Encode(i) ==
  /\ Step(i, "encoding", "reporting")
  /\ \E v \in {"ok", "failed"} : verdict' = [verdict EXCEPT ![i] = v]
  /\ UNCHANGED <<slots, resultChan, open, encoded, returned>>

\* resultChan <- encodeResult{...}
Send(i) ==
  /\ Len(resultChan) < NSegs
  /\ Step(i, "reporting", "sent")
  /\ resultChan' = Append(resultChan, i)
  /\ UNCHANGED <<verdict, slots, open, encoded, returned>>

\* The deferred <-sem, then the deferred wg.Done().
Release(i) ==
  /\ Step(i, "sent", "done")
  /\ slots' = slots - 1
  /\ UNCHANGED <<verdict, resultChan, open, encoded, returned>>

\* wg.Wait(); close(resultChan)
Close ==
  /\ open /\ \A i \in Segs : coder[i] = "done"
  /\ open' = FALSE
  /\ UNCHANGED <<coder, verdict, slots, resultChan, encoded, returned>>

\* The caller takes a result: an error returns at once.
Collect ==
  /\ returned = "none" /\ resultChan # <<>>
  /\ resultChan' = Tail(resultChan)
  /\ LET i == Head(resultChan)
     IN IF verdict[i] = "ok"
        THEN encoded' = encoded \cup {i} /\ UNCHANGED returned
        ELSE returned' = "error" /\ UNCHANGED encoded
  /\ UNCHANGED <<coder, verdict, slots, open>>

\* The channel is closed and drained.
ReturnOk ==
  /\ returned = "none" /\ resultChan = <<>> /\ ~open
  /\ returned' = "ok"
  /\ UNCHANGED <<coder, verdict, slots, resultChan, open, encoded>>

\* Nothing is left to do.
Finished == (~open \/ NotSpawned) /\ returned # "none" /\ UNCHANGED vars

Next ==
  \/ \E i \in Segs : Acquire(i) \/ Encode(i) \/ Send(i) \/ Release(i)
  \/ Spawn \/ MkdirFails \/ Close \/ Collect \/ ReturnOk \/ Finished

Spec == Init /\ [][Next]_vars

\* The Go scheduler runs what can run, channel waiters are served in order,
\* and ffmpeg ends.
Fairness ==
  /\ \A i \in Segs : /\ SF_vars(Acquire(i)) /\ WF_vars(Encode(i))
                     /\ WF_vars(Send(i)) /\ WF_vars(Release(i))
  /\ WF_vars(Spawn) /\ WF_vars(Close) /\ WF_vars(Collect) /\ WF_vars(ReturnOk)

FairSpec == Spec /\ Fairness

-----------------------------------------------------------------------------
\* Type correctness.
TypeOK ==
  /\ coder \in [Segs -> {"none", "spawned", "encoding", "reporting", "sent", "done"}]
  /\ verdict \in [Segs -> {"none", "ok", "failed"}]
  /\ slots \in 0..MaxParallel
  /\ resultChan \in Seq(Segs)
  /\ open \in BOOLEAN
  /\ encoded \in SUBSET Segs
  /\ returned \in {"none", "ok", "error"}

\* The goroutines implement the call as ProcessVideo relies on it.  A result
\* list with a hole in it is no outcome the caller could use.
CoderMap == [i \in Segs |->
  CASE coder[i] = "none" -> "none"
    [] coder[i] = "spawned" -> "waiting"
    [] coder[i] = "encoding" -> "writing"
    [] OTHER -> IF verdict[i] = "ok" THEN "done" ELSE "failed"]

OutcomeMap ==
  CASE returned = "none" -> IF NotSpawned THEN "idle" ELSE "running"
    [] returned = "ok" -> IF encoded = Segs THEN "ok" ELSE "hole"
    [] returned = "error" -> "error"

Abstract == INSTANCE EncodeCall WITH
  Segments <- Segs, coder <- CoderMap, outcome <- OutcomeMap

\* nil means that every segment was encoded and has its path in the list, an
\* error that one failed; with the goroutines of an abandoned call included, never
\* more than MaxParallelJobs ffmpeg run; results is closed after the last send
\* (closed earlier, the caller would return ok before the others are done).
ImplementsCall == Abstract!CallSpec

\* Goroutines abandoned by an early error return never block on the channel
\* nobody reads any more, nor on the semaphore: all of them end.
NoGoroutineLeaks == <>[](\A i \in Segs : coder[i] \in {"none", "done"})

\* The call always returns, in whichever order the goroutines end.
CallReturns == <>(returned # "none")

=============================================================================
