------------------------ MODULE SegmentEncoder_proofs ------------------------
(***************************************************************************)
(* SegmentEncoder implements EncodeCall, for any number of segments and    *)
(* any limit on the encoders at work.                                      *)
(***************************************************************************)
EXTENDS SegmentEncoder, FiniteSetTheorems, TLAPS

Holding == {i \in Segs : coder[i] \in {"encoding", "reporting", "sent"}}
Queued == {resultChan[k] : k \in 1..Len(resultChan)}

\* The semaphore holds one slot for each goroutine between Acquire and Release.
SlotsHeld == slots = Cardinality(Holding) /\ slots \in 0..MaxParallel

\* Where a goroutine is says whether ffmpeg's verdict is known, ...
VerdictKnown ==
  \A i \in Segs :
    verdict[i] = "none" <=> coder[i] \in {"none", "spawned", "encoding"}

\* ... and a result that was sent waits in the channel or was collected, and
\* there is no other, as long as the caller collects.
ResultsKept ==
  /\ \A i \in Queued : coder[i] \in {"sent", "done"}
  /\ \A i \in encoded : verdict[i] = "ok"
  /\ returned = "none" =>
       \A i \in Segs : coder[i] \in {"sent", "done"} => i \in Queued \cup encoded
  /\ ~open => \A i \in Segs : coder[i] = "done"
  /\ returned = "ok" => encoded = Segs

IInv == TypeOK /\ SlotsHeld /\ VerdictKnown /\ ResultsKept

-----------------------------------------------------------------------------
(* The accounting of slots                                                 *)

LEMMA HoldingFinite ==
  IsFiniteSet(Segs) /\ IsFiniteSet(Holding) /\ Cardinality(Holding) \in Nat
<1>1. IsFiniteSet(Segs)
  BY EncoderAssumption, FS_Interval DEF Segs
<1>2. QED
  BY <1>1, FS_Subset, FS_CardinalityType DEF Holding

LEMMA StepMoves ==
  ASSUME TypeOK, NEW i \in Segs, NEW from, NEW to, Step(i, from, to)
  PROVE  /\ coder[i] = from
         /\ \A k \in Segs : coder'[k] = IF k = i THEN to ELSE coder[k]
BY DEF TypeOK, Step

LEMMA HoldingGrows ==
  ASSUME TypeOK, NEW i \in Segs, Step(i, "spawned", "encoding")
  PROVE  Cardinality(Holding') = Cardinality(Holding) + 1
<1>1. Holding' = Holding \cup {i} /\ i \notin Holding
  BY StepMoves DEF Holding
<1>2. QED
  BY <1>1, HoldingFinite, FS_AddElement

LEMMA HoldingShrinks ==
  ASSUME TypeOK, NEW i \in Segs, Step(i, "sent", "done")
  PROVE  Cardinality(Holding') = Cardinality(Holding) - 1 /\ Cardinality(Holding) > 0
<1>1. Holding' = Holding \ {i} /\ i \in Holding
  BY StepMoves DEF Holding
<1>2. Cardinality(Holding') = Cardinality(Holding) - 1
  BY <1>1, HoldingFinite, FS_RemoveElement
<1>3. IsFiniteSet(Holding') /\ Cardinality(Holding') \in Nat
  BY <1>1, HoldingFinite, FS_RemoveElement, FS_CardinalityType
<1>4. QED
  BY <1>2, <1>3, HoldingFinite

LEMMA HoldingKept ==
  ASSUME TypeOK, NEW i \in Segs, NEW from, NEW to, Step(i, from, to),
         from \in {"encoding", "reporting"}, to \in {"reporting", "sent"}
  PROVE  Holding' = Holding
BY StepMoves DEF Holding

-----------------------------------------------------------------------------
(* The invariant, a group of steps at a time                               *)

CoderStates == {"none", "spawned", "encoding", "reporting", "sent", "done"}

LEMMA StepType ==
  ASSUME TypeOK, NEW i \in Segs, NEW from, NEW to \in CoderStates, Step(i, from, to)
  PROVE  coder' \in [Segs -> CoderStates]
BY DEF TypeOK, Step, CoderStates

LEMMA AppendQueued ==
  ASSUME TypeOK, NEW i \in Segs, resultChan' = Append(resultChan, i)
  PROVE  resultChan' \in Seq(Segs) /\ Queued' = Queued \cup {i}
<1>1. resultChan \in Seq(Segs) /\ Len(resultChan) \in Nat
  BY DEF TypeOK
<1>2. /\ Len(resultChan') = Len(resultChan) + 1
      /\ \A k \in 1..Len(resultChan) : resultChan'[k] = resultChan[k]
      /\ resultChan'[Len(resultChan) + 1] = i
  BY <1>1
<1>3. QED
  BY <1>1, <1>2 DEF Queued

LEMMA TailQueued ==
  ASSUME TypeOK, resultChan # <<>>, resultChan' = Tail(resultChan)
  PROVE  /\ resultChan' \in Seq(Segs) /\ Head(resultChan) \in Segs
         /\ Queued = Queued' \cup {Head(resultChan)}
<1>1. resultChan \in Seq(Segs) /\ Len(resultChan) \in Nat \ {0}
  BY DEF TypeOK
<1>2. /\ Len(resultChan') = Len(resultChan) - 1
      /\ \A k \in 1..Len(resultChan') : resultChan'[k] = resultChan[k + 1]
      /\ Head(resultChan) = resultChan[1]
  BY <1>1
<1>3. \A k \in 1..Len(resultChan) : k = 1 \/ k - 1 \in 1..Len(resultChan')
  BY <1>1, <1>2
<1>4. \A x \in Queued : x = Head(resultChan) \/ x \in Queued'
  <2> SUFFICES ASSUME NEW k \in 1..Len(resultChan)
               PROVE  resultChan[k] = Head(resultChan) \/ resultChan[k] \in Queued'
    BY DEF Queued
  <2>1. CASE k = 1
    BY <1>2, <2>1
  <2>2. CASE k - 1 \in 1..Len(resultChan')
    <3>1. resultChan'[k - 1] = resultChan[k]
      BY <1>1, <1>2, <2>2
    <3>2. QED
      BY <2>2, <3>1 DEF Queued
  <2>3. QED
    BY <1>3, <2>1, <2>2
<1>5. \A x \in Queued' : x \in Queued
  BY <1>1, <1>2 DEF Queued
<1>6. Head(resultChan) \in Queued
  BY <1>1, <1>2 DEF Queued
<1>7. QED
  BY <1>1, <1>4, <1>5, <1>6

LEMMA CoderStep ==
  ASSUME IInv, NEW i \in Segs, Acquire(i) \/ Encode(i) \/ Send(i) \/ Release(i)
  PROVE  IInv'
<1> USE EncoderAssumption DEF IInv
<1>1. CASE Acquire(i)
  <2>a. SlotsHeld'
    <3>1. slots' = slots + 1 /\ slots < MaxParallel
      BY <1>1 DEF Acquire
    <3>2. Cardinality(Holding') = Cardinality(Holding) + 1
      BY <1>1, HoldingGrows DEF Acquire
    <3>3. QED
      BY <3>1, <3>2 DEF SlotsHeld
  <2>1. TypeOK'
    BY <1>1, <2>a, StepType DEF Acquire, TypeOK, SlotsHeld, CoderStates
  <2>2. VerdictKnown'
    BY <1>1, StepMoves DEF Acquire, VerdictKnown
  <2>3. ResultsKept'
    BY <1>1, StepMoves DEF Acquire, ResultsKept, Queued, TypeOK
  <2>4. QED
    BY <2>a, <2>1, <2>2, <2>3
<1>2. CASE Encode(i)
  <2>1. TypeOK'
    BY <1>2, StepType DEF Encode, TypeOK, CoderStates
  <2>2. SlotsHeld'
    BY <1>2, HoldingKept DEF Encode, SlotsHeld
  <2>3. PICK v \in {"ok", "failed"} : verdict' = [verdict EXCEPT ![i] = v]
    BY <1>2 DEF Encode
  <2>4. \A k \in Segs : verdict'[k] = IF k = i THEN v ELSE verdict[k]
    BY <2>3 DEF TypeOK
  <2>5. VerdictKnown'
    BY <1>2, <2>4, StepMoves DEF Encode, VerdictKnown
  <2>6. ResultsKept'
    BY <1>2, <2>4, StepMoves DEF Encode, ResultsKept, Queued, TypeOK, VerdictKnown
  <2>7. QED
    BY <2>1, <2>2, <2>5, <2>6
<1>3. CASE Send(i)
  <2>1. resultChan' \in Seq(Segs) /\ Queued' = Queued \cup {i}
    BY <1>3, AppendQueued DEF Send
  <2>2. TypeOK'
    BY <1>3, <2>1, StepType DEF Send, TypeOK, CoderStates
  <2>3. SlotsHeld'
    BY <1>3, HoldingKept DEF Send, SlotsHeld
  <2>4. VerdictKnown'
    BY <1>3, StepMoves DEF Send, VerdictKnown
  <2>5. ResultsKept'
    <3>1. /\ coder[i] = "reporting"
          /\ \A k \in Segs : coder'[k] = IF k = i THEN "sent" ELSE coder[k]
      BY <1>3, StepMoves DEF Send
    <3>2. UNCHANGED <<verdict, open, encoded, returned>>
      BY <1>3 DEF Send
    <3>3. Queued \subseteq Segs
      BY DEF Queued, TypeOK
    <3>4. \A k \in Queued' : coder'[k] \in {"sent", "done"}
      BY <2>1, <3>1, <3>3 DEF ResultsKept
    <3>5. returned' = "none" =>
            \A k \in Segs : coder'[k] \in {"sent", "done"} => k \in Queued' \cup encoded'
      BY <2>1, <3>1, <3>2 DEF ResultsKept
    <3>6. open'
      BY <3>1, <3>2 DEF ResultsKept, TypeOK
    <3>7. QED
      BY <3>2, <3>4, <3>5, <3>6 DEF ResultsKept
  <2>6. QED
    BY <2>2, <2>3, <2>4, <2>5
<1>4. CASE Release(i)
  <2>1. TypeOK' /\ SlotsHeld'
    BY <1>4, StepType, HoldingShrinks, HoldingFinite DEF Release, TypeOK, SlotsHeld, CoderStates
  <2>2. VerdictKnown'
    BY <1>4, StepMoves DEF Release, VerdictKnown
  <2>3. ResultsKept'
    BY <1>4, StepMoves DEF Release, ResultsKept, Queued, TypeOK
  <2>4. QED
    BY <2>1, <2>2, <2>3
<1>5. QED
  BY <1>1, <1>2, <1>3, <1>4

LEMMA CallerStep ==
  ASSUME IInv, Spawn \/ MkdirFails \/ Close \/ Collect \/ ReturnOk
  PROVE  IInv'
<1> USE EncoderAssumption DEF IInv
<1>1. CASE Spawn
  <2>1. \A i \in Segs : coder[i] = "none" /\ coder'[i] = "spawned"
    BY <1>1 DEF Spawn, NotSpawned
  <2>2. Holding = {} /\ Holding' = {}
    BY <2>1 DEF Holding
  <2>3. TypeOK' /\ SlotsHeld'
    BY <1>1, <2>2 DEF Spawn, TypeOK, SlotsHeld
  <2>4. VerdictKnown' /\ ResultsKept'
    BY <1>1, <2>1 DEF Spawn, VerdictKnown, ResultsKept, Queued, TypeOK
  <2>5. QED
    BY <2>3, <2>4
<1>2. CASE MkdirFails
  BY <1>2 DEF MkdirFails, TypeOK, SlotsHeld, VerdictKnown, ResultsKept, Holding, Queued
<1>3. CASE Close
  BY <1>3 DEF Close, TypeOK, SlotsHeld, VerdictKnown, ResultsKept, Holding, Queued
<1>4. CASE Collect
  <2> DEFINE i == Head(resultChan)
  <2>1. /\ resultChan' \in Seq(Segs) /\ i \in Segs
        /\ Queued = Queued' \cup {i}
    BY <1>4, TailQueued DEF Collect
  <2>2. UNCHANGED <<coder, verdict, slots, open>>
    BY <1>4 DEF Collect
  <2>3. SlotsHeld' /\ VerdictKnown'
    BY <2>2 DEF SlotsHeld, VerdictKnown, Holding
  <2>4. CASE verdict[i] = "ok"
    <3>1. encoded' = encoded \cup {i} /\ returned' = returned /\ returned = "none"
      BY <1>4, <2>4 DEF Collect
    <3>2. TypeOK' /\ ResultsKept'
      BY <2>1, <2>2, <2>4, <3>1 DEF TypeOK, ResultsKept
    <3>3. QED
      BY <2>3, <3>2
  <2>5. CASE verdict[i] # "ok"
    <3>1. encoded' = encoded /\ returned' = "error"
      BY <1>4, <2>5 DEF Collect
    <3>2. TypeOK' /\ ResultsKept'
      BY <2>1, <2>2, <3>1 DEF TypeOK, ResultsKept
    <3>3. QED
      BY <2>3, <3>2
  <2>6. QED
    BY <2>4, <2>5
<1>5. CASE ReturnOk
  <2>1. Queued = {}
    BY <1>5 DEF ReturnOk, Queued
  <2>2. encoded = Segs
    BY <1>5, <2>1 DEF ReturnOk, ResultsKept, TypeOK
  <2>3. QED
    BY <1>5, <2>2 DEF ReturnOk, TypeOK, SlotsHeld, VerdictKnown, ResultsKept, Holding, Queued
<1>6. QED
  BY <1>1, <1>2, <1>3, <1>4, <1>5

LEMMA InitInv == Init => IInv
<1> SUFFICES ASSUME Init PROVE IInv
  OBVIOUS
<1>1. Holding = {} /\ Queued = {}
  BY DEF Init, Holding, Queued
<1>2. SlotsHeld
  BY <1>1, EncoderAssumption, FS_EmptySet DEF Init, SlotsHeld
<1>3. TypeOK
  BY EncoderAssumption DEF Init, TypeOK
<1>4. QED
  BY <1>1, <1>2, <1>3 DEF Init, IInv, VerdictKnown, ResultsKept

LEMMA InvStep == IInv /\ [Next]_vars => IInv'
<1> SUFFICES ASSUME IInv, [Next]_vars PROVE IInv'
  OBVIOUS
<1>1. CASE UNCHANGED vars
  BY <1>1 DEF vars, IInv, TypeOK, SlotsHeld, VerdictKnown, ResultsKept, Holding, Queued
<1>2. QED
  BY <1>1, CoderStep, CallerStep DEF Next, Finished

LEMMA Invariant == Spec => []IInv
BY InitInv, InvStep, PTL DEF Spec

\* Every variable keeps its type; the semaphore is never over its limit.
THEOREM TypeCorrect == Spec => []TypeOK
<1>1. IInv => TypeOK
  BY DEF IInv
<1>2. QED
  BY <1>1, Invariant, PTL

-----------------------------------------------------------------------------
(* The refinement                                                          *)

LEMMA SomeSegment == 1 \in Segs
BY EncoderAssumption DEF Segs

LEMMA CoderMapOf ==
  ASSUME NEW i \in Segs
  PROVE  /\ coder[i] = "none" => CoderMap[i] = "none"
         /\ coder[i] = "spawned" => CoderMap[i] = "waiting"
         /\ coder[i] = "encoding" => CoderMap[i] = "writing"
         /\ coder[i] \in {"reporting", "sent", "done"} =>
              CoderMap[i] = IF verdict[i] = "ok" THEN "done" ELSE "failed"
BY DEF CoderMap

\* A step of one goroutine after its start changes neither what the call
\* returned nor whether it is under way.
LEMMA OutcomeKept ==
  ASSUME TypeOK, NEW i \in Segs, NEW from, NEW to, Step(i, from, to),
         from # "none", to # "none", UNCHANGED <<encoded, returned>>
  PROVE  OutcomeMap' = OutcomeMap
<1>1. ~NotSpawned /\ ~NotSpawned'
  BY StepMoves DEF NotSpawned
<1>2. QED
  BY <1>1 DEF OutcomeMap

LEMMA OthersMapped ==
  ASSUME NEW k \in Segs, coder'[k] = coder[k], verdict'[k] = verdict[k]
  PROVE  CoderMap'[k] = CoderMap[k]
BY DEF CoderMap

LEMMA MapMoves ==
  ASSUME NEW i \in Segs, \A k \in Segs \ {i} : CoderMap'[k] = CoderMap[k]
  PROVE  CoderMap' = [CoderMap EXCEPT ![i] = CoderMap'[i]]
<1>1. DOMAIN CoderMap = Segs /\ DOMAIN CoderMap' = Segs
  BY DEF CoderMap
<1>2. QED
  BY <1>1 DEF CoderMap

LEMMA CoderCall ==
  ASSUME IInv, NEW i \in Segs, Acquire(i) \/ Encode(i) \/ Send(i) \/ Release(i)
  PROVE  [Abstract!CallNext]_Abstract!callVars
<1> USE DEF IInv
<1>1. CASE Acquire(i)
  <2>1. Abstract!Writing \subseteq Holding
    BY CoderMapOf DEF Abstract!Writing, Holding, TypeOK, CoderMap
  <2>2. Cardinality(Abstract!Writing) <= Cardinality(Holding)
        /\ Cardinality(Abstract!Writing) \in Nat
    BY <2>1, HoldingFinite, FS_Subset, FS_CardinalityType
  <2>3. Cardinality(Abstract!Writing) < MaxParallel
    BY <1>1, <2>2, HoldingFinite, EncoderAssumption DEF Acquire, SlotsHeld
  <2>4. CoderMap[i] = "waiting" /\ CoderMap'[i] = "writing"
    BY <1>1, StepMoves DEF Acquire, CoderMap
  <2>5. \A k \in Segs \ {i} : CoderMap'[k] = CoderMap[k]
    BY <1>1, StepMoves, OthersMapped DEF Acquire
  <2>6. OutcomeMap' = OutcomeMap
    BY <1>1, OutcomeKept DEF Acquire
  <2>7. Abstract!Step(i, "waiting", "writing")
    BY <2>4, <2>5, <2>6, MapMoves DEF Abstract!Step
  <2>8. Abstract!Begin(i)
    BY <2>3, <2>7 DEF Abstract!Begin, Abstract!Cardinality, Cardinality
  <2>9. QED
    BY <2>8 DEF Abstract!CallNext
<1>2. CASE Encode(i)
  <2>1. PICK v \in {"ok", "failed"} : verdict' = [verdict EXCEPT ![i] = v]
    BY <1>2 DEF Encode
  <2>2. \A k \in Segs : verdict'[k] = IF k = i THEN v ELSE verdict[k]
    BY <2>1 DEF TypeOK
  <2>3. CoderMap[i] = "writing" /\ CoderMap'[i] \in {"done", "failed"}
    BY <1>2, StepMoves DEF Encode, CoderMap
  <2>4. \A k \in Segs \ {i} : CoderMap'[k] = CoderMap[k]
    BY <1>2, <2>2, StepMoves, OthersMapped DEF Encode
  <2>5. OutcomeMap' = OutcomeMap
    BY <1>2, OutcomeKept DEF Encode
  <2>6. Abstract!End(i)
    BY <2>3, <2>4, <2>5, MapMoves DEF Abstract!End, Abstract!Step
  <2>7. QED
    BY <2>6 DEF Abstract!CallNext
<1>3. CASE Send(i) \/ Release(i)
  <2>1. CoderMap'[i] = CoderMap[i]
    BY <1>3, StepMoves DEF Send, Release, CoderMap
  <2>2. \A k \in Segs \ {i} : CoderMap'[k] = CoderMap[k]
    BY <1>3, StepMoves, OthersMapped DEF Send, Release
  <2>3. CoderMap' = CoderMap
    BY <2>1, <2>2 DEF CoderMap
  <2>4. OutcomeMap' = OutcomeMap
    BY <1>3, OutcomeKept DEF Send, Release
  <2>5. QED
    BY <2>3, <2>4 DEF Abstract!callVars
<1>4. QED
  BY <1>1, <1>2, <1>3

LEMMA CallerCall ==
  ASSUME IInv, Spawn \/ MkdirFails \/ Close \/ Collect \/ ReturnOk
  PROVE  [Abstract!CallNext]_Abstract!callVars
<1> USE DEF IInv
<1>1. CASE Spawn
  <2>1. \A i \in Segs : coder[i] = "none" /\ coder'[i] = "spawned"
    BY <1>1 DEF Spawn, NotSpawned
  <2>2. CoderMap' = [i \in Segs |-> IF i \in Segs THEN "waiting" ELSE "none"]
    BY <2>1 DEF CoderMap
  <2>3. OutcomeMap = "idle" /\ OutcomeMap' = "running"
    BY <1>1, <2>1, SomeSegment DEF Spawn, NotSpawned, OutcomeMap
  <2>4. Abstract!Call(Segs)
    BY <2>2, <2>3, SomeSegment DEF Abstract!Call
  <2>5. QED
    BY <2>4 DEF Abstract!CallNext
<1>2. CASE MkdirFails
  <2>1. OutcomeMap = "idle" /\ OutcomeMap' = "error" /\ CoderMap' = CoderMap
    BY <1>2 DEF MkdirFails, OutcomeMap, CoderMap
  <2>2. QED
    BY <2>1 DEF Abstract!CallNext, Abstract!CannotStart, Abstract!Return
<1>3. CASE Close
  <2>1. OutcomeMap' = OutcomeMap /\ CoderMap' = CoderMap
    BY <1>3 DEF Close, OutcomeMap, NotSpawned, CoderMap
  <2>2. QED
    BY <2>1 DEF Abstract!callVars
<1>4. CASE Collect
  <2> DEFINE i == Head(resultChan)
  <2>1. i \in Segs /\ coder[i] \in {"sent", "done"}
    BY <1>4, TailQueued DEF Collect, ResultsKept
  <2>2. ~NotSpawned /\ ~NotSpawned' /\ returned = "none" /\ OutcomeMap = "running"
    BY <1>4, <2>1 DEF Collect, NotSpawned, OutcomeMap
  <2>3. CoderMap' = CoderMap
    BY <1>4 DEF Collect, CoderMap
  <2>4. CASE verdict[i] = "ok"
    <3>1. OutcomeMap' = "running"
      BY <1>4, <2>2, <2>4 DEF Collect, OutcomeMap
    <3>2. QED
      BY <2>2, <2>3, <3>1 DEF Abstract!callVars
  <2>5. CASE verdict[i] # "ok"
    <3>1. CoderMap[i] = "failed"
      BY <2>1, <2>5, CoderMapOf
    <3>2. OutcomeMap' = "error"
      BY <1>4, <2>5 DEF Collect, OutcomeMap
    <3>3. Abstract!ReturnError
      BY <2>1, <2>2, <2>3, <3>1, <3>2 DEF Abstract!ReturnError, Abstract!Return
    <3>4. QED
      BY <3>3 DEF Abstract!CallNext
  <2>6. QED
    BY <2>4, <2>5
<1>5. CASE ReturnOk
  <2>1. Queued = {}
    BY <1>5 DEF ReturnOk, Queued
  <2>2. encoded = Segs /\ \A i \in Segs : coder[i] = "done" /\ verdict[i] = "ok"
    BY <1>5, <2>1 DEF ReturnOk, ResultsKept, TypeOK
  <2>3. \A i \in Segs : CoderMap[i] = "done"
    BY <2>2, CoderMapOf
  <2>4. OutcomeMap = "running"
    BY <1>5, <2>2, SomeSegment DEF ReturnOk, OutcomeMap, NotSpawned
  <2>5. OutcomeMap' = "ok" /\ CoderMap' = CoderMap
    BY <1>5, <2>2 DEF ReturnOk, OutcomeMap, CoderMap
  <2>6. Abstract!ReturnOk
    BY <2>3, <2>4, <2>5 DEF Abstract!ReturnOk, Abstract!Return
  <2>7. QED
    BY <2>6 DEF Abstract!CallNext
<1>6. QED
  BY <1>1, <1>2, <1>3, <1>4, <1>5

\* Whatever order the goroutines run and end in, encodeSegments behaves as the
\* call that ProcessVideo relies on: nil only if all is encoded, an error only
\* if something failed, at most MaxParallel encoders at work.
THEOREM EncoderImplementsCall == Spec => ImplementsCall
<1>1. Init => Abstract!CallInit
  <2> SUFFICES ASSUME Init PROVE Abstract!CallInit
    OBVIOUS
  <2>1. CoderMap = [i \in Segs |-> "none"]
    BY DEF Init, CoderMap
  <2>2. OutcomeMap = "idle"
    BY DEF Init, OutcomeMap, NotSpawned
  <2>3. QED
    BY <2>1, <2>2 DEF Abstract!CallInit
<1>2. IInv /\ [Next]_vars => [Abstract!CallNext]_Abstract!callVars
  <2> SUFFICES ASSUME IInv, [Next]_vars
               PROVE  [Abstract!CallNext]_Abstract!callVars
    OBVIOUS
  <2>1. CASE UNCHANGED vars
    BY <2>1 DEF vars, Abstract!callVars, CoderMap, OutcomeMap, NotSpawned
  <2>2. QED
    BY <2>1, CoderCall, CallerCall DEF Next, Finished
<1>3. QED
  BY <1>1, <1>2, Invariant, PTL DEF Spec, ImplementsCall, Abstract!CallSpec

=============================================================================
