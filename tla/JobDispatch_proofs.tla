------------------------- MODULE JobDispatch_proofs -------------------------
(***************************************************************************)
(* Proofs about JobDispatch, for every number of services, messages, jobs, *)
(* slots and channel capacities, and every set of faults: types, slots,    *)
(* locks and the lease they implement; then what the channels hold, when a *)
(* job is given up, and that no task is spawned after a stop.              *)
(***************************************************************************)
EXTENDS JobDispatch, FiniteSetTheorems, TLAPS

-----------------------------------------------------------------------------
(* Type correctness                                                        *)

LEMMA StageValues ==
  /\ {"unsent", "inbox", "taken", "missed", "unparsed", "skipped", "released"} \subseteq Stages
  /\ {"offered", "jobChan", "fwd", "jobs", "hand", "checking", "encoding"} \subseteq Stages
  /\ {"done", "failed", "dropped", "lost"} \subseteq Stages
  /\ {"down", "running", "stopping", "stopped", "cancelled"} \subseteq Modes
BY DEF Stages, Before, Claimed, InFlight, Waiting, Tasks, Settled, Unclaimed, Modes

\* A claim that moves stays within the stages.
LEMMA MoveType ==
  ASSUME TypeOK, NEW s \in Services, NEW m \in Msgs,
         NEW from, NEW to \in Stages, Move(s, m, from, to)
  PROVE  stage' \in [Services -> [Msgs -> Stages]]
BY DEF TypeOK, Move

\* A channel that is appended to stays a channel.
LEMMA AppendType ==
  ASSUME NEW q \in [Services -> Seq(Msgs)], NEW s \in Services, NEW m \in Msgs
  PROVE  [q EXCEPT ![s] = Append(@, m)] \in [Services -> Seq(Msgs)]
<1>1. Append(q[s], m) \in Seq(Msgs)
  OBVIOUS
<1>2. QED
  BY <1>1

LEMMA PubSubType ==
  ASSUME TypeOK, NEW s \in Services,
         \/ \E m \in Msgs : Publish(m)
         \/ Subscribe(s)
         \/ ConnLost(s)
         \/ Receive(s)
  PROVE  TypeOK'
<1> USE DEF TypeOK, process, pubsub, chans, slots, leases
<1>1. CASE \E m \in Msgs : Publish(m)
  BY <1>1, StageValues DEF Publish
<1>2. CASE Subscribe(s)
  BY <1>2 DEF Subscribe
<1>3. CASE ConnLost(s)
  BY <1>3, StageValues DEF ConnLost
<1>4. CASE Receive(s)
  <2>1. Head(inbox[s]) \in Msgs /\ Tail(inbox[s]) \in Seq(Msgs)
    BY <1>4 DEF Receive
  <2>2. stage' \in [Services -> [Msgs -> Stages]]
    BY <1>4, <2>1, StageValues, MoveType DEF Receive
  <2>3. QED
    BY <1>4, <2>1, <2>2 DEF Receive
<1>5. QED
  BY <1>1, <1>2, <1>3, <1>4

LEMMA LockType ==
  ASSUME TypeOK, NEW s \in Services, NEW m \in Msgs,
         \/ LockAcquired(s, m)
         \/ LockRefused(s, m)
         \/ LockError(s, m)
         \/ SendToJobChan(s, m)
         \/ AbandonOffer(s, m)
  PROVE  TypeOK'
<1> USE DispatchAssumption DEF process, pubsub, chans, slots, leases
<1>0. <<s, m>> \in Claims /\ JobOf[m] \in Jobs /\ lock[JobOf[m]] \in Claims \cup {Free}
  BY DEF Claims, TypeOK
<1>a. stage' \in [Services -> [Msgs -> Stages]]
  BY StageValues, MoveType
  DEF LockAcquired, LockRefused, LockError, SendToJobChan, AbandonOffer
<1>1. CASE LockAcquired(s, m)
  BY <1>0, <1>1, <1>a DEF LockAcquired, TypeOK
<1>2. CASE LockRefused(s, m)
  BY <1>2, <1>a DEF LockRefused, TypeOK
<1>3. CASE LockError(s, m)
  <2>1. lock' \in [Jobs -> Claims \cup {Free}]
    <3>1. CASE UNCHANGED lock
      BY <3>1 DEF TypeOK
    <3>2. CASE lock' = [lock EXCEPT ![JobOf[m]] = <<s, m>>]
      BY <1>0, <3>2 DEF TypeOK
    <3>3. QED
      BY <1>3, <3>1, <3>2 DEF LockError
  <2>2. QED
    BY <1>3, <1>a, <2>1 DEF LockError, TypeOK
<1>4. CASE SendToJobChan(s, m)
  BY <1>4, <1>a, AppendType DEF SendToJobChan, TypeOK
<1>5. CASE AbandonOffer(s, m)
  <2>1. lock' \in [Jobs -> Claims \cup {Free}]
    BY <1>0, <1>5 DEF AbandonOffer, TypeOK
  <2>2. lapsed' \in SUBSET Claims
    BY <1>0, <1>5 DEF AbandonOffer, TypeOK
  <2>3. QED
    BY <1>5, <1>a, <2>1, <2>2 DEF AbandonOffer, TypeOK
<1>6. QED
  BY <1>1, <1>2, <1>3, <1>4, <1>5

LEMMA ForwarderType ==
  ASSUME TypeOK, NEW s \in Services,
         \/ ForwardTake(s)
         \/ ForwarderStop(s)
         \/ \E m \in Msgs : ForwardPut(s, m)
  PROVE  TypeOK'
<1> USE DEF process, pubsub, chans, slots, leases
<1>1. CASE ForwardTake(s)
  <2>1. Head(jobChan[s]) \in Msgs /\ Tail(jobChan[s]) \in Seq(Msgs)
    BY <1>1 DEF ForwardTake, TypeOK
  <2>2. stage' \in [Services -> [Msgs -> Stages]]
    BY <1>1, <2>1, StageValues, MoveType DEF ForwardTake
  <2>3. QED
    BY <1>1, <2>1, <2>2 DEF ForwardTake, TypeOK
<1>2. CASE ForwarderStop(s)
  BY <1>2, StageValues DEF ForwarderStop, TypeOK
<1>3. CASE \E m \in Msgs : ForwardPut(s, m)
  <2>1. PICK m \in Msgs : ForwardPut(s, m)
    BY <1>3
  <2>2. stage' \in [Services -> [Msgs -> Stages]]
    BY <2>1, StageValues, MoveType DEF ForwardPut
  <2>3. QED
    BY <2>1, <2>2, AppendType DEF ForwardPut, TypeOK
<1>4. QED
  BY <1>1, <1>2, <1>3

\* A goroutine counted in workers is there to be stopped.
LEMMA IdleWorkerCounted ==
  ASSUME TypeOK, NEW s \in Services, IdleWorker(s)
  PROVE  workers[s] - 1 \in Nat
<1>1. IsFiniteSet(At(s, {"hand"}))
  BY DispatchAssumption, FS_Subset DEF At
<1>2. Cardinality(At(s, {"hand"})) \in Nat
  BY <1>1, FS_CardinalityType
<1>3. workers[s] \in Nat
  BY DEF TypeOK
<1>4. QED
  BY <1>2, <1>3 DEF IdleWorker

LEMMA RunWorkerType ==
  ASSUME TypeOK, NEW s \in Services, RunWorker(s)
  PROVE  TypeOK'
<1> USE DEF process, pubsub, chans, slots, leases
<1>1. CASE WorkerTake(s)
  <2>1. Head(jobs[s]) \in Msgs /\ Tail(jobs[s]) \in Seq(Msgs)
    BY <1>1 DEF WorkerTake, TypeOK
  <2>2. stage' \in [Services -> [Msgs -> Stages]]
    BY <1>1, <2>1, StageValues, MoveType DEF WorkerTake
  <2>3. QED
    BY <1>1, <2>1, <2>2 DEF WorkerTake, TypeOK
<1>2. CASE WorkerStop(s)
  BY <1>2, IdleWorkerCounted DEF WorkerStop, TypeOK
<1>3. CASE \E m \in Msgs : StartTask(s, m) \/ PutBack(s, m) \/ Drop(s, m)
  <2>1. PICK m \in Msgs : StartTask(s, m) \/ PutBack(s, m) \/ Drop(s, m)
    BY <1>3
  <2>2. stage' \in [Services -> [Msgs -> Stages]]
    BY <2>1, StageValues, MoveType DEF StartTask, PutBack, Drop
  <2>3. CASE PutBack(s, m)
    <3>1. jobs' \in [Services -> Seq(Msgs)]
      BY <2>3, AppendType DEF PutBack, TypeOK
    <3>2. QED
      BY <2>2, <2>3, <3>1 DEF PutBack, TypeOK
  <2>4. CASE StartTask(s, m)
    BY <2>2, <2>4 DEF StartTask, TypeOK
  <2>5. CASE Drop(s, m)
    BY <2>2, <2>5 DEF Drop, TypeOK
  <2>6. QED
    BY <2>1, <2>3, <2>4, <2>5
<1>4. QED
  BY <1>1, <1>2, <1>3 DEF RunWorker

LEMMA TaskType ==
  ASSUME TypeOK, NEW s \in Services, NEW m \in Msgs,
         AcceptTask(s, m) \/ RefuseTask(s, m) \/ FinishTask(s, m)
  PROVE  TypeOK'
<1> USE DEF process, pubsub, chans, slots, leases
<1>1. stage' \in [Services -> [Msgs -> Stages]]
  BY StageValues, MoveType DEF AcceptTask, RefuseTask, FinishTask
<1>2. exiting' \in [Services -> Nat]
  BY DEF AcceptTask, RefuseTask, FinishTask, TypeOK
<1>3. jobs' \in [Services -> Seq(Msgs)]
  <2>1. CASE UNCHANGED jobs
    BY <2>1 DEF TypeOK
  <2>2. CASE jobs' = [jobs EXCEPT ![s] = Append(@, m)]
    BY <2>2, AppendType DEF TypeOK
  <2>3. QED
    BY <2>1, <2>2 DEF AcceptTask, RefuseTask, FinishTask
<1>4. QED
  BY <1>1, <1>2, <1>3 DEF AcceptTask, RefuseTask, FinishTask, TypeOK

\* A slot is released by a task that holds it.  This is where the type of
\* sem needs the account of the slots.
LEMMA ReleaseSlotType ==
  ASSUME TypeOK, SlotsAccounted, NEW s \in Services, ReleaseSlot(s)
  PROVE  TypeOK'
<1> USE DEF process, pubsub, chans, slots, leases
<1>1. IsFiniteSet(At(s, Tasks))
  BY DispatchAssumption, FS_Subset DEF At
<1>2. Cardinality(At(s, Tasks)) \in Nat
  BY <1>1, FS_CardinalityType
<1>3. exiting[s] - 1 \in Nat /\ sem[s] - 1 \in Nat
  BY <1>2 DEF ReleaseSlot, SlotsAccounted, TypeOK
<1>4. QED
  BY <1>3 DEF ReleaseSlot, TypeOK

LEMMA DownType ==
  ASSUME TypeOK, NEW s \in Services, Down(s)
  PROVE  TypeOK'
<1> USE DEF process, pubsub, chans, slots, leases
<1>1. stage' \in [Services -> [Msgs -> Stages]]
  <2>1. \A m \in Msgs : (CASE stage[s][m] \in InFlight -> "lost"
                         [] stage[s][m] \in {"inbox", "taken"} -> "missed"
                         [] OTHER -> stage[s][m]) \in Stages
    BY StageValues DEF TypeOK
  <2>2. QED
    BY <2>1 DEF Down, TypeOK
<1>2. /\ inbox' \in [Services -> Seq(Msgs)]
      /\ jobChan' \in [Services -> Seq(Msgs)]
      /\ jobs' \in [Services -> Seq(Msgs)]
  BY DEF Down, TypeOK
<1>3. /\ mode' \in [Services -> Modes]
      /\ workers' \in [Services -> Nat]
      /\ sem' \in [Services -> Nat]
      /\ exiting' \in [Services -> Nat]
  BY StageValues DEF Down, TypeOK
<1>4. linked' \in [Services -> BOOLEAN] /\ forwarder' \in [Services -> BOOLEAN]
  BY DEF Down, TypeOK
<1>5. lock' \in [Jobs -> Claims \cup {Free}] /\ lapsed' \in SUBSET Claims
  BY DEF Down, TypeOK, Claims
<1>6. QED
  BY <1>1, <1>2, <1>3, <1>4, <1>5 DEF TypeOK

LEMMA MainType ==
  ASSUME TypeOK, NEW s \in Services, Main(s) \/ Crash(s)
  PROVE  TypeOK'
<1> USE DispatchAssumption, StageValues DEF process, pubsub, chans, slots, leases
<1>1. CASE Start(s)
  BY <1>1 DEF Start, TypeOK
<1>2. CASE Stop(s)
  BY <1>2 DEF Stop, TypeOK
<1>3. CASE StopReturns(s)
  BY <1>3 DEF StopReturns, TypeOK
<1>4. CASE Cancel(s)
  BY <1>4 DEF Cancel, TypeOK
<1>5. CASE Exit(s) \/ Crash(s)
  BY <1>5, DownType DEF Exit, Crash
<1>6. QED
  BY <1>1, <1>2, <1>3, <1>4, <1>5 DEF Main

LEMMA ExpiryType ==
  ASSUME TypeOK, NEW j \in Jobs, LockExpires(j)
  PROVE  TypeOK'
<1>1. lapsed' \in SUBSET Claims
  BY DEF LockExpires, TypeOK
<1>2. QED
  BY <1>1 DEF LockExpires, TypeOK, process, pubsub, chans, slots

-----------------------------------------------------------------------------
(* The account of the semaphore's slots                                    *)

LEMMA TasksFinite ==
  ASSUME NEW s \in Services
  PROVE  IsFiniteSet(At(s, Tasks)) /\ Cardinality(At(s, Tasks)) \in Nat
BY DispatchAssumption, FS_Subset, FS_CardinalityType DEF At

\* A task is spawned ...
LEMMA TaskSpawned ==
  ASSUME TypeOK, NEW s \in Services, NEW m \in Msgs, NEW from, NEW to,
         Move(s, m, from, to), from \notin Tasks, to \in Tasks
  PROVE  /\ Cardinality(At(s, Tasks)') = Cardinality(At(s, Tasks)) + 1
         /\ \A t \in Services \ {s} : At(t, Tasks)' = At(t, Tasks)
<1>1. At(s, Tasks)' = At(s, Tasks) \cup {m} /\ m \notin At(s, Tasks)
  BY DEF At, Move, TypeOK
<1>2. Cardinality(At(s, Tasks)') = Cardinality(At(s, Tasks)) + 1
  BY <1>1, TasksFinite, FS_AddElement
<1>3. QED
  BY <1>2 DEF At, Move, TypeOK

\* ... and returns from processJob.
LEMMA TaskOver ==
  ASSUME TypeOK, NEW s \in Services, NEW m \in Msgs, NEW from, NEW to,
         Move(s, m, from, to), from \in Tasks, to \notin Tasks
  PROVE  /\ Cardinality(At(s, Tasks)') = Cardinality(At(s, Tasks)) - 1
         /\ \A t \in Services \ {s} : At(t, Tasks)' = At(t, Tasks)
<1>1. At(s, Tasks)' = At(s, Tasks) \ {m} /\ m \in At(s, Tasks)
  BY DEF At, Move, TypeOK
<1>2. Cardinality(At(s, Tasks)') = Cardinality(At(s, Tasks)) - 1
  BY <1>1, TasksFinite, FS_RemoveElement
<1>3. QED
  BY <1>2 DEF At, Move, TypeOK

\* Any other move leaves the tasks alone.
LEMMA TasksKept ==
  ASSUME TypeOK, NEW s \in Services, NEW m \in Msgs, NEW from, NEW to,
         Move(s, m, from, to), from \in Tasks <=> to \in Tasks
  PROVE  \A t \in Services : At(t, Tasks)' = At(t, Tasks)
BY DEF At, Move, TypeOK

\* The account is kept by a step that touches neither tasks nor slots.
LEMMA SlotsUntouched ==
  ASSUME SlotsAccounted, UNCHANGED slots,
         \A t \in Services : At(t, Tasks)' = At(t, Tasks)
  PROVE  SlotsAccounted'
BY DEF SlotsAccounted, slots

LEMMA SlotsTaskSteps ==
  ASSUME TypeOK, SlotsAccounted, NEW s \in Services, NEW m \in Msgs,
         \/ StartTask(s, m)
         \/ AcceptTask(s, m)
         \/ RefuseTask(s, m)
         \/ FinishTask(s, m)
         \/ ReleaseSlot(s)
  PROVE  SlotsAccounted'
<1> USE TasksFinite DEF SlotsAccounted
<1>0. sem \in [Services -> Nat] /\ exiting \in [Services -> Nat] /\ WorkerCount \in Nat
  BY DispatchAssumption DEF TypeOK
<1>1. CASE StartTask(s, m)
  <2>1. /\ Cardinality(At(s, Tasks)') = Cardinality(At(s, Tasks)) + 1
        /\ \A t \in Services \ {s} : At(t, Tasks)' = At(t, Tasks)
    BY <1>1, TaskSpawned DEF StartTask, Tasks
  <2>2. sem' = [sem EXCEPT ![s] = @ + 1] /\ exiting' = exiting /\ sem[s] < WorkerCount
    BY <1>1 DEF StartTask
  <2>3. QED
    BY <1>0, <2>1, <2>2
<1>2. CASE AcceptTask(s, m)
  <2>1. \A t \in Services : At(t, Tasks)' = At(t, Tasks)
    BY <1>2, TasksKept DEF AcceptTask, Tasks
  <2>2. QED
    BY <1>2, <2>1, SlotsUntouched DEF AcceptTask
<1>3. CASE RefuseTask(s, m) \/ FinishTask(s, m)
  <2>1. /\ Cardinality(At(s, Tasks)') = Cardinality(At(s, Tasks)) - 1
        /\ \A t \in Services \ {s} : At(t, Tasks)' = At(t, Tasks)
    BY <1>3, TaskOver DEF RefuseTask, FinishTask, Tasks
  <2>2. exiting' = [exiting EXCEPT ![s] = @ + 1] /\ sem' = sem
    BY <1>3 DEF RefuseTask, FinishTask
  <2>3. QED
    BY <1>0, <2>1, <2>2
<1>4. CASE ReleaseSlot(s)
  <2>1. \A t \in Services : At(t, Tasks)' = At(t, Tasks)
    BY <1>4 DEF ReleaseSlot, At
  <2>2. /\ exiting' = [exiting EXCEPT ![s] = @ - 1]
        /\ sem' = [sem EXCEPT ![s] = @ - 1]
        /\ exiting[s] > 0
    BY <1>4 DEF ReleaseSlot
  <2>3. QED
    BY <1>0, <2>1, <2>2
<1>5. QED
  BY <1>1, <1>2, <1>3, <1>4

LEMMA SlotsOtherSteps ==
  ASSUME TypeOK, SlotsAccounted, NEW s \in Services,
         \/ \E m \in Msgs : Publish(m)
         \/ Subscriber(s)
         \/ ConnLost(s)
         \/ Forwarder(s)
         \/ WorkerTake(s) \/ WorkerStop(s)
         \/ \E m \in Msgs : PutBack(s, m) \/ Drop(s, m)
  PROVE  SlotsAccounted'
<1> SUFFICES UNCHANGED slots /\ \A t \in Services : At(t, Tasks)' = At(t, Tasks)
  BY SlotsUntouched
<1> USE DEF Tasks
<1>1. CASE \E m \in Msgs : Publish(m)
  <2>1. PICK m \in Msgs : Publish(m)
    BY <1>1
  <2>2. ASSUME NEW t \in Services PROVE At(t, Tasks)' = At(t, Tasks)
    BY <2>1 DEF At, Publish, TypeOK
  <2>3. QED
    BY <2>1, <2>2 DEF Publish
<1>2. CASE \E m \in Msgs : \/ LockAcquired(s, m) \/ LockRefused(s, m)
                            \/ LockError(s, m) \/ SendToJobChan(s, m)
                            \/ AbandonOffer(s, m)
  <2>1. PICK m \in Msgs : \/ LockAcquired(s, m) \/ LockRefused(s, m)
                          \/ LockError(s, m) \/ SendToJobChan(s, m)
                          \/ AbandonOffer(s, m)
    BY <1>2
  <2>2. UNCHANGED slots
    BY <2>1 DEF LockAcquired, LockRefused, LockError, SendToJobChan, AbandonOffer
  <2>3. \A t \in Services : At(t, Tasks)' = At(t, Tasks)
    BY <2>1, TasksKept
    DEF LockAcquired, LockRefused, LockError, SendToJobChan, AbandonOffer
  <2>4. QED
    BY <2>2, <2>3
<1>3. CASE Subscribe(s) \/ WorkerStop(s)
  BY <1>3 DEF Subscribe, WorkerStop, At
<1>4. CASE Receive(s)
  <2>1. Head(inbox[s]) \in Msgs
    BY <1>4 DEF Receive, TypeOK
  <2>2. QED
    BY <1>4, <2>1, TasksKept DEF Receive
<1>5. CASE ConnLost(s)
  <2>1. ASSUME NEW t \in Services PROVE At(t, Tasks)' = At(t, Tasks)
    BY <1>5 DEF At, ConnLost, TypeOK
  <2>2. QED
    BY <1>5, <2>1 DEF ConnLost
<1>6. CASE ForwardTake(s)
  <2>1. Head(jobChan[s]) \in Msgs
    BY <1>6 DEF ForwardTake, TypeOK
  <2>2. QED
    BY <1>6, <2>1, TasksKept DEF ForwardTake
<1>7. CASE ForwarderStop(s)
  <2>1. ASSUME NEW t \in Services PROVE At(t, Tasks)' = At(t, Tasks)
    BY <1>7 DEF At, ForwarderStop, TypeOK
  <2>2. QED
    BY <1>7, <2>1 DEF ForwarderStop
<1>8. CASE WorkerTake(s)
  <2>1. Head(jobs[s]) \in Msgs
    BY <1>8 DEF WorkerTake, TypeOK
  <2>2. QED
    BY <1>8, <2>1, TasksKept DEF WorkerTake
<1>9. CASE \E m \in Msgs : ForwardPut(s, m) \/ PutBack(s, m) \/ Drop(s, m)
  <2>1. PICK m \in Msgs : ForwardPut(s, m) \/ PutBack(s, m) \/ Drop(s, m)
    BY <1>9
  <2>2. QED
    BY <2>1, TasksKept DEF ForwardPut, PutBack, Drop
<1>10. QED
  BY <1>1, <1>2, <1>3, <1>4, <1>5, <1>6, <1>7, <1>8, <1>9 DEF Subscriber, Forwarder

LEMMA SlotsMainSteps ==
  ASSUME TypeOK, SlotsAccounted, NEW s \in Services,
         Main(s) \/ Crash(s) \/ \E j \in Jobs : LockExpires(j)
  PROVE  SlotsAccounted'
<1>1. CASE Down(s)
  <2>1. At(s, Tasks)' = {}
    BY <1>1 DEF Down, At, Tasks, InFlight, TypeOK
  <2>2. \A t \in Services \ {s} : At(t, Tasks)' = At(t, Tasks)
    BY <1>1 DEF Down, At, TypeOK
  <2>3. /\ sem' = [sem EXCEPT ![s] = 0] /\ exiting' = [exiting EXCEPT ![s] = 0]
        /\ sem \in [Services -> Nat] /\ exiting \in [Services -> Nat]
    BY <1>1 DEF Down, TypeOK
  <2>4. Cardinality({}) = 0 /\ WorkerCount \in Nat
    BY FS_EmptySet, DispatchAssumption
  <2>5. ASSUME NEW t \in Services
        PROVE  /\ sem'[t] = Cardinality(At(t, Tasks)') + exiting'[t]
               /\ sem'[t] <= WorkerCount
    <3>1. CASE t = s
      <4>1. sem'[t] = 0 /\ exiting'[t] = 0 /\ Cardinality(At(t, Tasks)') = 0
        BY <2>1, <2>3, <2>4, <3>1
      <4>2. QED
        BY <2>4, <4>1
    <3>2. CASE t # s
      BY <2>2, <2>3, <3>2 DEF SlotsAccounted
    <3>3. QED
      BY <3>1, <3>2
  <2>6. QED
    BY <2>5 DEF SlotsAccounted
<1>2. CASE Start(s) \/ Stop(s) \/ StopReturns(s) \/ Cancel(s)
  BY <1>2, SlotsUntouched DEF Start, Stop, StopReturns, Cancel, At
<1>3. CASE \E j \in Jobs : LockExpires(j)
  BY <1>3, SlotsUntouched DEF LockExpires, At
<1>4. QED
  BY <1>1, <1>2, <1>3 DEF Main, Exit, Crash

-----------------------------------------------------------------------------
(* Type and slots together, for every step                                 *)

LEMMA InitHolds == Init => TypeOK /\ SlotsAccounted
<1> SUFFICES ASSUME Init PROVE TypeOK /\ SlotsAccounted
  OBVIOUS
<1>1. TypeOK
  BY StageValues DEF Init, TypeOK
<1>2. \A s \in Services : At(s, Tasks) = {}
  BY DEF Init, At, Tasks
<1>3. SlotsAccounted
  <2>1. Cardinality({}) = 0 /\ WorkerCount \in Nat
    BY FS_EmptySet, DispatchAssumption
  <2>2. \A s \in Services : sem[s] = 0 /\ exiting[s] = 0
    BY DEF Init
  <2>3. QED
    BY <1>2, <2>1, <2>2 DEF SlotsAccounted
<1>4. QED
  BY <1>1, <1>3

LEMMA TypeStep == TypeOK /\ SlotsAccounted /\ [Next]_vars => TypeOK'
<1> SUFFICES ASSUME TypeOK, SlotsAccounted, [Next]_vars PROVE TypeOK'
  OBVIOUS
<1>1. CASE \E m \in Msgs : Publish(m)
  <2>1. CASE Services = {}
    BY <1>1, <2>1 DEF Publish, TypeOK, process, chans, slots, leases
  <2>2. CASE Services # {}
    BY <1>1, <2>2, PubSubType
  <2>3. QED
    BY <2>1, <2>2
<1>2. ASSUME NEW s \in Services, Subscriber(s) PROVE TypeOK'
  BY <1>2, PubSubType, LockType DEF Subscriber
<1>3. ASSUME NEW s \in Services, Forwarder(s) PROVE TypeOK'
  BY <1>3, ForwarderType DEF Forwarder
<1>4. ASSUME NEW s \in Services, RunWorker(s) PROVE TypeOK'
  BY <1>4, RunWorkerType
<1>5. ASSUME NEW s \in Services, Task(s) PROVE TypeOK'
  BY <1>5, TaskType, ReleaseSlotType DEF Task
<1>6. ASSUME NEW s \in Services, Main(s) \/ Crash(s) PROVE TypeOK'
  BY <1>6, MainType
<1>7. ASSUME NEW s \in Services, ConnLost(s) PROVE TypeOK'
  BY <1>7, PubSubType
<1>8. CASE \E j \in Jobs : LockExpires(j)
  BY <1>8, ExpiryType
<1>9. CASE UNCHANGED vars
  BY <1>9 DEF vars, process, pubsub, chans, slots, leases, TypeOK
<1>10. QED
  BY <1>1, <1>2, <1>3, <1>4, <1>5, <1>6, <1>7, <1>8, <1>9 DEF Next

LEMMA SlotsStep == TypeOK /\ SlotsAccounted /\ [Next]_vars => SlotsAccounted'
<1> SUFFICES ASSUME TypeOK, SlotsAccounted, [Next]_vars PROVE SlotsAccounted'
  OBVIOUS
<1>1. CASE Services = {}
  BY <1>1 DEF SlotsAccounted
<1>2. CASE \E m \in Msgs : Publish(m)
  BY <1>1, <1>2, SlotsOtherSteps
<1>3. ASSUME NEW s \in Services, Subscriber(s) \/ Forwarder(s) \/ ConnLost(s)
      PROVE  SlotsAccounted'
  BY <1>3, SlotsOtherSteps
<1>4. ASSUME NEW s \in Services, RunWorker(s) PROVE SlotsAccounted'
  BY <1>4, SlotsOtherSteps, SlotsTaskSteps DEF RunWorker
<1>5. ASSUME NEW s \in Services, Task(s) PROVE SlotsAccounted'
  <2>1. CASE ReleaseSlot(s)
    <3>1. CASE Msgs = {}
      <4>1. \A t \in Services : At(t, Tasks)' = At(t, Tasks)
        BY <2>1 DEF ReleaseSlot, At
      <4>2. WorkerCount \in Nat /\ Cardinality(At(s, Tasks)) \in Nat
        BY DispatchAssumption, TasksFinite
      <4>3. QED
        BY <2>1, <4>1, <4>2 DEF ReleaseSlot, SlotsAccounted, TypeOK
    <3>2. CASE Msgs # {}
      BY <2>1, <3>2, SlotsTaskSteps
    <3>3. QED
      BY <3>1, <3>2
  <2>2. CASE \E m \in Msgs : AcceptTask(s, m) \/ RefuseTask(s, m) \/ FinishTask(s, m)
    BY <2>2, SlotsTaskSteps
  <2>3. QED
    BY <1>5, <2>1, <2>2 DEF Task
<1>6. ASSUME NEW s \in Services, Main(s) \/ Crash(s) PROVE SlotsAccounted'
  BY <1>6, SlotsMainSteps
<1>7. CASE \E j \in Jobs : LockExpires(j)
  BY <1>1, <1>7, SlotsMainSteps
<1>8. CASE UNCHANGED vars
  BY <1>8, SlotsUntouched DEF vars, At
<1>9. QED
  BY <1>1, <1>2, <1>3, <1>4, <1>5, <1>6, <1>7, <1>8 DEF Next

\* The type invariant of JobDispatch holds for every instance.
THEOREM TypeCorrect == Spec => []TypeOK
<1>1. TypeOK /\ SlotsAccounted /\ [Next]_vars => (TypeOK /\ SlotsAccounted)'
  BY TypeStep, SlotsStep
<1>2. QED
  BY InitHolds, <1>1, PTL DEF Spec

\* The semaphore counts the task goroutines, and never exceeds WorkerCount.
THEOREM SlotsCorrect == Spec => []SlotsAccounted
<1>1. TypeOK /\ SlotsAccounted /\ [Next]_vars => (TypeOK /\ SlotsAccounted)'
  BY TypeStep, SlotsStep
<1>2. QED
  BY InitHolds, <1>1, PTL DEF Spec

\* A service never encodes more than WorkerCount videos at once, whatever the
\* put-backs, the CPU refusals and the late releases of slots.
THEOREM EncodingsBounded == Spec => []AtMostWorkerCount
<1>1. TypeOK /\ SlotsAccounted => AtMostWorkerCount
  <2> SUFFICES ASSUME TypeOK, SlotsAccounted, NEW s \in Services
               PROVE  Cardinality(At(s, {"encoding"})) <= WorkerCount
    BY DEF AtMostWorkerCount
  <2>1. At(s, {"encoding"}) \subseteq At(s, Tasks)
    BY DEF At, Tasks
  <2>2. /\ Cardinality(At(s, {"encoding"})) <= Cardinality(At(s, Tasks))
        /\ Cardinality(At(s, {"encoding"})) \in Nat
    BY <2>1, TasksFinite, FS_Subset, FS_CardinalityType
  <2>3. QED
    BY <2>2, TasksFinite, DispatchAssumption DEF SlotsAccounted, TypeOK
<1>2. QED
  BY <1>1, TypeCorrect, SlotsCorrect, PTL

-----------------------------------------------------------------------------
(* Locks                                                                   *)

\* A step that leaves Redis' locks alone and claims nothing.
LEMMA LocksUntouched ==
  ASSUME ClaimHoldsLock, UNCHANGED leases,
         \A s \in Services, m \in Msgs :
           stage'[s][m] \in Claimed => stage[s][m] \in Claimed
  PROVE  ClaimHoldsLock'
BY DEF ClaimHoldsLock, leases

LEMMA ClaimedMove ==
  ASSUME TypeOK, NEW s \in Services, NEW m \in Msgs, NEW from, NEW to,
         Move(s, m, from, to), to \in Claimed => from \in Claimed
  PROVE  \A t \in Services, n \in Msgs :
           stage'[t][n] \in Claimed => stage[t][n] \in Claimed
BY DEF Move, TypeOK

LEMMA LockSteps ==
  ASSUME TypeOK, ClaimHoldsLock, NEW s \in Services, NEW m \in Msgs,
         \/ LockAcquired(s, m)
         \/ LockError(s, m)
         \/ AbandonOffer(s, m)
  PROVE  ClaimHoldsLock'
<1> USE DispatchAssumption DEF Claimed, InFlight, Waiting, Tasks, Settled
<1>1. CASE LockAcquired(s, m)
  <2>1. ASSUME NEW t \in Services, NEW n \in Msgs, stage'[t][n] \in Claimed
        PROVE  lock'[JobOf[n]] = <<t, n>> \/ <<t, n>> \in lapsed'
    <3>1. /\ lock[JobOf[m]] = Free
          /\ lock' = [lock EXCEPT ![JobOf[m]] = <<s, m>>]
          /\ lapsed' = lapsed
          /\ stage' = [stage EXCEPT ![s][m] = "offered"]
      BY <1>1 DEF LockAcquired, Move
    <3>2. CASE t = s /\ n = m
      BY <3>1, <3>2 DEF TypeOK
    <3>3. CASE t # s \/ n # m
      <4>1. stage[t][n] \in Claimed
        BY <2>1, <3>1, <3>3 DEF TypeOK
      <4>2. lock[JobOf[n]] = <<t, n>> \/ <<t, n>> \in lapsed
        BY <4>1 DEF ClaimHoldsLock
      <4>3. <<t, n>> # Free
        OBVIOUS
      <4>4. QED
        BY <3>1, <4>2, <4>3 DEF TypeOK
    <3>4. QED
      BY <3>2, <3>3
  <2>2. QED
    BY <2>1 DEF ClaimHoldsLock
<1>2. CASE LockError(s, m)
  <2>1. ASSUME NEW t \in Services, NEW n \in Msgs, stage'[t][n] \in Claimed
        PROVE  lock'[JobOf[n]] = <<t, n>> \/ <<t, n>> \in lapsed'
    <3>1. /\ stage' = [stage EXCEPT ![s][m] = "skipped"] /\ lapsed' = lapsed
          /\ \/ lock' = lock
             \/ /\ lock[JobOf[m]] = Free
                /\ lock' = [lock EXCEPT ![JobOf[m]] = <<s, m>>]
      BY <1>2 DEF LockError, Move
    <3>2. stage[t][n] \in Claimed
      BY <2>1, <3>1 DEF TypeOK
    <3>3. lock[JobOf[n]] = <<t, n>> \/ <<t, n>> \in lapsed
      BY <3>2 DEF ClaimHoldsLock
    <3>4. <<t, n>> # Free
      OBVIOUS
    <3>5. QED
      BY <3>1, <3>3, <3>4 DEF TypeOK
  <2>2. QED
    BY <2>1 DEF ClaimHoldsLock
<1>3. CASE AbandonOffer(s, m)
  <2>1. CASE UNCHANGED leases
    <3>1. \A t \in Services, n \in Msgs :
            stage'[t][n] \in Claimed => stage[t][n] \in Claimed
      BY <1>3, ClaimedMove DEF AbandonOffer
    <3>2. QED
      BY <2>1, <3>1, LocksUntouched
  <2>2. CASE /\ Move(s, m, "offered", "released")
             /\ lock' = [lock EXCEPT ![JobOf[m]] = Free]
             /\ lapsed' = lapsed \cup ({lock[JobOf[m]]} \ {Free, <<s, m>>})
    <3>1. ASSUME NEW t \in Services, NEW n \in Msgs, stage'[t][n] \in Claimed
          PROVE  lock'[JobOf[n]] = <<t, n>> \/ <<t, n>> \in lapsed'
      <4>1. stage[t][n] \in Claimed /\ <<t, n>> # <<s, m>>
        BY <2>2, <3>1 DEF Move, TypeOK
      <4>2. lock[JobOf[n]] = <<t, n>> \/ <<t, n>> \in lapsed
        BY <4>1 DEF ClaimHoldsLock
      <4>3. <<t, n>> # Free
        OBVIOUS
      <4>4. QED
        BY <2>2, <4>1, <4>2, <4>3 DEF TypeOK
    <3>2. QED
      BY <3>1 DEF ClaimHoldsLock
  <2>3. QED
    BY <1>3, <2>1, <2>2 DEF AbandonOffer
<1>4. QED
  BY <1>1, <1>2, <1>3

\* Every other step of a service keeps the locks and claims nothing new.
LEMMA ClaimsOnlyEnd ==
  ASSUME TypeOK, NEW s \in Services,
         \/ \E m \in Msgs : \/ Publish(m) \/ LockRefused(s, m)
                             \/ SendToJobChan(s, m)
         \/ Subscribe(s) \/ Receive(s) \/ ConnLost(s)
         \/ Forwarder(s) \/ RunWorker(s) \/ Task(s) \/ Main(s) \/ Crash(s)
  PROVE  /\ UNCHANGED leases
         /\ \A t \in Services, n \in Msgs :
              stage'[t][n] \in Claimed => stage[t][n] \in Claimed
<1> USE DEF Claimed, InFlight, Waiting, Tasks, Settled
<1>1. CASE \E m \in Msgs : Publish(m)
  BY <1>1 DEF Publish, TypeOK
<1>2. CASE \E m \in Msgs : LockRefused(s, m) \/ SendToJobChan(s, m)
  BY <1>2, ClaimedMove DEF LockRefused, SendToJobChan
<1>3. CASE Subscribe(s)
  BY <1>3 DEF Subscribe
<1>4. CASE Receive(s)
  <2>1. Head(inbox[s]) \in Msgs
    BY <1>4 DEF Receive, TypeOK
  <2>2. QED
    BY <1>4, <2>1, ClaimedMove DEF Receive
<1>5. CASE ConnLost(s)
  BY <1>5 DEF ConnLost, TypeOK
<1>6. CASE Forwarder(s)
  <2>1. CASE ForwardTake(s)
    <3>1. Head(jobChan[s]) \in Msgs
      BY <2>1 DEF ForwardTake, TypeOK
    <3>2. QED
      BY <2>1, <3>1, ClaimedMove DEF ForwardTake
  <2>2. CASE ForwarderStop(s)
    BY <2>2 DEF ForwarderStop, TypeOK
  <2>3. CASE \E m \in Msgs : ForwardPut(s, m)
    BY <2>3, ClaimedMove DEF ForwardPut
  <2>4. QED
    BY <1>6, <2>1, <2>2, <2>3 DEF Forwarder
<1>7. CASE RunWorker(s)
  <2>1. CASE WorkerTake(s)
    <3>1. Head(jobs[s]) \in Msgs
      BY <2>1 DEF WorkerTake, TypeOK
    <3>2. QED
      BY <2>1, <3>1, ClaimedMove DEF WorkerTake
  <2>2. CASE WorkerStop(s)
    BY <2>2 DEF WorkerStop
  <2>3. CASE \E m \in Msgs : StartTask(s, m) \/ PutBack(s, m) \/ Drop(s, m)
    BY <2>3, ClaimedMove DEF StartTask, PutBack, Drop
  <2>4. QED
    BY <1>7, <2>1, <2>2, <2>3 DEF RunWorker
<1>8. CASE Task(s)
  <2>1. CASE ReleaseSlot(s)
    BY <2>1 DEF ReleaseSlot
  <2>2. CASE \E m \in Msgs : AcceptTask(s, m) \/ RefuseTask(s, m) \/ FinishTask(s, m)
    BY <2>2, ClaimedMove DEF AcceptTask, RefuseTask, FinishTask
  <2>3. QED
    BY <1>8, <2>1, <2>2 DEF Task
<1>9. CASE Main(s) \/ Crash(s)
  <2>1. CASE Down(s)
    BY <2>1 DEF Down, TypeOK
  <2>2. CASE Start(s) \/ Stop(s) \/ StopReturns(s) \/ Cancel(s)
    BY <2>2 DEF Start, Stop, StopReturns, Cancel
  <2>3. QED
    BY <1>9, <2>1, <2>2 DEF Main, Exit, Crash
<1>10. QED
  BY <1>1, <1>2, <1>3, <1>4, <1>5, <1>6, <1>7, <1>8, <1>9

LEMMA LocksStep == TypeOK /\ ClaimHoldsLock /\ [Next]_vars => ClaimHoldsLock'
<1> SUFFICES ASSUME TypeOK, ClaimHoldsLock, [Next]_vars PROVE ClaimHoldsLock'
  OBVIOUS
<1>1. CASE Services = {}
  BY <1>1 DEF ClaimHoldsLock
<1>2. CASE \E m \in Msgs : Publish(m)
  BY <1>1, <1>2, ClaimsOnlyEnd, LocksUntouched
<1>3. ASSUME NEW s \in Services, Subscriber(s) PROVE ClaimHoldsLock'
  BY <1>3, LockSteps, ClaimsOnlyEnd, LocksUntouched DEF Subscriber
<1>4. ASSUME NEW s \in Services,
             \/ Forwarder(s) \/ RunWorker(s) \/ Task(s) \/ Main(s)
             \/ ConnLost(s) \/ Crash(s)
      PROVE  ClaimHoldsLock'
  BY <1>4, ClaimsOnlyEnd, LocksUntouched
<1>5. CASE \E j \in Jobs : LockExpires(j)
  <2>1. PICK j \in Jobs : LockExpires(j)
    BY <1>5
  <2>2. ASSUME NEW t \in Services, NEW n \in Msgs, stage'[t][n] \in Claimed
        PROVE  lock'[JobOf[n]] = <<t, n>> \/ <<t, n>> \in lapsed'
    <3>1. lock[JobOf[n]] = <<t, n>> \/ <<t, n>> \in lapsed
      BY <2>1, <2>2 DEF ClaimHoldsLock, LockExpires
    <3>2. QED
      BY <2>1, <3>1, DispatchAssumption DEF LockExpires, TypeOK
  <2>3. QED
    BY <2>2 DEF ClaimHoldsLock
<1>6. CASE UNCHANGED vars
  BY <1>6, LocksUntouched DEF vars
<1>7. QED
  BY <1>1, <1>2, <1>3, <1>4, <1>5, <1>6 DEF Next

\* A live claim holds the lock of its job, or lost it to expiry or a DEL.
THEOREM LocksCorrect == Spec => []ClaimHoldsLock
<1>1. Init => ClaimHoldsLock
  BY DEF Init, ClaimHoldsLock, Claimed, InFlight, Waiting, Tasks, Settled
<1>2. ClaimHoldsLock /\ TypeOK /\ [Next]_vars => ClaimHoldsLock'
  BY LocksStep
<1>3. QED
  BY <1>1, <1>2, TypeCorrect, PTL DEF Spec

\* No two claims on one job, unless one of them had lost its lock: however
\* many services and publications there are, and whatever crashes.
THEOREM ClaimsExclusive == Spec => []NoDoubleClaim
<1>1. ClaimHoldsLock => NoDoubleClaim
  BY DEF ClaimHoldsLock, NoDoubleClaim
<1>2. QED
  BY <1>1, LocksCorrect, PTL

-----------------------------------------------------------------------------
(* The dispatch implements the abstract lease                              *)

\* What a move of one claim is in the abstract specification.
LEMMA PhaseMove ==
  ASSUME TypeOK, NEW s \in Services, NEW m \in Msgs, NEW from, NEW to,
         Move(s, m, from, to)
  PROVE  /\ <<s, m>> \in Claims
         /\ PhaseMap[<<s, m>>] = PhaseOf(from)
         /\ PhaseMap' = [PhaseMap EXCEPT ![<<s, m>>] = PhaseOf(to)]
         /\ \A c \in Claims :
              PhaseMap'[c] = IF c = <<s, m>> THEN PhaseOf(to) ELSE PhaseMap[c]
         /\ ClaimJob[<<s, m>>] = JobOf[m]
<1>1. <<s, m>> \in Claims /\ PhaseMap[<<s, m>>] = PhaseOf(from)
  BY DEF Claims, PhaseMap, Move
<1>2. ASSUME NEW c \in Claims
      PROVE  PhaseMap'[c] = IF c = <<s, m>> THEN PhaseOf(to) ELSE PhaseMap[c]
  BY DEF Claims, PhaseMap, Move, TypeOK
<1>3. QED
  BY <1>1, <1>2 DEF PhaseMap, ClaimJob

LEMMA Phases ==
  /\ \A st \in {"unsent", "inbox", "taken", "missed", "unparsed", "skipped"} : PhaseOf(st) = "idle"
  /\ \A st \in {"offered", "jobChan", "fwd", "jobs", "hand", "checking"} : PhaseOf(st) = "owned"
  /\ PhaseOf("encoding") = "begun"
  /\ \A st \in {"done", "failed", "dropped", "lost"} : PhaseOf(st) = "over"
  /\ PhaseOf("released") = "returned"
BY DEF PhaseOf, Before, Waiting, Settled

\* A move inside one phase is a stutter ...
LEMMA InnerMove ==
  ASSUME TypeOK, NEW s \in Services, NEW m \in Msgs, NEW from, NEW to,
         Move(s, m, from, to), PhaseOf(from) = PhaseOf(to)
  PROVE  PhaseMap' = PhaseMap
<1>1. \A c \in Claims : PhaseMap'[c] = PhaseMap[c]
  BY PhaseMove
<1>2. QED
  BY <1>1 DEF PhaseMap

\* ... steps that end a set of claims at once (those of one process) are an End ...
LEMMA EndingMany ==
  ASSUME TypeOK, UNCHANGED leases, NEW C \in SUBSET Claims,
         \A c \in C : PhaseMap[c] \in {"owned", "begun"},
         \A c \in Claims : PhaseMap'[c] = IF c \in C THEN "over" ELSE PhaseMap[c]
  PROVE  Lease!LeaseNext
<1>1. PhaseMap' = [c \in Claims |-> IF c \in C THEN "over" ELSE PhaseMap[c]]
  BY DEF PhaseMap
<1>2. Lease!End(C)
  BY <1>1 DEF Lease!End, leases
<1>3. QED
  BY <1>2 DEF Lease!LeaseNext

\* ... and a move that ends a claim is an abstract End of it alone.
LEMMA EndingMove ==
  ASSUME TypeOK, NEW s \in Services, NEW m \in Msgs, NEW from, NEW to,
         Move(s, m, from, to), UNCHANGED leases,
         PhaseOf(from) \in {"owned", "begun"}, PhaseOf(to) = "over"
  PROVE  Lease!LeaseNext
<1>1. \A c \in Claims :
        PhaseMap'[c] = IF c \in {<<s, m>>} THEN "over" ELSE PhaseMap[c]
  <2>1. \A c \in Claims :
          PhaseMap'[c] = IF c = <<s, m>> THEN PhaseOf(to) ELSE PhaseMap[c]
    BY PhaseMove
  <2>2. QED
    BY <2>1
<1>2. {<<s, m>>} \in SUBSET Claims /\ \A c \in {<<s, m>>} : PhaseMap[c] \in {"owned", "begun"}
  BY PhaseMove
<1>3. QED
  BY <1>1, <1>2, EndingMany

LEMMA LeaseSubscriber ==
  ASSUME TypeOK, NEW s \in Services, Subscriber(s)
  PROVE  [Lease!LeaseNext]_Lease!leaseVars
<1> USE Phases DEF Lease!leaseVars, leases
<1>1. CASE Subscribe(s)
  BY <1>1 DEF Subscribe, PhaseMap
<1>2. CASE Receive(s)
  <2>1. Head(inbox[s]) \in Msgs
    BY <1>2 DEF Receive, TypeOK
  <2>2. PhaseMap' = PhaseMap
    BY <1>2, <2>1, InnerMove DEF Receive
  <2>3. QED
    BY <1>2, <2>2 DEF Receive
<1>3. ASSUME NEW m \in Msgs, LockAcquired(s, m) PROVE Lease!LeaseNext
  <2>1. /\ <<s, m>> \in Claims /\ ClaimJob[<<s, m>>] = JobOf[m]
        /\ PhaseMap[<<s, m>>] = "idle"
        /\ PhaseMap' = [PhaseMap EXCEPT ![<<s, m>>] = "owned"]
    BY <1>3, PhaseMove DEF LockAcquired
  <2>2. /\ lock[JobOf[m]] = Free /\ UNCHANGED lapsed
        /\ lock' = [lock EXCEPT ![JobOf[m]] = <<s, m>>]
    BY <1>3 DEF LockAcquired
  <2>3. Lease!Acquire(<<s, m>>)
    BY <2>1, <2>2 DEF Lease!Acquire
  <2>4. QED
    BY <2>1, <2>3 DEF Lease!LeaseNext
<1>4. ASSUME NEW m \in Msgs, LockRefused(s, m) \/ SendToJobChan(s, m)
      PROVE  UNCHANGED Lease!leaseVars
  <2>1. PhaseMap' = PhaseMap
    BY <1>4, InnerMove DEF LockRefused, SendToJobChan
  <2>2. QED
    BY <1>4, <2>1 DEF LockRefused, SendToJobChan
<1>5. ASSUME NEW m \in Msgs, LockError(s, m)
      PROVE  [Lease!LeaseNext]_Lease!leaseVars
  <2>1. PhaseMap' = PhaseMap
    BY <1>5, InnerMove DEF LockError
  <2>2. CASE UNCHANGED lock
    BY <1>5, <2>1, <2>2 DEF LockError
  <2>3. CASE ~UNCHANGED lock
    <3>1. Lease!Misfire(<<s, m>>) /\ <<s, m>> \in Claims
      BY <1>5, <2>1, <2>3, PhaseMove DEF LockError, Lease!Misfire
    <3>2. QED
      BY <3>1 DEF Lease!LeaseNext
  <2>4. QED
    BY <2>2, <2>3
<1>6. ASSUME NEW m \in Msgs, AbandonOffer(s, m) PROVE Lease!LeaseNext
  <2>1. CASE Move(s, m, "offered", "lost") /\ UNCHANGED leases
    BY <2>1, EndingMove
  <2>2. CASE ~(Move(s, m, "offered", "lost") /\ UNCHANGED leases)
    <3>1. Lease!GiveBack(<<s, m>>) /\ <<s, m>> \in Claims
      BY <1>6, <2>2, PhaseMove DEF AbandonOffer, Lease!GiveBack
    <3>2. QED
      BY <3>1 DEF Lease!LeaseNext
  <2>3. QED
    BY <2>1, <2>2
<1>7. QED
  BY <1>1, <1>2, <1>3, <1>4, <1>5, <1>6 DEF Subscriber

LEMMA LeaseForwarder ==
  ASSUME TypeOK, NEW s \in Services, Forwarder(s)
  PROVE  [Lease!LeaseNext]_Lease!leaseVars
<1> USE Phases DEF Lease!leaseVars, leases
<1>1. CASE ForwardTake(s)
  <2>1. Head(jobChan[s]) \in Msgs
    BY <1>1 DEF ForwardTake, TypeOK
  <2>2. PhaseMap' = PhaseMap
    BY <1>1, <2>1, InnerMove DEF ForwardTake
  <2>3. QED
    BY <1>1, <2>2 DEF ForwardTake
<1>2. CASE ForwarderStop(s)
  <2> DEFINE C == {c \in Claims : c[1] = s /\ stage[s][c[2]] = "fwd"}
  <2>1. \A c \in C : PhaseMap[c] \in {"owned", "begun"}
    BY DEF PhaseMap
  <2>2. \A c \in Claims : PhaseMap'[c] = IF c \in C THEN "over" ELSE PhaseMap[c]
    <3>1. ASSUME NEW t \in Services, NEW n \in Msgs
          PROVE  stage'[t][n] = IF t = s /\ stage[t][n] = "fwd" THEN "lost" ELSE stage[t][n]
      BY <1>2 DEF ForwarderStop, TypeOK
    <3>2. QED
      BY <3>1 DEF PhaseMap, Claims
  <2>3. UNCHANGED leases
    BY <1>2 DEF ForwarderStop
  <2>4. QED
    BY <2>1, <2>2, <2>3, EndingMany
<1>3. ASSUME NEW m \in Msgs, ForwardPut(s, m) PROVE UNCHANGED Lease!leaseVars
  <2>1. PhaseMap' = PhaseMap
    BY <1>3, InnerMove DEF ForwardPut
  <2>2. QED
    BY <1>3, <2>1 DEF ForwardPut
<1>4. QED
  BY <1>1, <1>2, <1>3 DEF Forwarder

LEMMA LeaseRunWorker ==
  ASSUME TypeOK, NEW s \in Services, RunWorker(s)
  PROVE  [Lease!LeaseNext]_Lease!leaseVars
<1> USE Phases DEF Lease!leaseVars, leases
<1>1. CASE WorkerTake(s)
  <2>1. Head(jobs[s]) \in Msgs
    BY <1>1 DEF WorkerTake, TypeOK
  <2>2. PhaseMap' = PhaseMap
    BY <1>1, <2>1, InnerMove DEF WorkerTake
  <2>3. QED
    BY <1>1, <2>2 DEF WorkerTake
<1>2. CASE WorkerStop(s)
  BY <1>2 DEF WorkerStop, PhaseMap
<1>3. ASSUME NEW m \in Msgs, StartTask(s, m) \/ PutBack(s, m)
      PROVE  UNCHANGED Lease!leaseVars
  <2>1. PhaseMap' = PhaseMap
    BY <1>3, InnerMove DEF StartTask, PutBack
  <2>2. QED
    BY <1>3, <2>1 DEF StartTask, PutBack
<1>4. ASSUME NEW m \in Msgs, Drop(s, m) PROVE Lease!LeaseNext
  BY <1>4, EndingMove DEF Drop
<1>5. QED
  BY <1>1, <1>2, <1>3, <1>4 DEF RunWorker

LEMMA LeaseTask ==
  ASSUME TypeOK, NEW s \in Services, Task(s)
  PROVE  [Lease!LeaseNext]_Lease!leaseVars
<1> USE Phases DEF Lease!leaseVars, leases
<1>1. CASE ReleaseSlot(s)
  BY <1>1 DEF ReleaseSlot, PhaseMap
<1>2. ASSUME NEW m \in Msgs, AcceptTask(s, m) PROVE Lease!LeaseNext
  <2>1. /\ <<s, m>> \in Claims /\ PhaseMap[<<s, m>>] = "owned"
        /\ PhaseMap' = [PhaseMap EXCEPT ![<<s, m>>] = "begun"]
    BY <1>2, PhaseMove DEF AcceptTask
  <2>2. Lease!Begin(<<s, m>>)
    BY <1>2, <2>1 DEF AcceptTask, Lease!Begin
  <2>3. QED
    BY <2>1, <2>2 DEF Lease!LeaseNext
<1>3. ASSUME NEW m \in Msgs, RefuseTask(s, m)
      PROVE  [Lease!LeaseNext]_Lease!leaseVars
  <2>1. UNCHANGED leases
    BY <1>3 DEF RefuseTask
  <2>2. CASE Move(s, m, "checking", "jobs")
    <3>1. PhaseMap' = PhaseMap
      BY <2>2, InnerMove
    <3>2. QED
      BY <2>1, <3>1
  <2>3. CASE Move(s, m, "checking", "dropped")
    BY <2>1, <2>3, EndingMove
  <2>4. QED
    BY <1>3, <2>2, <2>3 DEF RefuseTask
<1>4. ASSUME NEW m \in Msgs, FinishTask(s, m) PROVE Lease!LeaseNext
  BY <1>4, EndingMove DEF FinishTask
<1>5. QED
  BY <1>1, <1>2, <1>3, <1>4 DEF Task

LEMMA LeaseMain ==
  ASSUME TypeOK, NEW s \in Services, Main(s) \/ Crash(s)
  PROVE  [Lease!LeaseNext]_Lease!leaseVars
<1> USE Phases DEF Lease!leaseVars, leases
<1>1. CASE Down(s)
  <2> DEFINE C == {c \in Claims : c[1] = s /\ stage[s][c[2]] \in InFlight}
  <2>1. \A c \in C : PhaseMap[c] \in {"owned", "begun"}
    BY DEF PhaseMap, InFlight, Waiting, Tasks
  <2>2. \A c \in Claims : PhaseMap'[c] = IF c \in C THEN "over" ELSE PhaseMap[c]
    <3>1. ASSUME NEW t \in Services, NEW n \in Msgs
          PROVE  /\ t # s => stage'[t][n] = stage[t][n]
                 /\ t = s /\ stage[t][n] \in InFlight => stage'[t][n] = "lost"
                 /\ t = s /\ stage[t][n] \notin InFlight =>
                      PhaseOf(stage'[t][n]) = PhaseOf(stage[t][n])
      BY <1>1 DEF Down, TypeOK, InFlight, Waiting, Tasks
    <3>2. QED
      BY <3>1 DEF PhaseMap, Claims
  <2>3. UNCHANGED leases
    BY <1>1 DEF Down
  <2>4. QED
    BY <2>1, <2>2, <2>3, EndingMany
<1>2. CASE Start(s) \/ Stop(s) \/ StopReturns(s) \/ Cancel(s)
  BY <1>2 DEF Start, Stop, StopReturns, Cancel, PhaseMap
<1>3. QED
  BY <1>1, <1>2 DEF Main, Exit, Crash

\* Publishing and losing a connection concern only claims that are idle.
LEMMA LeasePubSub ==
  ASSUME TypeOK,
         (\E m \in Msgs : Publish(m)) \/ (\E s \in Services : ConnLost(s))
  PROVE  UNCHANGED Lease!leaseVars
<1> USE Phases DEF Lease!leaseVars, leases
<1>1. ASSUME NEW m \in Msgs, Publish(m) PROVE UNCHANGED Lease!leaseVars
  <2>1. \A t \in Services, n \in Msgs : PhaseOf(stage'[t][n]) = PhaseOf(stage[t][n])
    BY <1>1 DEF Publish, TypeOK
  <2>2. QED
    BY <1>1, <2>1 DEF Publish, PhaseMap, Claims
<1>2. ASSUME NEW s \in Services, ConnLost(s) PROVE UNCHANGED Lease!leaseVars
  <2>1. \A t \in Services, n \in Msgs : PhaseOf(stage'[t][n]) = PhaseOf(stage[t][n])
    BY <1>2 DEF ConnLost, TypeOK
  <2>2. QED
    BY <1>2, <2>1 DEF ConnLost, PhaseMap, Claims
<1>3. QED
  BY <1>1, <1>2

\* Every behaviour of the dispatch is one of the abstract lease: a job is
\* claimed while its lease is free, begun at most once per claim, and a lease
\* goes only by expiry or by the DEL of an abandoned offer.
THEOREM DispatchImplementsLease == Spec => ImplementsLease
<1>1. Init => Lease!LeaseInit
  BY Phases DEF Init, Lease!LeaseInit, PhaseMap, Claims
<1>2. TypeOK /\ [Next]_vars => [Lease!LeaseNext]_Lease!leaseVars
  <2> SUFFICES ASSUME TypeOK, [Next]_vars
               PROVE  [Lease!LeaseNext]_Lease!leaseVars
    OBVIOUS
  <2>1. ASSUME NEW s \in Services,
               \/ Subscriber(s) \/ Forwarder(s) \/ RunWorker(s)
               \/ Task(s) \/ Main(s) \/ Crash(s)
        PROVE  [Lease!LeaseNext]_Lease!leaseVars
    BY <2>1, LeaseSubscriber, LeaseForwarder, LeaseRunWorker, LeaseTask, LeaseMain
  <2>2. CASE (\E m \in Msgs : Publish(m)) \/ (\E s \in Services : ConnLost(s))
    BY <2>2, LeasePubSub
  <2>3. ASSUME NEW j \in Jobs, LockExpires(j) PROVE Lease!LeaseNext
    <3>1. Lease!Lapse(j)
      BY <2>3 DEF LockExpires, Lease!Lapse, PhaseMap
    <3>2. QED
      BY <3>1 DEF Lease!LeaseNext
  <2>4. CASE UNCHANGED vars
    BY <2>4 DEF vars, leases, Lease!leaseVars, PhaseMap
  <2>5. QED
    BY <2>1, <2>2, <2>3, <2>4 DEF Next
<1>3. QED
  BY <1>1, <1>2, TypeCorrect, PTL DEF Spec, ImplementsLease, Lease!LeaseSpec

-----------------------------------------------------------------------------
(* A channel and the stages of one service                                 *)

\* q lists the messages whose stage in st is `where', each once.
Lists(q, st, where) ==
  /\ \A i \in 1..Len(q) : st[q[i]] = where
  /\ \A i, k \in 1..Len(q) : q[i] = q[k] => i = k
  /\ \A m \in Msgs : st[m] = where => \E i \in 1..Len(q) : q[i] = m

LEMMA ListsAppend ==
  ASSUME NEW q \in Seq(Msgs), NEW st \in [Msgs -> Stages], NEW m \in Msgs, NEW where,
         NEW st2, st2 = [st EXCEPT ![m] = where], st[m] # where, Lists(q, st, where)
  PROVE  Lists(Append(q, m), st2, where)
<1> DEFINE r == Append(q, m)
<1>1. /\ Len(q) \in Nat /\ Len(r) = Len(q) + 1 /\ r[Len(q) + 1] = m
      /\ \A i \in 1..Len(q) : r[i] = q[i] /\ q[i] \in Msgs
  OBVIOUS
<1>2. \A x \in Msgs : st2[x] = IF x = m THEN where ELSE st[x]
  OBVIOUS
<1>3. \A i \in 1..Len(q) : q[i] # m
  BY DEF Lists
<1> HIDE DEF r
<1>4. \A i \in 1..Len(r) : i \in 1..Len(q) \/ i = Len(q) + 1
  BY <1>1
<1>5. \A i \in 1..Len(r) : st2[r[i]] = where
  BY <1>1, <1>2, <1>4 DEF Lists
<1>6. \A i, k \in 1..Len(r) : r[i] = r[k] => i = k
  BY <1>1, <1>3, <1>4 DEF Lists
<1>7. \A x \in Msgs : st2[x] = where => \E i \in 1..Len(r) : r[i] = x
  <2> SUFFICES ASSUME NEW x \in Msgs, st2[x] = where PROVE \E i \in 1..Len(r) : r[i] = x
    OBVIOUS
  <2>1. CASE x = m
    BY <1>1, <2>1
  <2>2. CASE x # m
    <3>1. PICK i \in 1..Len(q) : q[i] = x
      BY <1>2, <2>2 DEF Lists
    <3>2. i \in 1..Len(r) /\ r[i] = x
      BY <1>1, <3>1
    <3>3. QED
      BY <3>2
  <2>3. QED
    BY <2>1, <2>2
<1>8. QED
  BY <1>5, <1>6, <1>7 DEF Lists, r

LEMMA ListsTail ==
  ASSUME NEW q \in Seq(Msgs), NEW st \in [Msgs -> Stages], NEW where, NEW to,
         NEW st2, st2 = [st EXCEPT ![Head(q)] = to],
         q # <<>>, to # where, Lists(q, st, where)
  PROVE  Lists(Tail(q), st2, where)
<1> DEFINE r == Tail(q)
           m == Head(q)
<1>1. /\ Len(q) \in Nat \ {0} /\ Len(r) = Len(q) - 1 /\ m = q[1] /\ m \in Msgs
      /\ \A i \in 1..Len(r) : r[i] = q[i + 1]
      /\ \A i \in 1..Len(q) : q[i] \in Msgs
  OBVIOUS
<1>2. \A x \in Msgs : st2[x] = IF x = m THEN to ELSE st[x]
  BY <1>1
<1> HIDE DEF r, m
<1>3. \A i \in 1..Len(r) : i + 1 \in 1..Len(q) /\ i + 1 # 1 /\ r[i] \in Msgs /\ r[i] # m
  <2> SUFFICES ASSUME NEW i \in 1..Len(r)
               PROVE  i + 1 \in 1..Len(q) /\ i + 1 # 1 /\ r[i] \in Msgs /\ r[i] # m
    OBVIOUS
  <2>1. i + 1 \in 1..Len(q) /\ i + 1 # 1 /\ 1 \in 1..Len(q)
    BY <1>1
  <2>2. r[i] = q[i + 1]
    BY <1>1
  <2>3. q[i + 1] # q[1]
    BY <2>1 DEF Lists
  <2>4. QED
    BY <1>1, <2>1, <2>2, <2>3
<1>4. \A i \in 1..Len(r) : st2[r[i]] = where
  BY <1>1, <1>2, <1>3 DEF Lists
<1>5. \A i, k \in 1..Len(r) : r[i] = r[k] => i = k
  <2> SUFFICES ASSUME NEW i \in 1..Len(r), NEW k \in 1..Len(r), r[i] = r[k] PROVE i = k
    OBVIOUS
  <2>1. q[i + 1] = q[k + 1] /\ i + 1 \in 1..Len(q) /\ k + 1 \in 1..Len(q)
    BY <1>1, <1>3
  <2>2. i + 1 = k + 1
    BY <2>1 DEF Lists
  <2>3. QED
    BY <2>2
<1>6. \A x \in Msgs : st2[x] = where => \E i \in 1..Len(r) : r[i] = x
  <2> SUFFICES ASSUME NEW x \in Msgs, st2[x] = where PROVE \E i \in 1..Len(r) : r[i] = x
    OBVIOUS
  <2>1. x # m /\ st[x] = where
    BY <1>2
  <2>2. PICK k \in 1..Len(q) : q[k] = x
    BY <2>1 DEF Lists
  <2>3. k # 1 /\ k - 1 \in 1..Len(r) /\ (k - 1) + 1 = k
    BY <1>1, <2>1, <2>2
  <2>4. r[k - 1] = x
    BY <1>1, <2>2, <2>3
  <2>5. QED
    BY <2>3, <2>4
<1>7. QED
  BY <1>4, <1>5, <1>6 DEF Lists, r, m

LEMMA ListsKept ==
  ASSUME NEW q \in Seq(Msgs), NEW st, NEW st2, NEW where, Lists(q, st, where),
         \A m \in Msgs : st2[m] = where <=> st[m] = where
  PROVE  Lists(q, st2, where)
BY DEF Lists

LEMMA ListsNone ==
  ASSUME NEW st, NEW where, \A m \in Msgs : st[m] # where
  PROVE  Lists(<<>>, st, where)
BY DEF Lists

\* A move elsewhere leaves the channel's list alone.
LEMMA ListsMove ==
  ASSUME NEW q \in Seq(Msgs), NEW st \in [Msgs -> Stages], NEW m \in Msgs,
         NEW where, NEW to, NEW st2, st2 = [st EXCEPT ![m] = to],
         st[m] # where, to # where, Lists(q, st, where)
  PROVE  Lists(q, st2, where)
<1>1. \A x \in Msgs : st2[x] = where <=> st[x] = where
  OBVIOUS
<1>2. QED
  BY <1>1, ListsKept

-----------------------------------------------------------------------------
(* The three channels of one service                                       *)

Queues == {"inbox", "jobChan", "jobs"}

\* i, c and j are the inbox, jobChan and w.jobs of a service with stages st.
Channels(i, c, j, st) ==
  Lists(i, st, "inbox") /\ Lists(c, st, "jobChan") /\ Lists(j, st, "jobs")

\* A claim moves between goroutines.
LEMMA ChannelsMove ==
  ASSUME NEW i \in Seq(Msgs), NEW c \in Seq(Msgs), NEW j \in Seq(Msgs),
         NEW st \in [Msgs -> Stages], NEW m \in Msgs, NEW to, NEW st2,
         st2 = [st EXCEPT ![m] = to], Channels(i, c, j, st),
         st[m] \notin Queues, to \notin Queues
  PROVE  Channels(i, c, j, st2)
<1>1. \A w \in Queues : st[m] # w /\ to # w
  OBVIOUS
<1>2. Lists(i, st2, "inbox")
  BY <1>1, ListsMove DEF Channels, Queues
<1>3. Lists(c, st2, "jobChan")
  BY <1>1, ListsMove DEF Channels, Queues
<1>4. Lists(j, st2, "jobs")
  BY <1>1, ListsMove DEF Channels, Queues
<1>5. QED
  BY <1>2, <1>3, <1>4 DEF Channels

\* A claim is sent to jobChan or to w.jobs.
LEMMA ChannelsPut ==
  ASSUME NEW i \in Seq(Msgs), NEW c \in Seq(Msgs), NEW j \in Seq(Msgs),
         NEW st \in [Msgs -> Stages], NEW m \in Msgs, NEW to, NEW st2,
         st2 = [st EXCEPT ![m] = to], Channels(i, c, j, st), st[m] \notin Queues
  PROVE  /\ to = "jobChan" => Channels(i, Append(c, m), j, st2)
         /\ to = "jobs" => Channels(i, c, Append(j, m), st2)
<1>1. \A w \in Queues : st[m] # w
  OBVIOUS
<1>2. CASE to = "jobChan"
  <2>1. Lists(Append(c, m), st2, "jobChan")
    BY <1>1, <1>2, ListsAppend DEF Channels, Queues
  <2>2. Lists(i, st2, "inbox")
    BY <1>1, <1>2, ListsMove DEF Channels, Queues
  <2>3. Lists(j, st2, "jobs")
    BY <1>1, <1>2, ListsMove DEF Channels, Queues
  <2>4. QED
    BY <1>2, <2>1, <2>2, <2>3 DEF Channels
<1>3. CASE to = "jobs"
  <2>1. Lists(Append(j, m), st2, "jobs")
    BY <1>1, <1>3, ListsAppend DEF Channels, Queues
  <2>2. Lists(i, st2, "inbox")
    BY <1>1, <1>3, ListsMove DEF Channels, Queues
  <2>3. Lists(c, st2, "jobChan")
    BY <1>1, <1>3, ListsMove DEF Channels, Queues
  <2>4. QED
    BY <1>3, <2>1, <2>2, <2>3 DEF Channels
<1>4. QED
  BY <1>2, <1>3

\* The head of a channel is received.
LEMMA InboxTaken ==
  ASSUME NEW i \in Seq(Msgs), NEW c \in Seq(Msgs), NEW j \in Seq(Msgs),
         NEW st \in [Msgs -> Stages], NEW st2, NEW m \in Msgs,
         i # <<>>, m = Head(i), Channels(i, c, j, st),
         NEW to \in {"taken", "unparsed"},
         st2 = [st EXCEPT ![m] = to], st[m] = "inbox"
  PROVE  Channels(Tail(i), c, j, st2)
<1>1. Lists(Tail(i), st2, "inbox")
  BY ListsTail DEF Channels
<1>2. Lists(c, st2, "jobChan")
  BY ListsMove DEF Channels
<1>3. Lists(j, st2, "jobs")
  BY ListsMove DEF Channels
<1>4. QED
  BY <1>1, <1>2, <1>3 DEF Channels

LEMMA JobChanTaken ==
  ASSUME NEW i \in Seq(Msgs), NEW c \in Seq(Msgs), NEW j \in Seq(Msgs),
         NEW st \in [Msgs -> Stages], NEW st2, NEW m \in Msgs,
         c # <<>>, m = Head(c), Channels(i, c, j, st),
         st2 = [st EXCEPT ![m] = "fwd"], st[m] = "jobChan"
  PROVE  Channels(i, Tail(c), j, st2)
<1>1. Lists(Tail(c), st2, "jobChan")
  BY ListsTail DEF Channels
<1>2. Lists(i, st2, "inbox")
  BY ListsMove DEF Channels
<1>3. Lists(j, st2, "jobs")
  BY ListsMove DEF Channels
<1>4. QED
  BY <1>1, <1>2, <1>3 DEF Channels

LEMMA JobsTaken ==
  ASSUME NEW i \in Seq(Msgs), NEW c \in Seq(Msgs), NEW j \in Seq(Msgs),
         NEW st \in [Msgs -> Stages], NEW st2, NEW m \in Msgs,
         j # <<>>, m = Head(j), Channels(i, c, j, st),
         st2 = [st EXCEPT ![m] = "hand"], st[m] = "jobs"
  PROVE  Channels(i, c, Tail(j), st2)
<1>1. Lists(Tail(j), st2, "jobs")
  BY ListsTail DEF Channels
<1>2. Lists(i, st2, "inbox")
  BY ListsMove DEF Channels
<1>3. Lists(c, st2, "jobChan")
  BY ListsMove DEF Channels
<1>4. QED
  BY <1>1, <1>2, <1>3 DEF Channels

-----------------------------------------------------------------------------
(* The ledger, action by action                                            *)

LedgerOf(s) == Channels(inbox[s], jobChan[s], jobs[s], stage[s])

LEMMA LedgerIs ==
  /\ Ledger <=> \A s \in Services : LedgerOf(s)
  /\ Ledger' <=> \A s \in Services : LedgerOf(s)'
BY DEF Ledger, LedgerOf, Channels, Lists, Holds

\* Everything LedgerOf(t) speaks of is as it was.
SameService(t) ==
  UNCHANGED <<stage[t], inbox[t], jobChan[t], jobs[t]>>

\* One service is looked after, the others are as they were.
LEMMA LedgerStep ==
  ASSUME Ledger, NEW s \in Services, LedgerOf(s)',
         \A t \in Services \ {s} : SameService(t)
  PROVE  Ledger'
BY LedgerIs DEF LedgerOf, SameService

LEMMA LedgerParts ==
  ASSUME TypeOK, NEW s \in Services
  PROVE  /\ stage[s] \in [Msgs -> Stages]
         /\ inbox[s] \in Seq(Msgs) /\ jobChan[s] \in Seq(Msgs) /\ jobs[s] \in Seq(Msgs)
BY DEF TypeOK

\* Steps that touch neither a channel nor a stage.
LEMMA LedgerUntouched ==
  ASSUME Ledger, UNCHANGED <<stage, inbox, jobChan, jobs>>
  PROVE  Ledger'
<1>1. stage' = stage /\ inbox' = inbox /\ jobChan' = jobChan /\ jobs' = jobs
  OBVIOUS
<1>2. QED
  BY <1>1 DEF Ledger, Holds

\* A service's claim moves: nobody else's stages do.
LEMMA MoveStage ==
  ASSUME TypeOK, NEW s \in Services, NEW m \in Msgs, NEW from, NEW to, Move(s, m, from, to)
  PROVE  /\ stage'[s] = [stage[s] EXCEPT ![m] = to] /\ stage[s][m] = from
         /\ \A t \in Services \ {s} : stage'[t] = stage[t]
BY DEF Move, TypeOK

\* A claim moves between goroutines and the channels stand still.
LEMMA LedgerInner ==
  ASSUME TypeOK, Ledger, NEW s \in Services, NEW m \in Msgs,
         NEW from, NEW to, Move(s, m, from, to),
         from \notin Queues, to \notin Queues, UNCHANGED <<inbox, chans>>
  PROVE  Ledger'
<1>1. /\ stage'[s] = [stage[s] EXCEPT ![m] = to] /\ stage[s][m] = from
      /\ \A t \in Services \ {s} : stage'[t] = stage[t]
  BY MoveStage
<1>2. inbox' = inbox /\ jobChan' = jobChan /\ jobs' = jobs
  BY DEF chans
<1>3. Channels(inbox[s], jobChan[s], jobs[s], stage'[s])
  BY <1>1, LedgerIs, LedgerParts, ChannelsMove DEF LedgerOf
<1>4. QED
  BY <1>1, <1>2, <1>3, LedgerStep DEF LedgerOf, SameService

\* A claim is sent to one of the service's own channels.
LEMMA LedgerPut ==
  ASSUME TypeOK, Ledger, NEW s \in Services, NEW m \in Msgs,
         NEW from, NEW to, Move(s, m, from, to), from \notin Queues, UNCHANGED inbox,
         \/ to = "jobChan" /\ UNCHANGED jobs
              /\ jobChan' = [jobChan EXCEPT ![s] = Append(@, m)]
         \/ to = "jobs" /\ UNCHANGED jobChan
              /\ jobs' = [jobs EXCEPT ![s] = Append(@, m)]
  PROVE  Ledger'
<1>1. /\ stage'[s] = [stage[s] EXCEPT ![m] = to] /\ stage[s][m] = from
      /\ \A t \in Services \ {s} : stage'[t] = stage[t]
  BY MoveStage
<1>2. /\ to = "jobChan" => Channels(inbox[s], Append(jobChan[s], m), jobs[s], stage'[s])
      /\ to = "jobs" => Channels(inbox[s], jobChan[s], Append(jobs[s], m), stage'[s])
  BY <1>1, LedgerIs, LedgerParts, ChannelsPut DEF LedgerOf
<1>3. CASE to = "jobChan" /\ UNCHANGED jobs /\ jobChan' = [jobChan EXCEPT ![s] = Append(@, m)]
  <2>1. /\ jobChan'[s] = Append(jobChan[s], m)
        /\ \A t \in Services \ {s} : jobChan'[t] = jobChan[t]
    BY <1>3 DEF TypeOK
  <2>2. QED
    BY <1>1, <1>2, <1>3, <2>1, LedgerStep DEF LedgerOf, SameService
<1>4. CASE to = "jobs" /\ UNCHANGED jobChan /\ jobs' = [jobs EXCEPT ![s] = Append(@, m)]
  <2>1. /\ jobs'[s] = Append(jobs[s], m)
        /\ \A t \in Services \ {s} : jobs'[t] = jobs[t]
    BY <1>4 DEF TypeOK
  <2>2. QED
    BY <1>1, <1>2, <1>4, <2>1, LedgerStep DEF LedgerOf, SameService
<1>5. QED
  BY <1>3, <1>4

\* The head of one of its channels is received.
LEMMA LedgerTake ==
  ASSUME TypeOK, Ledger, NEW s \in Services,
         Receive(s) \/ ForwardTake(s) \/ WorkerTake(s)
  PROVE  Ledger'
<1>0. LedgerOf(s)
  BY LedgerIs
<1>1. CASE Receive(s)
  <2>1. Head(inbox[s]) \in Msgs /\ inbox[s] # <<>>
    BY <1>1, LedgerParts DEF Receive
  <2> DEFINE to == IF Head(inbox[s]) \in Malformed THEN "unparsed" ELSE "taken"
  <2>2. /\ stage'[s] = [stage[s] EXCEPT ![Head(inbox[s])] = to]
        /\ stage[s][Head(inbox[s])] = "inbox"
        /\ \A t \in Services \ {s} : stage'[t] = stage[t]
    BY <1>1, <2>1, MoveStage DEF Receive
  <2>3. inbox' = [inbox EXCEPT ![s] = Tail(@)] /\ jobChan' = jobChan /\ jobs' = jobs
    BY <1>1 DEF Receive, chans
  <2>4. inbox'[s] = Tail(inbox[s]) /\ \A t \in Services \ {s} : inbox'[t] = inbox[t]
    BY <2>3 DEF TypeOK
  <2>5. Channels(Tail(inbox[s]), jobChan[s], jobs[s], stage'[s])
    <3>1. to \in {"taken", "unparsed"}
      OBVIOUS
    <3> HIDE DEF to
    <3>2. QED
      BY <1>0, <2>1, <2>2, <3>1, LedgerParts, InboxTaken DEF LedgerOf
  <2>6. QED
    BY <2>2, <2>3, <2>4, <2>5, LedgerStep DEF LedgerOf, SameService
<1>2. CASE ForwardTake(s)
  <2>1. Head(jobChan[s]) \in Msgs /\ jobChan[s] # <<>>
    BY <1>2, LedgerParts DEF ForwardTake
  <2>2. /\ stage'[s] = [stage[s] EXCEPT ![Head(jobChan[s])] = "fwd"]
        /\ stage[s][Head(jobChan[s])] = "jobChan"
        /\ \A t \in Services \ {s} : stage'[t] = stage[t]
    BY <1>2, <2>1, MoveStage DEF ForwardTake
  <2>3. jobChan' = [jobChan EXCEPT ![s] = Tail(@)] /\ inbox' = inbox /\ jobs' = jobs
    BY <1>2 DEF ForwardTake, pubsub
  <2>4. jobChan'[s] = Tail(jobChan[s]) /\ \A t \in Services \ {s} : jobChan'[t] = jobChan[t]
    BY <2>3 DEF TypeOK
  <2>5. Channels(inbox[s], Tail(jobChan[s]), jobs[s], stage'[s])
    BY <1>0, <2>1, <2>2, LedgerParts, JobChanTaken DEF LedgerOf
  <2>6. QED
    BY <2>2, <2>3, <2>4, <2>5, LedgerStep DEF LedgerOf, SameService
<1>3. CASE WorkerTake(s)
  <2>1. Head(jobs[s]) \in Msgs /\ jobs[s] # <<>>
    BY <1>3, LedgerParts DEF WorkerTake
  <2>2. /\ stage'[s] = [stage[s] EXCEPT ![Head(jobs[s])] = "hand"]
        /\ stage[s][Head(jobs[s])] = "jobs"
        /\ \A t \in Services \ {s} : stage'[t] = stage[t]
    BY <1>3, <2>1, MoveStage DEF WorkerTake
  <2>3. jobs' = [jobs EXCEPT ![s] = Tail(@)] /\ inbox' = inbox /\ jobChan' = jobChan
    BY <1>3 DEF WorkerTake, pubsub
  <2>4. jobs'[s] = Tail(jobs[s]) /\ \A t \in Services \ {s} : jobs'[t] = jobs[t]
    BY <2>3 DEF TypeOK
  <2>5. Channels(inbox[s], jobChan[s], Tail(jobs[s]), stage'[s])
    BY <1>0, <2>1, <2>2, LedgerParts, JobsTaken DEF LedgerOf
  <2>6. QED
    BY <2>2, <2>3, <2>4, <2>5, LedgerStep DEF LedgerOf, SameService
<1>4. QED
  BY <1>1, <1>2, <1>3

\* Steps that end many claims of one service at once.
LEMMA LedgerMany ==
  ASSUME TypeOK, Ledger, NEW s \in Services,
         ConnLost(s) \/ ForwarderStop(s) \/ Down(s)
  PROVE  Ledger'
<1>0. Channels(inbox[s], jobChan[s], jobs[s], stage[s])
  BY LedgerIs DEF LedgerOf
<1>p. /\ stage[s] \in [Msgs -> Stages]
      /\ inbox[s] \in Seq(Msgs) /\ jobChan[s] \in Seq(Msgs) /\ jobs[s] \in Seq(Msgs)
  BY LedgerParts
<1>1. CASE ConnLost(s)
  <2>1. /\ \A m \in Msgs : stage'[s][m] = IF stage[s][m] = "inbox" THEN "missed" ELSE stage[s][m]
        /\ inbox'[s] = <<>> /\ jobChan' = jobChan /\ jobs' = jobs
        /\ \A t \in Services \ {s} : stage'[t] = stage[t] /\ inbox'[t] = inbox[t]
    BY <1>1 DEF ConnLost, chans, TypeOK
  <2>2. /\ \A m \in Msgs : stage'[s][m] # "inbox"
        /\ \A m \in Msgs : stage'[s][m] = "jobChan" <=> stage[s][m] = "jobChan"
        /\ \A m \in Msgs : stage'[s][m] = "jobs" <=> stage[s][m] = "jobs"
    BY <2>1
  <2>3. Lists(<<>>, stage'[s], "inbox")
    BY <2>2, ListsNone
  <2>4. Lists(jobChan[s], stage'[s], "jobChan") /\ Lists(jobs[s], stage'[s], "jobs")
    BY <1>0, <1>p, <2>2, ListsKept DEF Channels
  <2>5. QED
    BY <2>1, <2>3, <2>4, LedgerStep DEF LedgerOf, Channels, SameService
<1>2. CASE ForwarderStop(s)
  <2>1. /\ \A m \in Msgs : stage'[s][m] = IF stage[s][m] = "fwd" THEN "lost" ELSE stage[s][m]
        /\ inbox' = inbox /\ jobChan' = jobChan /\ jobs' = jobs
        /\ \A t \in Services \ {s} : stage'[t] = stage[t]
    BY <1>2 DEF ForwarderStop, pubsub, chans, TypeOK
  <2>2. /\ \A m \in Msgs : stage'[s][m] = "inbox" <=> stage[s][m] = "inbox"
        /\ \A m \in Msgs : stage'[s][m] = "jobChan" <=> stage[s][m] = "jobChan"
        /\ \A m \in Msgs : stage'[s][m] = "jobs" <=> stage[s][m] = "jobs"
    BY <2>1
  <2>3. Lists(inbox[s], stage'[s], "inbox") /\ Lists(jobChan[s], stage'[s], "jobChan")
    BY <1>0, <1>p, <2>2, ListsKept DEF Channels
  <2>4. Lists(jobs[s], stage'[s], "jobs")
    BY <1>0, <1>p, <2>2, ListsKept DEF Channels
  <2>5. QED
    BY <2>1, <2>3, <2>4, LedgerStep DEF LedgerOf, Channels, SameService
<1>3. CASE Down(s)
  <2>1. /\ \A m \in Msgs :
             stage'[s][m] = CASE stage[s][m] \in InFlight -> "lost"
                              [] stage[s][m] \in {"inbox", "taken"} -> "missed"
                              [] OTHER -> stage[s][m]
        /\ inbox'[s] = <<>> /\ jobChan'[s] = <<>> /\ jobs'[s] = <<>>
        /\ \A t \in Services \ {s} : SameService(t)
    BY <1>3 DEF Down, TypeOK, SameService
  <2>2. \A m \in Msgs : stage'[s][m] \notin Queues
    BY <2>1 DEF Queues, InFlight, Waiting, Tasks
  <2>3. Channels(<<>>, <<>>, <<>>, stage'[s])
    BY <2>2, ListsNone DEF Channels, Queues
  <2>4. QED
    BY <2>1, <2>3, LedgerStep DEF LedgerOf
<1>4. QED
  BY <1>1, <1>2, <1>3

\* A message is delivered to the services that are subscribed.
LEMMA LedgerPublish ==
  ASSUME TypeOK, Ledger, NEW m \in Msgs, Publish(m)
  PROVE  Ledger'
<1>1. ASSUME NEW s \in Services PROVE LedgerOf(s)'
  <2>0. Channels(inbox[s], jobChan[s], jobs[s], stage[s])
    BY LedgerIs DEF LedgerOf
  <2>1. /\ stage[s] \in [Msgs -> Stages] /\ stage[s][m] = "unsent"
        /\ inbox[s] \in Seq(Msgs) /\ jobChan[s] \in Seq(Msgs) /\ jobs[s] \in Seq(Msgs)
    BY LedgerParts DEF Publish
  <2>2. /\ stage'[s] = [stage[s] EXCEPT ![m] = IF linked[s] THEN "inbox" ELSE "missed"]
        /\ inbox'[s] = IF linked[s] THEN Append(inbox[s], m) ELSE inbox[s]
        /\ jobChan' = jobChan /\ jobs' = jobs
    BY DEF Publish, chans
  <2>3. CASE linked[s]
    <3>1. stage'[s] = [stage[s] EXCEPT ![m] = "inbox"] /\ inbox'[s] = Append(inbox[s], m)
      BY <2>2, <2>3
    <3>2. Lists(Append(inbox[s], m), stage'[s], "inbox")
      BY <2>0, <2>1, <3>1, ListsAppend DEF Channels
    <3>3. Lists(jobChan[s], stage'[s], "jobChan")
      BY <2>0, <2>1, <3>1, ListsMove DEF Channels
    <3>4. Lists(jobs[s], stage'[s], "jobs")
      BY <2>0, <2>1, <3>1, ListsMove DEF Channels
    <3>5. QED
      BY <2>2, <3>1, <3>2, <3>3, <3>4 DEF LedgerOf, Channels
  <2>4. CASE ~linked[s]
    <3>1. stage'[s] = [stage[s] EXCEPT ![m] = "missed"] /\ inbox'[s] = inbox[s]
      BY <2>2, <2>4
    <3>2. Channels(inbox[s], jobChan[s], jobs[s], stage'[s])
      <4>1. stage[s][m] \notin Queues /\ "missed" \notin Queues
        BY <2>1 DEF Queues
      <4>2. QED
        BY <2>0, <2>1, <3>1, <4>1, ChannelsMove
    <3>3. QED
      BY <2>2, <3>1, <3>2 DEF LedgerOf
  <2>5. QED
    BY <2>3, <2>4
<1>2. QED
  BY <1>1, LedgerIs

LEMMA LedgerSubscriber ==
  ASSUME TypeOK, Ledger, NEW s \in Services, Subscriber(s)
  PROVE  Ledger'
<1>1. CASE Subscribe(s)
  BY <1>1, LedgerUntouched DEF Subscribe, chans
<1>2. CASE Receive(s)
  BY <1>2, LedgerTake
<1>3. ASSUME NEW m \in Msgs, \/ LockAcquired(s, m) \/ LockRefused(s, m)
                             \/ LockError(s, m) \/ AbandonOffer(s, m)
      PROVE  Ledger'
  <2>1. UNCHANGED <<inbox, chans>>
    BY <1>3 DEF LockAcquired, LockRefused, LockError, AbandonOffer, pubsub
  <2>2. \E from, to \in {"taken", "offered", "skipped", "released", "lost"} :
           Move(s, m, from, to)
    BY <1>3 DEF LockAcquired, LockRefused, LockError, AbandonOffer
  <2>3. QED
    BY <2>1, <2>2, LedgerInner DEF Queues
<1>4. ASSUME NEW m \in Msgs, SendToJobChan(s, m) PROVE Ledger'
  BY <1>4, LedgerPut DEF SendToJobChan, pubsub, Queues
<1>5. QED
  BY <1>1, <1>2, <1>3, <1>4 DEF Subscriber

LEMMA LedgerForwarder ==
  ASSUME TypeOK, Ledger, NEW s \in Services, Forwarder(s)
  PROVE  Ledger'
<1>1. ASSUME NEW m \in Msgs, ForwardPut(s, m) PROVE Ledger'
  BY <1>1, LedgerPut DEF ForwardPut, pubsub, Queues
<1>2. QED
  BY <1>1, LedgerTake, LedgerMany DEF Forwarder

LEMMA LedgerRunWorker ==
  ASSUME TypeOK, Ledger, NEW s \in Services, RunWorker(s)
  PROVE  Ledger'
<1>1. ASSUME NEW m \in Msgs, StartTask(s, m) \/ Drop(s, m) PROVE Ledger'
  BY <1>1, LedgerInner DEF StartTask, Drop, pubsub, Queues
<1>2. ASSUME NEW m \in Msgs, PutBack(s, m) PROVE Ledger'
  BY <1>2, LedgerPut DEF PutBack, pubsub, Queues
<1>3. CASE WorkerStop(s)
  BY <1>3, LedgerUntouched DEF WorkerStop, pubsub, chans
<1>4. QED
  BY <1>1, <1>2, <1>3, LedgerTake DEF RunWorker

LEMMA LedgerTask ==
  ASSUME TypeOK, Ledger, NEW s \in Services, Task(s)
  PROVE  Ledger'
<1>1. ASSUME NEW m \in Msgs, AcceptTask(s, m) PROVE Ledger'
  BY <1>1, LedgerInner DEF AcceptTask, pubsub, Queues
<1>2. ASSUME NEW m \in Msgs, FinishTask(s, m) PROVE Ledger'
  BY <1>2, LedgerInner DEF FinishTask, pubsub, Queues
<1>3. ASSUME NEW m \in Msgs, RefuseTask(s, m) PROVE Ledger'
  <2>1. CASE /\ Move(s, m, "checking", "jobs")
             /\ jobs' = [jobs EXCEPT ![s] = Append(@, m)]
    <3>1. "checking" \notin Queues /\ UNCHANGED <<inbox, jobChan>>
      BY <1>3 DEF RefuseTask, pubsub, Queues
    <3>2. QED
      BY <2>1, <3>1, LedgerPut
  <2>2. CASE Move(s, m, "checking", "dropped") /\ UNCHANGED jobs
    <3>1. /\ "checking" \notin Queues /\ "dropped" \notin Queues
          /\ UNCHANGED <<inbox, chans>>
      BY <1>3, <2>2 DEF RefuseTask, pubsub, chans, Queues
    <3>2. QED
      BY <2>2, <3>1, LedgerInner
  <2>3. QED
    BY <1>3, <2>1, <2>2 DEF RefuseTask
<1>4. CASE ReleaseSlot(s)
  BY <1>4, LedgerUntouched DEF ReleaseSlot, pubsub, chans
<1>5. QED
  BY <1>1, <1>2, <1>3, <1>4 DEF Task

LEMMA LedgerMain ==
  ASSUME TypeOK, Ledger, NEW s \in Services, Main(s) \/ Crash(s)
  PROVE  Ledger'
<1>1. CASE Start(s) \/ Stop(s) \/ StopReturns(s) \/ Cancel(s)
  <2>1. UNCHANGED <<stage, pubsub, chans>>
    BY <1>1 DEF Start, Stop, StopReturns, Cancel
  <2>2. QED
    BY <2>1, LedgerUntouched DEF pubsub, chans
<1>2. CASE Down(s)
  BY <1>2, LedgerMany
<1>3. QED
  BY <1>1, <1>2 DEF Main, Exit, Crash

LEMMA LedgerNext == TypeOK /\ Ledger /\ [Next]_vars => Ledger'
<1> SUFFICES ASSUME TypeOK, Ledger, [Next]_vars PROVE Ledger'
  OBVIOUS
<1>1. CASE \E j \in Jobs : LockExpires(j)
  BY <1>1, LedgerUntouched DEF LockExpires, pubsub, chans
<1>2. CASE UNCHANGED vars
  BY <1>2, LedgerUntouched DEF vars, pubsub, chans
<1>3. QED
  BY <1>1, <1>2, LedgerPublish, LedgerSubscriber, LedgerForwarder,
     LedgerRunWorker, LedgerTask, LedgerMain, LedgerMany DEF Next

LEMMA InitLedger == Init => Ledger
BY DEF Init, Ledger, Holds

\* No job is lost or duplicated on its way through the channels: inbox,
\* jobChan and w.jobs hold exactly the claims that are in them, each once,
\* however put-backs, CPU requeues, restarts and lost connections interleave.
THEOREM LedgerCorrect == Spec => []Ledger
<1>1. TypeOK /\ SlotsAccounted /\ Ledger /\ [Next]_vars
        => (TypeOK /\ SlotsAccounted /\ Ledger)'
  BY TypeStep, SlotsStep, LedgerNext
<1>2. Init => TypeOK /\ SlotsAccounted /\ Ledger
  BY InitHolds, InitLedger
<1>3. QED
  BY <1>1, <1>2, PTL DEF Spec

-----------------------------------------------------------------------------
(* Giving a job up                                                         *)

\* Only runWorker and processJob give a job up, and only on a full w.jobs.
LEMMA DroppedWhenFull ==
  ASSUME TypeOK, [Next]_vars, NEW s \in Services, NEW m \in Msgs,
         stage[s][m] # "dropped", stage'[s][m] = "dropped"
  PROVE  Len(jobs[s]) = JobsCap /\ stage[s][m] \in {"hand", "checking"}
<1>1. ASSUME NEW t \in Services, NEW n \in Msgs, NEW from, NEW to, Move(t, n, from, to)
      PROVE  to = "dropped" /\ t = s /\ n = m /\ stage[s][m] = from
  BY <1>1 DEF Move, TypeOK
<1>2. ASSUME NEW n \in Msgs, Publish(n) PROVE FALSE
  BY <1>2 DEF Publish, TypeOK
<1>3. ASSUME NEW t \in Services, Subscriber(t) PROVE FALSE
  <2>1. CASE Subscribe(t)
    BY <2>1 DEF Subscribe
  <2>2. CASE Receive(t)
    <3>1. Head(inbox[t]) \in Msgs
      BY <2>2 DEF Receive, TypeOK
    <3>2. QED
      BY <1>1, <2>2, <3>1 DEF Receive
  <2>3. ASSUME NEW n \in Msgs, \/ LockAcquired(t, n) \/ LockRefused(t, n)
                               \/ LockError(t, n) \/ SendToJobChan(t, n)
                               \/ AbandonOffer(t, n)
        PROVE  FALSE
    <3>1. \E from, to \in Stages \ {"dropped"} : Move(t, n, from, to)
      BY <2>3, StageValues
      DEF LockAcquired, LockRefused, LockError, SendToJobChan, AbandonOffer
    <3>2. QED
      BY <1>1, <3>1
  <2>4. QED
    BY <1>3, <2>1, <2>2, <2>3 DEF Subscriber
<1>4. ASSUME NEW t \in Services, Forwarder(t) PROVE FALSE
  <2>1. CASE ForwardTake(t)
    <3>1. Head(jobChan[t]) \in Msgs
      BY <2>1 DEF ForwardTake, TypeOK
    <3>2. QED
      BY <1>1, <2>1, <3>1 DEF ForwardTake
  <2>2. CASE ForwarderStop(t)
    BY <2>2 DEF ForwarderStop, TypeOK
  <2>3. ASSUME NEW n \in Msgs, ForwardPut(t, n) PROVE FALSE
    BY <1>1, <2>3 DEF ForwardPut
  <2>4. QED
    BY <1>4, <2>1, <2>2, <2>3 DEF Forwarder
<1>5. ASSUME NEW t \in Services, RunWorker(t)
      PROVE  Len(jobs[s]) = JobsCap /\ stage[s][m] \in {"hand", "checking"}
  <2>1. CASE WorkerTake(t)
    <3>1. Head(jobs[t]) \in Msgs
      BY <2>1 DEF WorkerTake, TypeOK
    <3>2. QED
      BY <1>1, <2>1, <3>1 DEF WorkerTake
  <2>2. CASE WorkerStop(t)
    BY <2>2 DEF WorkerStop
  <2>3. ASSUME NEW n \in Msgs, StartTask(t, n) \/ PutBack(t, n) PROVE FALSE
    <3>1. \E to \in {"checking", "jobs"} : Move(t, n, "hand", to)
      BY <2>3 DEF StartTask, PutBack
    <3>2. QED
      BY <1>1, <3>1
  <2>4. ASSUME NEW n \in Msgs, Drop(t, n)
        PROVE  Len(jobs[s]) = JobsCap /\ stage[s][m] = "hand"
    BY <1>1, <2>4 DEF Drop
  <2>5. QED
    BY <1>5, <2>1, <2>2, <2>3, <2>4 DEF RunWorker
<1>6. ASSUME NEW t \in Services, Task(t)
      PROVE  Len(jobs[s]) = JobsCap /\ stage[s][m] \in {"hand", "checking"}
  <2>1. CASE ReleaseSlot(t)
    BY <2>1 DEF ReleaseSlot
  <2>2. ASSUME NEW n \in Msgs, AcceptTask(t, n) \/ FinishTask(t, n) PROVE FALSE
    <3>1. \E from : \E to \in {"encoding", "done", "failed"} : Move(t, n, from, to)
      BY <2>2 DEF AcceptTask, FinishTask
    <3>2. QED
      BY <1>1, <3>1
  <2>3. ASSUME NEW n \in Msgs, RefuseTask(t, n)
        PROVE  Len(jobs[s]) = JobsCap /\ stage[s][m] = "checking"
    <3>1. ~Move(t, n, "checking", "jobs")
      BY <1>1
    <3>2. Move(t, n, "checking", "dropped") /\ Len(jobs[t]) = JobsCap
      BY <2>3, <3>1 DEF RefuseTask
    <3>3. QED
      BY <1>1, <3>2
  <2>4. QED
    BY <1>6, <2>1, <2>2, <2>3 DEF Task
<1>7. ASSUME NEW t \in Services, Main(t) \/ Crash(t) PROVE FALSE
  <2>1. CASE Start(t) \/ Stop(t) \/ StopReturns(t) \/ Cancel(t)
    BY <2>1 DEF Start, Stop, StopReturns, Cancel
  <2>2. CASE Down(t)
    <3>1. CASE t = s
      <4>1. stage'[s][m] = CASE stage[s][m] \in InFlight -> "lost"
                             [] stage[s][m] \in {"inbox", "taken"} -> "missed"
                             [] OTHER -> stage[s][m]
        BY <2>2, <3>1 DEF Down, TypeOK
      <4>2. QED
        BY <4>1
    <3>2. CASE t # s
      BY <2>2, <3>2 DEF Down, TypeOK
    <3>3. QED
      BY <3>1, <3>2
  <2>3. QED
    BY <1>7, <2>1, <2>2 DEF Main, Exit, Crash
<1>8. ASSUME NEW t \in Services, ConnLost(t) PROVE FALSE
  BY <1>8 DEF ConnLost, TypeOK
<1>9. CASE \E j \in Jobs : LockExpires(j)
  BY <1>9 DEF LockExpires
<1>10. CASE UNCHANGED vars
  BY <1>10 DEF vars
<1>11. QED
  BY <1>2, <1>3, <1>4, <1>5, <1>6, <1>7, <1>8, <1>9, <1>10 DEF Next

\* The claims in w.jobs are as many as its length.
LEMMA JobsCounted ==
  ASSUME TypeOK, Ledger, NEW s \in Services
  PROVE  /\ IsFiniteSet(At(s, {"jobs"}))
         /\ Cardinality(At(s, {"jobs"})) = Len(jobs[s])
<1> DEFINE q == jobs[s]
           f == [i \in 1..Len(q) |-> q[i]]
           T == At(s, {"jobs"})
<1>1. q \in Seq(Msgs) /\ Len(q) \in Nat /\ \A i \in 1..Len(q) : q[i] \in Msgs
  BY DEF TypeOK
<1>2. /\ \A i \in 1..Len(q) : stage[s][q[i]] = "jobs"
      /\ \A i, k \in 1..Len(q) : q[i] = q[k] => i = k
      /\ \A m \in Msgs : stage[s][m] = "jobs" => \E i \in 1..Len(q) : q[i] = m
  BY DEF Ledger, Holds
<1> HIDE DEF q
<1>3. /\ \A i \in 1..Len(q) : f[i] \in T
      /\ \A i, k \in 1..Len(q) : f[i] = f[k] => i = k
      /\ \A x \in T : \E i \in 1..Len(q) : f[i] = x
  BY <1>1, <1>2 DEF At
<1> HIDE DEF T
<1>4. f \in Bijection(1..Len(q), T)
  BY <1>3 DEF Bijection, Injection, Surjection, IsInjective
<1>5. ExistsBijection(1..Len(q), T)
  BY <1>4 DEF ExistsBijection
<1>6. IsFiniteSet(1..Len(q)) /\ Cardinality(1..Len(q)) = Len(q)
  BY <1>1, FS_Interval
<1>7. IsFiniteSet(T) /\ Cardinality(T) = Len(q)
  BY <1>5, <1>6, FS_Bijection
<1>8. QED
  BY <1>7 DEF T, q

\* A job is given up only when the service is over-committed: more claims in
\* flight than w.jobs has room for.  The job in hand comes on top of a full
\* channel, whose places are taken by as many other claims.
THEOREM DropsExplained == Spec => DropOnlyOverCommitted
<1>1. TypeOK /\ Ledger /\ [Next]_vars =>
        \A s \in Services, m \in Msgs :
          stage[s][m] # "dropped" /\ stage'[s][m] = "dropped"
            => Cardinality(At(s, InFlight)) > JobsCap
  <2> SUFFICES ASSUME TypeOK, Ledger, [Next]_vars, NEW s \in Services, NEW m \in Msgs,
                      stage[s][m] # "dropped", stage'[s][m] = "dropped"
               PROVE  Cardinality(At(s, InFlight)) > JobsCap
    OBVIOUS
  <2> DEFINE queued == At(s, {"jobs"})
             flying == At(s, InFlight)
  <2>1. Len(jobs[s]) = JobsCap /\ stage[s][m] \in {"hand", "checking"}
    BY DroppedWhenFull
  <2>2. IsFiniteSet(queued) /\ Cardinality(queued) = JobsCap
    BY <2>1, JobsCounted
  <2>3. m \notin queued
    BY <2>1 DEF At
  <2>4. queued \cup {m} \subseteq flying
    BY <2>1 DEF At, InFlight, Waiting, Tasks
  <2>5. IsFiniteSet(flying)
    BY DispatchAssumption, FS_Subset DEF At
  <2> HIDE DEF queued, flying
  <2>6. Cardinality(queued \cup {m}) = JobsCap + 1
    BY <2>2, <2>3, FS_AddElement
  <2>7. Cardinality(queued \cup {m}) <= Cardinality(flying)
    BY <2>4, <2>5, FS_Subset
  <2>8. Cardinality(flying) \in Nat /\ JobsCap \in Nat
    BY <2>5, FS_CardinalityType, DispatchAssumption
  <2>9. QED
    BY <2>6, <2>7, <2>8 DEF flying
<1>2. TypeOK /\ SlotsAccounted /\ Ledger /\ [Next]_vars
        => (TypeOK /\ SlotsAccounted /\ Ledger)'
  BY TypeStep, SlotsStep, LedgerNext
<1>3. Init => TypeOK /\ SlotsAccounted /\ Ledger
  BY InitHolds, InitLedger
<1>4. QED
  BY <1>1, <1>2, <1>3, PTL DEF Spec, DropOnlyOverCommitted

-----------------------------------------------------------------------------
(* Nothing is spawned after a stop                                         *)

HandsOf(s) == At(s, {"hand"})

\* Every job in hand has its runWorker, and a service whose Stop has returned
\* has no runWorker left.
Hands ==
  \A s \in Services :
    /\ Cardinality(HandsOf(s)) <= workers[s]
    /\ mode[s] \in {"down", "stopped", "cancelled"} => workers[s] = 0

LEMMA HandsFinite ==
  ASSUME NEW s \in Services
  PROVE  IsFiniteSet(HandsOf(s)) /\ Cardinality(HandsOf(s)) \in Nat
BY DispatchAssumption, FS_Subset, FS_CardinalityType DEF HandsOf, At

\* Hands are emptied, mode and workers stand still.
LEMMA HandsFewer ==
  ASSUME TypeOK, Hands, UNCHANGED <<mode, workers>>,
         \A t \in Services, n \in Msgs : stage'[t][n] = "hand" => stage[t][n] = "hand"
  PROVE  Hands'
<1> SUFFICES ASSUME NEW t \in Services
             PROVE  /\ Cardinality(HandsOf(t)') <= workers[t]
                    /\ mode[t] \in {"down", "stopped", "cancelled"} => workers[t] = 0
  BY DEF Hands
<1>1. HandsOf(t)' \subseteq HandsOf(t)
  BY DEF HandsOf, At
<1>2. /\ Cardinality(HandsOf(t)') <= Cardinality(HandsOf(t))
      /\ IsFiniteSet(HandsOf(t)')
  BY <1>1, HandsFinite, FS_Subset
<1>3. Cardinality(HandsOf(t)') \in Nat /\ Cardinality(HandsOf(t)) \in Nat /\ workers[t] \in Nat
  BY <1>2, HandsFinite, FS_CardinalityType DEF TypeOK
<1>4. QED
  BY <1>2, <1>3 DEF Hands

LEMMA MovedOff ==
  ASSUME TypeOK, NEW s \in Services, NEW m \in Msgs, NEW from, NEW to,
         Move(s, m, from, to), to # "hand"
  PROVE  \A t \in Services, n \in Msgs : stage'[t][n] = "hand" => stage[t][n] = "hand"
BY DEF Move, TypeOK

\* A runWorker receives from w.jobs.
LEMMA HandsTake ==
  ASSUME TypeOK, Hands, NEW s \in Services, WorkerTake(s)
  PROVE  Hands'
<1> DEFINE m == Head(jobs[s])
<1>1. m \in Msgs
  BY DEF WorkerTake, TypeOK
<1>2. Move(s, m, "jobs", "hand") /\ mode' = mode /\ workers' = workers /\ IdleWorker(s)
  BY DEF WorkerTake, process
<1> HIDE DEF m
<1>3. HandsOf(s)' = HandsOf(s) \cup {m}
  BY <1>1, <1>2 DEF HandsOf, At, Move, TypeOK
<1>4. \A t \in Services \ {s} : HandsOf(t)' = HandsOf(t)
  BY <1>1, <1>2 DEF HandsOf, At, Move, TypeOK
<1>5. Cardinality(HandsOf(s)') <= Cardinality(HandsOf(s)) + 1
  BY <1>3, HandsFinite, FS_AddElement
<1>6. Cardinality(HandsOf(s)') \in Nat
  BY <1>3, HandsFinite, FS_AddElement, FS_CardinalityType
<1>7. Cardinality(HandsOf(s)) < workers[s] /\ workers[s] \in Nat
  BY <1>2 DEF IdleWorker, HandsOf, TypeOK
<1>8. Cardinality(HandsOf(s)') <= workers[s]
  BY <1>5, <1>6, <1>7, HandsFinite
<1>9. QED
  BY <1>2, <1>4, <1>8 DEF Hands

\* A runWorker with nothing in hand returns.
LEMMA HandsStop ==
  ASSUME TypeOK, Hands, NEW s \in Services, WorkerStop(s)
  PROVE  Hands'
<1>1. /\ stage' = stage /\ mode' = mode /\ workers' = [workers EXCEPT ![s] = @ - 1]
      /\ IdleWorker(s)
  BY DEF WorkerStop
<1>2. \A t \in Services : HandsOf(t)' = HandsOf(t)
  BY <1>1 DEF HandsOf, At
<1>3. Cardinality(HandsOf(s)) < workers[s] /\ workers \in [Services -> Nat]
  BY <1>1 DEF IdleWorker, HandsOf, TypeOK
<1>4. workers'[s] = workers[s] - 1 /\ \A t \in Services \ {s} : workers'[t] = workers[t]
  BY <1>1, <1>3
<1>5. ASSUME NEW t \in Services
      PROVE  /\ Cardinality(HandsOf(t)') <= workers'[t]
             /\ mode'[t] \in {"down", "stopped", "cancelled"} => workers'[t] = 0
  <2>1. CASE t = s
    <3>1. Cardinality(HandsOf(s)) \in Nat /\ workers[s] \in Nat
      BY <1>3, HandsFinite
    <3>2. workers[s] # 0 /\ Cardinality(HandsOf(s)) <= workers'[s]
      BY <1>3, <1>4, <3>1
    <3>3. QED
      BY <1>1, <1>2, <2>1, <3>2 DEF Hands
  <2>2. CASE t # s
    BY <1>1, <1>2, <1>4, <2>2 DEF Hands
  <2>3. QED
    BY <2>1, <2>2
<1>6. QED
  BY <1>5 DEF Hands

\* main starts, waits for, cancels or loses the goroutines.
LEMMA HandsMain ==
  ASSUME TypeOK, Hands, NEW s \in Services, Main(s) \/ Crash(s)
  PROVE  Hands'
<1>1. ASSUME \A t \in Services : HandsOf(t)' = HandsOf(t),
             \A t \in Services \ {s} : mode'[t] = mode[t] /\ workers'[t] = workers[t],
             Cardinality(HandsOf(s)) <= workers'[s],
             mode'[s] \in {"down", "stopped", "cancelled"} => workers'[s] = 0
      PROVE  Hands'
  BY <1>1 DEF Hands
<1>2. CASE Start(s)
  <2>1. /\ stage' = stage /\ mode' = [mode EXCEPT ![s] = "running"]
        /\ workers' = [workers EXCEPT ![s] = WorkerCount] /\ mode[s] = "down"
    BY <1>2 DEF Start
  <2>2. /\ mode'[s] = "running" /\ workers'[s] = WorkerCount
        /\ \A t \in Services \ {s} : mode'[t] = mode[t] /\ workers'[t] = workers[t]
    BY <2>1 DEF TypeOK
  <2>3. Cardinality(HandsOf(s)) <= 0
    BY <2>1 DEF Hands
  <2>4. Cardinality(HandsOf(s)) <= WorkerCount
    BY <2>3, HandsFinite, DispatchAssumption
  <2>5. \A t \in Services : HandsOf(t)' = HandsOf(t)
    BY <2>1 DEF HandsOf, At
  <2>6. QED
    BY <1>1, <2>2, <2>4, <2>5
<1>3. CASE Stop(s) \/ StopReturns(s) \/ Cancel(s)
  <2>1. /\ stage' = stage /\ workers' = workers
        /\ mode' \in {[mode EXCEPT ![s] = x] : x \in {"stopping", "stopped", "cancelled"}}
        /\ mode'[s] \in {"stopped", "cancelled"} => workers[s] = 0
        /\ mode'[s] # "down"
    BY <1>3 DEF Stop, StopReturns, Cancel, Hands, TypeOK
  <2>2. \A t \in Services \ {s} : mode'[t] = mode[t] /\ workers'[t] = workers[t]
    BY <2>1 DEF TypeOK
  <2>3. \A t \in Services : HandsOf(t)' = HandsOf(t)
    BY <2>1 DEF HandsOf, At
  <2>4. Cardinality(HandsOf(s)) <= workers'[s]
    BY <2>1 DEF Hands
  <2>5. QED
    BY <1>1, <2>1, <2>2, <2>3, <2>4
<1>4. CASE Down(s)
  <2>1. HandsOf(s)' = {}
    BY <1>4 DEF Down, HandsOf, At, InFlight, Waiting, TypeOK
  <2>2. \A t \in Services \ {s} : HandsOf(t)' = HandsOf(t)
    BY <1>4 DEF Down, HandsOf, At, TypeOK
  <2>3. /\ workers'[s] = 0
        /\ \A t \in Services \ {s} : mode'[t] = mode[t] /\ workers'[t] = workers[t]
    BY <1>4 DEF Down, TypeOK
  <2>4. Cardinality(HandsOf(s)') <= workers'[s]
    BY <2>1, <2>3, FS_EmptySet
  <2>5. QED
    BY <2>2, <2>3, <2>4 DEF Hands
<1>5. QED
  BY <1>2, <1>3, <1>4 DEF Main, Exit, Crash

LEMMA HandsNext == TypeOK /\ Hands /\ [Next]_vars => Hands'
<1> SUFFICES ASSUME TypeOK, Hands, [Next]_vars PROVE Hands'
  OBVIOUS
<1>1. ASSUME NEW m \in Msgs, Publish(m) PROVE Hands'
  BY <1>1, HandsFewer DEF Publish, process, TypeOK
<1>2. ASSUME NEW s \in Services, Subscriber(s) PROVE Hands'
  <2>1. CASE Subscribe(s)
    BY <2>1, HandsFewer DEF Subscribe, process
  <2>2. CASE Receive(s)
    <3>1. Head(inbox[s]) \in Msgs
      BY <2>2 DEF Receive, TypeOK
    <3>2. QED
      BY <2>2, <3>1, MovedOff, HandsFewer DEF Receive, process
  <2>3. ASSUME NEW m \in Msgs, \/ LockAcquired(s, m) \/ LockRefused(s, m)
                               \/ LockError(s, m) \/ SendToJobChan(s, m)
                               \/ AbandonOffer(s, m)
        PROVE  Hands'
    <3>1. /\ UNCHANGED <<mode, workers>>
          /\ \E from, to \in Stages \ {"hand"} : Move(s, m, from, to)
      BY <2>3, StageValues
      DEF LockAcquired, LockRefused, LockError, SendToJobChan, AbandonOffer, process
    <3>2. QED
      BY <3>1, MovedOff, HandsFewer
  <2>4. QED
    BY <1>2, <2>1, <2>2, <2>3 DEF Subscriber
<1>3. ASSUME NEW s \in Services, Forwarder(s) PROVE Hands'
  <2>1. CASE ForwardTake(s)
    <3>1. Head(jobChan[s]) \in Msgs
      BY <2>1 DEF ForwardTake, TypeOK
    <3>2. QED
      BY <2>1, <3>1, MovedOff, HandsFewer DEF ForwardTake, process
  <2>2. CASE ForwarderStop(s)
    BY <2>2, HandsFewer DEF ForwarderStop, TypeOK
  <2>3. ASSUME NEW m \in Msgs, ForwardPut(s, m) PROVE Hands'
    BY <2>3, MovedOff, HandsFewer DEF ForwardPut, process
  <2>4. QED
    BY <1>3, <2>1, <2>2, <2>3 DEF Forwarder
<1>4. ASSUME NEW s \in Services, RunWorker(s) PROVE Hands'
  <2>1. ASSUME NEW m \in Msgs, StartTask(s, m) \/ PutBack(s, m) \/ Drop(s, m)
        PROVE  Hands'
    <3>1. /\ UNCHANGED <<mode, workers>>
          /\ \E to \in {"checking", "jobs", "dropped"} : Move(s, m, "hand", to)
      BY <2>1 DEF StartTask, PutBack, Drop, process
    <3>2. QED
      BY <3>1, MovedOff, HandsFewer
  <2>2. QED
    BY <1>4, <2>1, HandsTake, HandsStop DEF RunWorker
<1>5. ASSUME NEW s \in Services, Task(s) PROVE Hands'
  <2>1. CASE ReleaseSlot(s)
    BY <2>1, HandsFewer DEF ReleaseSlot, process
  <2>2. ASSUME NEW m \in Msgs, AcceptTask(s, m) \/ RefuseTask(s, m) \/ FinishTask(s, m)
        PROVE  Hands'
    <3>1. /\ UNCHANGED <<mode, workers>>
          /\ \E from, to \in Stages \ {"hand"} : Move(s, m, from, to)
      BY <2>2, StageValues DEF AcceptTask, RefuseTask, FinishTask, process
    <3>2. QED
      BY <3>1, MovedOff, HandsFewer
  <2>3. QED
    BY <1>5, <2>1, <2>2 DEF Task
<1>6. ASSUME NEW s \in Services, Main(s) \/ Crash(s) PROVE Hands'
  BY <1>6, HandsMain
<1>7. ASSUME NEW s \in Services, ConnLost(s) PROVE Hands'
  BY <1>7, HandsFewer DEF ConnLost, process, TypeOK
<1>8. CASE \E j \in Jobs : LockExpires(j)
  BY <1>8, HandsFewer DEF LockExpires, process
<1>9. CASE UNCHANGED vars
  BY <1>9, HandsFewer DEF vars, process
<1>10. QED
  BY <1>1, <1>2, <1>3, <1>4, <1>5, <1>6, <1>7, <1>8, <1>9 DEF Next

LEMMA InitHands == Init => Hands
<1> SUFFICES ASSUME Init, NEW s \in Services
             PROVE  Cardinality(HandsOf(s)) <= workers[s] /\ workers[s] = 0
  BY DEF Hands
<1>1. HandsOf(s) = {} /\ workers[s] = 0
  BY DEF Init, HandsOf, At
<1>2. QED
  BY <1>1, FS_EmptySet

\* After Stop has returned no runWorker spawns, puts back or drops a job:
\* each runWorker the WaitGroup counted has returned, and with empty hands.
THEOREM StopEndsSpawning == Spec => NoTaskAfterStop
<1>1. TypeOK /\ Hands =>
        \A s \in Services, m \in Msgs :
          stage[s][m] = "hand" => mode[s] \in {"running", "stopping"}
  <2> SUFFICES ASSUME TypeOK, Hands, NEW s \in Services, NEW m \in Msgs,
                      stage[s][m] = "hand"
               PROVE  mode[s] \in {"running", "stopping"}
    OBVIOUS
  <2>1. HandsOf(s) # {}
    BY DEF HandsOf, At
  <2>2. Cardinality(HandsOf(s)) # 0
    BY <2>1, HandsFinite, FS_EmptySet
  <2>3. workers[s] # 0
    BY <2>2, HandsFinite DEF Hands
  <2>4. QED
    BY <2>3 DEF Hands, TypeOK, Modes
<1>2. TypeOK /\ SlotsAccounted /\ Hands /\ [Next]_vars
        => (TypeOK /\ SlotsAccounted /\ Hands)'
  BY TypeStep, SlotsStep, HandsNext
<1>3. Init => TypeOK /\ SlotsAccounted /\ Hands
  BY InitHolds, InitHands
<1>4. TypeOK /\ Hands /\ [Next]_vars =>
        \A s \in Services, m \in Msgs :
          stage[s][m] = "hand" /\ stage'[s][m] # "hand"
            => mode[s] \in {"running", "stopping"} \/ ~Up(s)'
  BY <1>1
<1>5. QED
  BY <1>2, <1>3, <1>4, PTL DEF Spec, NoTaskAfterStop

=============================================================================
