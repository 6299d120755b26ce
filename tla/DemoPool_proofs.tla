--------------------------- MODULE DemoPool_proofs ---------------------------
(***************************************************************************)
(* Proofs about DemoPool, for any number of workers and tasks, any limits  *)
(* and any number of broken connections.                                   *)
(***************************************************************************)
EXTENDS DemoPool, SequenceTheorems, TLAPS

\* A worker has a task from the pop to the end of the process, ...
Handed == \A w \in Workers : IF pc[w] \in {"popped", "started", "waiting"}
                             THEN task[w] \in Tasks ELSE task[w] = None

\* ... nobody works before Start, ...
NotStarted == main = "created" => \A w \in Workers : pc[w] = "new" /\ cgroup[w]

\* ... a worker whose cgroup is deleted, or is next to be, has left its loop.
Left ==
  /\ main = "delete" => pc[target] = "returned"
  /\ \A w \in Workers : ~cgroup[w] => pc[w] = "returned"

IInv == TypeOK /\ Handed /\ NotStarted /\ Left

-----------------------------------------------------------------------------
(* Lemmas                                                                  *)

\* A percentage becomes a cpu.shares that the kernel accepts.
LEMMA SharesFit ==
  ASSUME NEW p \in 1..100
  PROVE  Shares(p) \in CPUShares
<1>1. (1024 * p) \div 100 \in 0..1024
  OBVIOUS
<1>2. QED
  BY <1>1 DEF Shares, CPUShares

\* A step of one worker's loop that leaves main and the cgroups alone: it is
\* not at the end of its loop, and has a task where it must have one.
LEMMA WorkerMoves ==
  ASSUME IInv, TypeOK', NEW w \in Workers, NEW at, NEW t,
         pc[w] \notin {"new", "returned"},
         pc' = [pc EXCEPT ![w] = at], task' = [task EXCEPT ![w] = t],
         IF at \in {"popped", "started", "waiting"} THEN t \in Tasks ELSE t = None,
         UNCHANGED <<main, target, cgroup>>
  PROVE  IInv'
<1>1. /\ pc'[w] = at /\ task'[w] = t
      /\ \A v \in Workers \ {w} : pc'[v] = pc[v] /\ task'[v] = task[v]
  BY DEF IInv, TypeOK
<1>2. Handed'
  BY <1>1 DEF IInv, Handed
<1>3. NotStarted'
  BY DEF IInv, NotStarted
<1>4. Left'
  <2>1. target \in Workers
    BY DEF IInv, TypeOK
  <2>2. QED
    BY <1>1, <2>1 DEF IInv, Left
<1>5. QED
  BY <1>2, <1>3, <1>4 DEF IInv

\* The end of a task.
LEMMA BackStep ==
  ASSUME IInv, NEW w \in Workers, NEW from \in {"popped", "waiting"},
         NEW f \in {"done", "failed"}, BackToSelect(w, from, f),
         UNCHANGED <<queue, limits, stop, breaks>>
  PROVE  IInv'
<1>1. /\ TypeOK /\ pc[w] = from /\ task[w] \in Tasks
      /\ pc' = [pc EXCEPT ![w] = "select"] /\ task' = [task EXCEPT ![w] = None]
      /\ fate' = [fate EXCEPT ![task[w]] = f]
      /\ UNCHANGED <<queue, shares, cgroup, main, target, breaks>>
  BY DEF IInv, Handed, BackToSelect, Goto, Settle, limits, stop
<1>2. TypeOK'
  BY <1>1 DEF TypeOK
<1>3. QED
  BY <1>1, <1>2, WorkerMoves

-----------------------------------------------------------------------------
(* The steps                                                               *)

LEMMA InitInv == Init => IInv
<1> SUFFICES ASSUME Init PROVE IInv
  OBVIOUS
<1>1. queue \in Seq(Tasks)
  BY EmptySeq DEF Init
<1>2. TypeOK
  BY <1>1, DemoAssumption DEF Init, TypeOK, Workers, MainStates, CPUShares
<1>3. Handed /\ NotStarted /\ Left
  BY DEF Init, Handed, NotStarted, Left
<1>4. QED
  BY <1>2, <1>3 DEF IInv

LEMMA SubmitStep ==
  ASSUME IInv, NEW t \in Tasks, Submit(t)
  PROVE  IInv'
<1>1. /\ TypeOK /\ queue' = Append(queue, t) /\ fate' = [fate EXCEPT ![t] = "queued"]
      /\ UNCHANGED <<pc, task, shares, cgroup, main, target, breaks>>
  BY DEF IInv, Submit, Settle, loop, limits, stop
<1>2. queue' \in Seq(Tasks)
  BY <1>1, AppendProperties DEF TypeOK
<1>3. TypeOK'
  BY <1>1, <1>2 DEF TypeOK
<1>4. QED
  BY <1>1, <1>3 DEF IInv, Handed, NotStarted, Left

\* The head is a task and the rest is a list of tasks.
LEMMA HeadIs ==
  ASSUME IInv, queue # <<>>
  PROVE  Head(queue) \in Tasks /\ Tail(queue) \in Seq(Tasks)
BY HeadTailProperties DEF IInv, TypeOK

LEMMA PopSteps ==
  ASSUME IInv, NEW w \in Workers, EnterPop(w) \/ Pop(w) \/ PopFails(w)
  PROVE  IInv'
<1>1. TypeOK /\ (pc[w] \in {"select", "blpop"} => task[w] = None)
  BY DEF IInv, Handed
<1>2. CASE EnterPop(w)
  <2>1. /\ pc[w] = "select" /\ pc' = [pc EXCEPT ![w] = "blpop"] /\ task' = task
        /\ UNCHANGED <<queue, fate, shares, cgroup, main, target, breaks>>
    BY <1>2 DEF EnterPop, Goto, redis, limits, stop
  <2>2. TypeOK' /\ task' = [task EXCEPT ![w] = None]
    BY <1>1, <2>1 DEF TypeOK
  <2>3. QED
    BY <2>1, <2>2, WorkerMoves
<1>3. CASE Pop(w)
  <2>1. /\ pc[w] = "blpop" /\ pc' = [pc EXCEPT ![w] = "popped"] /\ queue # <<>>
        /\ task' = [task EXCEPT ![w] = Head(queue)] /\ queue' = Tail(queue)
        /\ fate' = [fate EXCEPT ![Head(queue)] = "held"]
        /\ UNCHANGED <<shares, cgroup, main, target, breaks>>
    BY <1>3 DEF Pop, Goto, Settle, limits, stop
  <2>2. Head(queue) \in Tasks /\ Tail(queue) \in Seq(Tasks)
    BY <2>1, HeadIs
  <2>3. TypeOK'
    BY <1>1, <2>1, <2>2 DEF TypeOK
  <2>4. QED
    BY <2>1, <2>2, <2>3, WorkerMoves
<1>4. CASE PopFails(w)
  <2>1. /\ breaks < Breaks /\ breaks' = breaks + 1
        /\ pc[w] = "blpop" /\ pc' = [pc EXCEPT ![w] = "select"] /\ task' = task
        /\ UNCHANGED <<shares, cgroup, main, target>>
    BY <1>4 DEF PopFails, Goto, limits, stop
  <2>2. queue' \in Seq(Tasks) /\ fate' \in [Tasks -> {"unsent", "queued", "held", "done",
                                                       "failed", "lost"}]
    <3>1. CASE UNCHANGED redis
      BY <1>1, <3>1 DEF redis, TypeOK
    <3>2. CASE queue # <<>> /\ queue' = Tail(queue) /\ Settle(Head(queue), "lost")
      BY <1>1, <3>2, HeadIs DEF Settle, TypeOK
    <3>3. QED
      BY <1>4, <3>1, <3>2 DEF PopFails
  <2>3. breaks' \in 0..Breaks
    BY <1>1, <2>1, DemoAssumption DEF TypeOK
  <2>4. TypeOK' /\ task' = [task EXCEPT ![w] = None]
    BY <1>1, <2>1, <2>2, <2>3 DEF TypeOK
  <2>5. QED
    BY <2>1, <2>4, WorkerMoves
<1>5. QED
  BY <1>2, <1>3, <1>4

LEMMA EncodeSteps ==
  ASSUME IInv, NEW w \in Workers,
         \/ DecodeFails(w) \/ StartFFmpeg(w) \/ StartFails(w)
         \/ LimitCPU(w) \/ FFmpegExits(w)
  PROVE  IInv'
<1>1. TypeOK /\ (pc[w] \in {"popped", "started", "waiting"} => task[w] \in Tasks)
  BY DEF IInv, Handed
<1>2. CASE DecodeFails(w) \/ StartFails(w) \/ FFmpegExits(w)
  BY <1>2, BackStep DEF DecodeFails, StartFails, FFmpegExits
<1>3. CASE StartFFmpeg(w)
  <2>1. /\ pc[w] = "popped" /\ pc' = [pc EXCEPT ![w] = "started"] /\ task' = task
        /\ UNCHANGED <<queue, fate, shares, cgroup, main, target, breaks>>
    BY <1>3 DEF StartFFmpeg, Goto, redis, limits, stop
  <2>2. TypeOK' /\ task' = [task EXCEPT ![w] = task[w]]
    BY <1>1, <2>1 DEF TypeOK
  <2>3. QED
    BY <1>1, <2>1, <2>2, WorkerMoves
<1>4. CASE LimitCPU(w)
  <2>1. /\ pc[w] = "started" /\ pc' = [pc EXCEPT ![w] = "waiting"] /\ task' = task
        /\ UNCHANGED <<queue, fate, cgroup, main, target, breaks>>
        /\ \/ shares' = [shares EXCEPT ![w] = Shares(CPUPercent[task[w]])]
           \/ shares' = shares
    BY <1>4 DEF LimitCPU, Goto, redis, stop
  <2>2. Shares(CPUPercent[task[w]]) \in CPUShares
    BY <1>1, <2>1, DemoAssumption, SharesFit
  <2>3. shares' \in [Workers -> CPUShares]
    BY <1>1, <2>1, <2>2 DEF TypeOK
  <2>4. TypeOK' /\ task' = [task EXCEPT ![w] = task[w]]
    BY <1>1, <2>1, <2>3 DEF TypeOK
  <2>5. QED
    BY <1>1, <2>1, <2>4, WorkerMoves
<1>5. QED
  BY <1>2, <1>3, <1>4

\* Start finds every worker new and every cgroup there.
LEMMA StartStep ==
  ASSUME IInv, Start
  PROVE  IInv'
<1>1. /\ TypeOK /\ main' = "running" /\ pc' = [w \in Workers |-> "select"]
      /\ \A w \in Workers : cgroup[w] /\ task[w] = None
      /\ UNCHANGED <<queue, fate, task, shares, cgroup, target, breaks>>
  BY DEF IInv, Handed, NotStarted, Start, redis, limits
<1>2. TypeOK'
  BY <1>1 DEF TypeOK, MainStates
<1>3. Handed' /\ NotStarted' /\ Left'
  BY <1>1 DEF Handed, NotStarted, Left
<1>4. QED
  BY <1>2, <1>3 DEF IInv

\* The quit is met at the select, between two tasks: only then does main go on
\* to delete the worker's cgroup.
LEMMA StopStepsStep ==
  ASSUME IInv, Stop \/ StopSteps
  PROVE  IInv'
<1>1. TypeOK /\ Handed /\ target \in Workers
  BY DEF IInv, TypeOK
<1>2. CASE Stop
  <2>1. TypeOK'
    BY <1>1, <1>2 DEF Stop, redis, loop, limits, TypeOK, MainStates
  <2>2. QED
    BY <1>2, <2>1 DEF IInv, Stop, Handed, NotStarted, Left, redis, loop, limits
<1>3. ASSUME NEW w \in Workers, TakeQuit(w) PROVE IInv'
  <2>1. /\ target = w /\ pc[w] = "select" /\ pc' = [pc EXCEPT ![w] = "returned"]
        /\ main' = "delete" /\ task[w] = None
        /\ UNCHANGED <<queue, fate, task, shares, cgroup, target, breaks>>
    BY <1>1, <1>3 DEF TakeQuit, Goto, redis, limits, Handed
  <2>2. TypeOK'
    BY <1>1, <2>1 DEF TypeOK, MainStates
  <2>3. pc'[w] = "returned" /\ \A v \in Workers \ {w} : pc'[v] = pc[v]
    BY <1>1, <2>1 DEF TypeOK
  <2>4. Handed' /\ NotStarted' /\ Left'
    BY <1>1, <2>1, <2>3 DEF IInv, Handed, NotStarted, Left
  <2>5. QED
    BY <2>2, <2>4 DEF IInv
<1>4. CASE DeleteCgroup
  <2>1. /\ main = "delete" /\ cgroup' = [cgroup EXCEPT ![target] = FALSE]
        /\ UNCHANGED <<queue, fate, pc, task, shares, breaks>>
        /\ pc[target] = "returned"
    BY <1>4 DEF IInv, Left, DeleteCgroup, redis, loop
  <2>2. main' \in {"quit", "wait"} /\ target' \in Workers
    BY <1>1, <1>4, DemoAssumption DEF DeleteCgroup, Workers
  <2>3. TypeOK'
    BY <1>1, <2>1, <2>2 DEF TypeOK, MainStates
  <2>4. Handed' /\ NotStarted' /\ Left'
    BY <1>1, <2>1, <2>2 DEF IInv, TypeOK, Handed, NotStarted, Left
  <2>5. QED
    BY <2>3, <2>4 DEF IInv
<1>5. CASE WaitReturns
  <2>1. TypeOK'
    BY <1>1, <1>5 DEF WaitReturns, redis, loop, limits, TypeOK, MainStates
  <2>2. QED
    BY <1>5, <2>1 DEF IInv, WaitReturns, Handed, NotStarted, Left, redis, loop, limits
<1>6. QED
  BY <1>2, <1>3, <1>4, <1>5 DEF StopSteps

LEMMA NextInv == IInv /\ [Next]_vars => IInv'
<1> SUFFICES ASSUME IInv, [Next]_vars PROVE IInv'
  OBVIOUS
<1>1. ASSUME NEW w \in Workers, Worker(w) \/ PopFails(w) PROVE IInv'
  BY <1>1, PopSteps, EncodeSteps DEF Worker
<1>2. CASE UNCHANGED vars
  <2>1. UNCHANGED <<queue, fate, pc, task, shares, cgroup, main, target, breaks>>
    BY <1>2 DEF vars, redis, loop, limits, stop
  <2>2. QED
    BY <2>1 DEF IInv, TypeOK, Handed, NotStarted, Left
<1>3. QED
  BY <1>1, <1>2, SubmitStep, StartStep, StopStepsStep DEF Next

\* The inductive invariant: who has a task, and whose cgroup may be gone.
THEOREM PoolInvariant == Spec => []IInv
BY InitInv, NextInv, PTL DEF Spec

-----------------------------------------------------------------------------
(* The safety properties                                                   *)

\* Type correctness; every cpu.shares written is one the kernel accepts.
THEOREM TypeCorrect == Spec => []TypeOK
<1>1. IInv => TypeOK
  BY DEF IInv
<1>2. QED
  BY <1>1, PoolInvariant, PTL

\* Stop never deletes the cgroup of a worker that still has a task, wherever
\* the workers are when it is called and whatever BLPOP and ffmpeg do.
THEOREM CgroupsOutliveTasks == Spec => []CgroupOutlivesTask
<1>1. IInv => CgroupOutlivesTask
  BY DEF IInv, Handed, Left, CgroupOutlivesTask
<1>2. QED
  BY <1>1, PoolInvariant, PTL

=============================================================================
