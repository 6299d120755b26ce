----------------------------- MODULE JobDispatch -----------------------------
(***************************************************************************)
(* The encoding service: how a job published on the Redis channel becomes  *)
(* a running encode task.  Several processes of cmd/worker.go ("services") *)
(* share one Redis.  In each of them                                       *)
(*                                                                         *)
(*   subscriber   the goroutine of SubscribeToJobs (redis_repository.go):  *)
(*                receive, SETNX lock:<id>, send to jobChan;               *)
(*   forwarder    Worker.subscribeToJobs: jobChan -> w.jobs;               *)
(*   workers      WorkerCount copies of Worker.runWorker: take a job from  *)
(*                w.jobs, try the semaphore, spawn a task or put it back;  *)
(*   tasks        the goroutines running processJob, one semaphore slot    *)
(*                each;                                                    *)
(*   main         cmd/worker.go: start, signal, Stop, 5 s, cancel, exit.   *)
(*                                                                         *)
(* A published message is delivered to every subscribed service, so the    *)
(* unit of bookkeeping is the CLAIM <<s, m>>: message m inside service s.  *)
(* stage[s][m] is where that claim is: which goroutine or channel holds    *)
(* it, or how it ended.  The channels keep their order besides.  Workers   *)
(* are interchangeable (the id is only logged) and are counted.            *)
(***************************************************************************)
EXTENDS Naturals, Sequences, FiniteSets

CONSTANTS
  Services,     \* processes of cmd/worker.go
  Msgs,         \* publications, each made once (a retry is another message)
  Jobs,         \* job ids
  JobOf,        \* the job id in a message's payload
  Malformed,    \* the messages whose payload is not an EncodeJob's JSON
  WorkerCount,  \* cfg.Worker.WorkerCount: runWorker goroutines and slots
  JobChanCap,   \* capacity of SubscribeToJobs' jobChan (100 in the code)
  JobsCap,      \* capacity of w.jobs (100 in the code)
  Signalled,    \* the services that may get SIGINT or SIGTERM
  Faults,       \* what else the environment may do: see FaultKinds
  Free          \* a lock key that does not exist

FaultKinds == {"crash", "conn", "lockerror", "expire", "cpu"}

ASSUME DispatchAssumption ==
  /\ JobOf \in [Msgs -> Jobs]
  /\ IsFiniteSet(Msgs)
  /\ Malformed \subseteq Msgs
  /\ WorkerCount \in Nat \ {0}
  /\ JobChanCap \in Nat \ {0}
  /\ JobsCap \in Nat \ {0}
  /\ Signalled \subseteq Services
  /\ Faults \subseteq FaultKinds
  /\ Free \notin Services \X Msgs

VARIABLES
  stage,      \* [Services -> [Msgs -> Stages]]
  mode,       \* main's progress in each service
  linked,     \* the service's pub/sub connection is subscribed
  inbox,      \* messages delivered to that connection, not yet received
  jobChan,    \* SubscribeToJobs' channel
  jobs,       \* w.jobs
  forwarder,  \* subscribeToJobs has not returned
  workers,    \* runWorker goroutines that have not returned
  sem,        \* len(w.semaphore)
  exiting,    \* tasks whose processJob returned, slot not yet released
  lock,       \* lock:<id>, with the claim that set it (the code stores "1")
  lapsed      \* history: claims whose lock key was taken from under them

process == <<mode, forwarder, workers>>
pubsub  == <<linked, inbox>>
chans   == <<jobChan, jobs>>
slots   == <<sem, exiting>>
leases  == <<lock, lapsed>>
vars    == <<stage, process, pubsub, chans, slots, leases>>

-----------------------------------------------------------------------------
Modes == {"down", "running", "stopping", "stopped", "cancelled"}

Before  == {"unsent", "inbox", "taken"}             \* no lock asked for yet
Waiting == {"offered", "jobChan", "fwd", "jobs", "hand"}
Tasks   == {"checking", "encoding"}                 \* holds a semaphore slot
InFlight == Waiting \cup Tasks
Settled == {"done", "failed", "dropped", "lost"}    \* claimed, and over
Unclaimed == {"missed", "unparsed", "skipped", "released"} \* over without a claim
Claimed == InFlight \cup Settled
Stages  == Before \cup Claimed \cup Unclaimed

Claims == Services \X Msgs
At(s, where) == {m \in Msgs : stage[s][m] \in where}
Up(s) == mode[s] # "down"
\* close(w.stopChan) has happened: every select on it may take that branch.
StopClosed(s) == mode[s] \in {"stopping", "stopped", "cancelled"}
SubscriberIdle(s) == Up(s) /\ At(s, {"taken", "offered"}) = {}
IdleWorker(s) == Cardinality(At(s, {"hand"})) < workers[s]

Move(s, m, from, to) ==
  /\ stage[s][m] = from
  /\ stage' = [stage EXCEPT ![s][m] = to]

Init ==
  /\ stage = [s \in Services |-> [m \in Msgs |-> "unsent"]]
  /\ mode = [s \in Services |-> "down"]
  /\ linked = [s \in Services |-> FALSE]
  /\ inbox = [s \in Services |-> <<>>]
  /\ jobChan = [s \in Services |-> <<>>]
  /\ jobs = [s \in Services |-> <<>>]
  /\ forwarder = [s \in Services |-> FALSE]
  /\ workers = [s \in Services |-> 0]
  /\ sem = [s \in Services |-> 0]
  /\ exiting = [s \in Services |-> 0]
  /\ lock = [j \in Jobs |-> Free]
  /\ lapsed = {}

-----------------------------------------------------------------------------
(* Mutants: what a plausible slip in the code would make of an action.     *)
(* They are in no specification; each breaks one of the properties below.  *)

\* SET in place of SETNX: the key is written whether it existed or not.
LockAcquired_Overwrites(s, m) ==
  /\ Move(s, m, "taken", "offered")
  /\ lock' = [lock EXCEPT ![JobOf[m]] = <<s, m>>]
  /\ UNCHANGED <<process, pubsub, chans, slots, lapsed>>

\* stopChan is looked at only when a job arrives.
ForwarderStop_OnArrival(s) ==
  /\ forwarder[s] /\ StopClosed(s) /\ jobChan[s] # <<>>
  /\ forwarder' = [forwarder EXCEPT ![s] = FALSE]
  /\ stage' = [stage EXCEPT ![s] = [m \in Msgs |->
                IF stage[s][m] = "fwd" THEN "lost" ELSE stage[s][m]]]
  /\ UNCHANGED <<mode, workers, pubsub, chans, slots, leases>>

\* The semaphore is counted but not waited for.
StartTask_Unbounded(s, m) ==
  /\ Move(s, m, "hand", "checking")
  /\ sem' = [sem EXCEPT ![s] = @ + 1]
  /\ UNCHANGED <<process, pubsub, chans, exiting, leases>>

\* The put-back is left out: no slot, no job.
Drop_AtOnce(s, m) ==
  /\ sem[s] = WorkerCount
  /\ Move(s, m, "hand", "dropped")
  /\ UNCHANGED <<process, pubsub, chans, slots, leases>>

\* The `return nil' after the requeue is missing: the job is queued and run.
RefuseTask_FallsThrough(s, m) ==
  /\ "cpu" \in Faults /\ Len(jobs[s]) < JobsCap
  /\ Move(s, m, "checking", "encoding")
  /\ jobs' = [jobs EXCEPT ![s] = Append(@, m)]
  /\ UNCHANGED <<process, pubsub, jobChan, slots, leases>>

\* The slot is released at the end of processJob, not deferred: the early
\* return of the requeue keeps it.
RefuseTask_KeepsSlot(s, m) ==
  /\ "cpu" \in Faults /\ Len(jobs[s]) < JobsCap
  /\ Move(s, m, "checking", "jobs")
  /\ jobs' = [jobs EXCEPT ![s] = Append(@, m)]
  /\ UNCHANGED <<process, pubsub, jobChan, slots, leases>>

\* The same with the error return of ProcessVideo.
FinishTask_KeepsSlot(s, m) ==
  /\ \/ Move(s, m, "encoding", "done") /\ exiting' = [exiting EXCEPT ![s] = @ + 1]
     \/ Move(s, m, "encoding", "failed") /\ UNCHANGED exiting
  /\ UNCHANGED <<process, pubsub, chans, sem, leases>>

\* A failed encode is put back in the queue.
FinishTask_Retries(s, m) ==
  /\ Len(jobs[s]) < JobsCap
  /\ Move(s, m, "encoding", "jobs")
  /\ jobs' = [jobs EXCEPT ![s] = Append(@, m)]
  /\ exiting' = [exiting EXCEPT ![s] = @ + 1]
  /\ UNCHANGED <<process, pubsub, jobChan, sem, leases>>

\* Both the task and its caller release the slot.
ReleaseSlot_Twice(s) ==
  /\ exiting[s] > 0
  /\ exiting' = [exiting EXCEPT ![s] = @ - 1]
  /\ sem' = [sem EXCEPT ![s] = @ - 2]
  /\ UNCHANGED <<stage, process, pubsub, chans, leases>>

\* Start does wg.Add(1) for the subscriber loop only.
StopReturns_IgnoresWorkers(s) ==
  /\ mode[s] = "stopping" /\ ~forwarder[s]
  /\ mode' = [mode EXCEPT ![s] = "stopped"]
  /\ UNCHANGED <<stage, forwarder, workers, pubsub, chans, slots, leases>>

-----------------------------------------------------------------------------
(* Publication and the pub/sub connection (Redis keeps nothing for a       *)
(* service that is not subscribed).                                        *)

\* EnqueueJob, cmd/ingestion.go: PUBLISH reaches the subscribed services.
Publish(m) ==
  /\ \A s \in Services : stage[s][m] = "unsent"
  /\ stage' = [s \in Services |->
                [stage[s] EXCEPT ![m] = IF linked[s] THEN "inbox" ELSE "missed"]]
  /\ inbox' = [s \in Services |->
                IF linked[s] THEN Append(inbox[s], m) ELSE inbox[s]]
  /\ UNCHANGED <<process, linked, chans, slots, leases>>

\* The SUBSCRIBE of Subscribe(ctx, key), or go-redis subscribing again in the
\* next ReceiveMessage after the connection broke.
Subscribe(s) ==
  /\ SubscriberIdle(s) /\ mode[s] # "cancelled" /\ ~linked[s]
  /\ linked' = [linked EXCEPT ![s] = TRUE]
  /\ UNCHANGED <<stage, process, inbox, chans, slots, leases>>

ConnLost(s) ==
  /\ "conn" \in Faults /\ linked[s]
  /\ linked' = [linked EXCEPT ![s] = FALSE]
  /\ inbox' = [inbox EXCEPT ![s] = <<>>]
  /\ stage' = [stage EXCEPT ![s] = [m \in Msgs |->
                IF stage[s][m] = "inbox" THEN "missed" ELSE stage[s][m]]]
  /\ UNCHANGED <<process, chans, slots, leases>>

-----------------------------------------------------------------------------
(* The subscriber goroutine of SubscribeToJobs.                            *)

\* pubsub.ReceiveMessage returns a message.  json.Unmarshal parses it, or
\* fails: the error is logged, and the message is gone (continue).
Receive(s) ==
  /\ SubscriberIdle(s) /\ inbox[s] # <<>>
  /\ Move(s, Head(inbox[s]), "inbox",
          IF Head(inbox[s]) \in Malformed THEN "unparsed" ELSE "taken")
  /\ inbox' = [inbox EXCEPT ![s] = Tail(@)]
  /\ UNCHANGED <<process, linked, chans, slots, leases>>

\* SetNX(lock:<id>, "1", 10 min) created the key.
LockAcquired(s, m) ==
  /\ lock[JobOf[m]] = Free
  /\ Move(s, m, "taken", "offered")
  /\ lock' = [lock EXCEPT ![JobOf[m]] = <<s, m>>]
  /\ UNCHANGED <<process, pubsub, chans, slots, lapsed>>

\* The key exists: continue.
LockRefused(s, m) ==
  /\ lock[JobOf[m]] # Free
  /\ Move(s, m, "taken", "skipped")
  /\ UNCHANGED <<process, pubsub, chans, slots, leases>>

\* SetNX failed, or its reply was lost after the key was created (go-redis
\* then repeats the SETNX and is told the key exists): continue either way.
LockError(s, m) ==
  /\ "lockerror" \in Faults
  /\ Move(s, m, "taken", "skipped")
  /\ \/ UNCHANGED lock
     \/ /\ lock[JobOf[m]] = Free
        /\ lock' = [lock EXCEPT ![JobOf[m]] = <<s, m>>]
  /\ UNCHANGED <<process, pubsub, chans, slots, lapsed>>

\* case jobChan <- &job
SendToJobChan(s, m) ==
  /\ Len(jobChan[s]) < JobChanCap
  /\ Move(s, m, "offered", "jobChan")
  /\ jobChan' = [jobChan EXCEPT ![s] = Append(@, m)]
  /\ UNCHANGED <<process, pubsub, jobs, slots, leases>>

\* case <-ctx.Done(): Del(ctx, lockKey), return.  The DEL names no owner, and
\* it is issued on the cancelled context: it may never reach Redis.
AbandonOffer(s, m) ==
  /\ mode[s] = "cancelled"
  /\ \/ /\ Move(s, m, "offered", "released")
        /\ lock' = [lock EXCEPT ![JobOf[m]] = Free]
        /\ lapsed' = lapsed \cup ({lock[JobOf[m]]} \ {Free, <<s, m>>})
     \/ /\ Move(s, m, "offered", "lost")
        /\ UNCHANGED leases
  /\ UNCHANGED <<process, pubsub, chans, slots>>

-----------------------------------------------------------------------------
(* Worker.subscribeToJobs.                                                 *)

ForwardTake(s) ==
  /\ forwarder[s] /\ At(s, {"fwd"}) = {} /\ jobChan[s] # <<>>
  /\ Move(s, Head(jobChan[s]), "jobChan", "fwd")
  /\ jobChan' = [jobChan EXCEPT ![s] = Tail(@)]
  /\ UNCHANGED <<process, pubsub, jobs, slots, leases>>

ForwardPut(s, m) ==
  /\ Len(jobs[s]) < JobsCap
  /\ Move(s, m, "fwd", "jobs")
  /\ jobs' = [jobs EXCEPT ![s] = Append(@, m)]
  /\ UNCHANGED <<process, pubsub, jobChan, slots, leases>>

\* Either select sees stopChan closed: return, with the job it held.
ForwarderStop(s) ==
  /\ forwarder[s] /\ StopClosed(s)
  /\ forwarder' = [forwarder EXCEPT ![s] = FALSE]
  /\ stage' = [stage EXCEPT ![s] = [m \in Msgs |->
                IF stage[s][m] = "fwd" THEN "lost" ELSE stage[s][m]]]
  /\ UNCHANGED <<mode, workers, pubsub, chans, slots, leases>>

-----------------------------------------------------------------------------
(* Worker.runWorker.                                                       *)

\* case job := <-w.jobs
WorkerTake(s) ==
  /\ IdleWorker(s) /\ jobs[s] # <<>>
  /\ Move(s, Head(jobs[s]), "jobs", "hand")
  /\ jobs' = [jobs EXCEPT ![s] = Tail(@)]
  /\ UNCHANGED <<process, pubsub, jobChan, slots, leases>>

\* case w.semaphore <- struct{}{}: spawn the task.
StartTask(s, m) ==
  /\ sem[s] < WorkerCount
  /\ Move(s, m, "hand", "checking")
  /\ sem' = [sem EXCEPT ![s] = @ + 1]
  /\ UNCHANGED <<process, pubsub, chans, exiting, leases>>

\* No slot: put the job back at the tail of w.jobs.
PutBack(s, m) ==
  /\ sem[s] = WorkerCount /\ Len(jobs[s]) < JobsCap
  /\ Move(s, m, "hand", "jobs")
  /\ jobs' = [jobs EXCEPT ![s] = Append(@, m)]
  /\ UNCHANGED <<process, pubsub, jobChan, slots, leases>>

\* No slot and no room either: the job is forgotten, its lock is not.
Drop(s, m) ==
  /\ sem[s] = WorkerCount /\ Len(jobs[s]) = JobsCap
  /\ Move(s, m, "hand", "dropped")
  /\ UNCHANGED <<process, pubsub, chans, slots, leases>>

\* case <-w.stopChan at the outer select.
WorkerStop(s) ==
  /\ IdleWorker(s) /\ StopClosed(s)
  /\ workers' = [workers EXCEPT ![s] = @ - 1]
  /\ UNCHANGED <<stage, mode, forwarder, pubsub, chans, slots, leases>>

-----------------------------------------------------------------------------
(* processJob, in a task's goroutine.                                      *)

\* CheckCPUUsage accepts: ProcessVideo starts.
AcceptTask(s, m) ==
  /\ Move(s, m, "checking", "encoding")
  /\ UNCHANGED <<process, pubsub, chans, slots, leases>>

\* CheckCPUUsage refuses: back to w.jobs if there is room, else an error.
\* The slot is released later, by the deferred receive.
RefuseTask(s, m) ==
  /\ "cpu" \in Faults
  /\ \/ /\ Len(jobs[s]) < JobsCap
        /\ Move(s, m, "checking", "jobs")
        /\ jobs' = [jobs EXCEPT ![s] = Append(@, m)]
     \/ /\ Len(jobs[s]) = JobsCap
        /\ Move(s, m, "checking", "dropped")
        /\ UNCHANGED jobs
  /\ exiting' = [exiting EXCEPT ![s] = @ + 1]
  /\ UNCHANGED <<process, pubsub, jobChan, sem, leases>>

\* ProcessVideo returns, with an error or without: nothing is written back,
\* neither a job status nor the lock.
FinishTask(s, m) ==
  /\ \E outcome \in {"done", "failed"} : Move(s, m, "encoding", outcome)
  /\ exiting' = [exiting EXCEPT ![s] = @ + 1]
  /\ UNCHANGED <<process, pubsub, chans, sem, leases>>

\* defer func() { <-w.semaphore }()
ReleaseSlot(s) ==
  /\ exiting[s] > 0
  /\ exiting' = [exiting EXCEPT ![s] = @ - 1]
  /\ sem' = [sem EXCEPT ![s] = @ - 1]
  /\ UNCHANGED <<stage, process, pubsub, chans, leases>>

-----------------------------------------------------------------------------
(* main of cmd/worker.go.                                                  *)

Start(s) ==
  /\ mode[s] = "down"
  /\ mode' = [mode EXCEPT ![s] = "running"]
  /\ forwarder' = [forwarder EXCEPT ![s] = TRUE]
  /\ workers' = [workers EXCEPT ![s] = WorkerCount]
  /\ UNCHANGED <<stage, pubsub, chans, slots, leases>>

\* The signal arrives; Worker.Stop closes stopChan.
Stop(s) ==
  /\ s \in Signalled /\ mode[s] = "running"
  /\ mode' = [mode EXCEPT ![s] = "stopping"]
  /\ UNCHANGED <<stage, forwarder, workers, pubsub, chans, slots, leases>>

\* wg.Wait returns: forwarder and workers are counted in it, the subscriber
\* and the tasks are not.
StopReturns(s) ==
  /\ mode[s] = "stopping" /\ ~forwarder[s] /\ workers[s] = 0
  /\ mode' = [mode EXCEPT ![s] = "stopped"]
  /\ UNCHANGED <<stage, forwarder, workers, pubsub, chans, slots, leases>>

\* The 5 s are over and main returns: the deferred cancel runs ...
Cancel(s) ==
  /\ mode[s] = "stopped"
  /\ mode' = [mode EXCEPT ![s] = "cancelled"]
  /\ UNCHANGED <<stage, forwarder, workers, pubsub, chans, slots, leases>>

\* The process is gone, and all it held in memory with it.
Down(s) ==
  /\ mode' = [mode EXCEPT ![s] = "down"]
  /\ forwarder' = [forwarder EXCEPT ![s] = FALSE]
  /\ workers' = [workers EXCEPT ![s] = 0]
  /\ linked' = [linked EXCEPT ![s] = FALSE]
  /\ inbox' = [inbox EXCEPT ![s] = <<>>]
  /\ jobChan' = [jobChan EXCEPT ![s] = <<>>]
  /\ jobs' = [jobs EXCEPT ![s] = <<>>]
  /\ sem' = [sem EXCEPT ![s] = 0]
  /\ exiting' = [exiting EXCEPT ![s] = 0]
  /\ stage' = [stage EXCEPT ![s] = [m \in Msgs |->
                CASE stage[s][m] \in InFlight -> "lost"
                  [] stage[s][m] \in {"inbox", "taken"} -> "missed"
                  [] OTHER -> stage[s][m]]]
  /\ UNCHANGED leases

\* ... and then the process exits.
Exit(s) == mode[s] = "cancelled" /\ Down(s)

Crash(s) == "crash" \in Faults /\ Up(s) /\ Down(s)

\* The 10 minutes of lock:<id> are over.
LockExpires(j) ==
  /\ "expire" \in Faults /\ lock[j] # Free
  /\ lapsed' = lapsed \cup {lock[j]}
  /\ lock' = [lock EXCEPT ![j] = Free]
  /\ UNCHANGED <<stage, process, pubsub, chans, slots>>

-----------------------------------------------------------------------------
Subscriber(s) ==
  \/ Subscribe(s) \/ Receive(s)
  \/ \E m \in Msgs : \/ LockAcquired(s, m) \/ LockRefused(s, m) \/ LockError(s, m)
                     \/ SendToJobChan(s, m) \/ AbandonOffer(s, m)

Forwarder(s) ==
  ForwardTake(s) \/ ForwarderStop(s) \/ \E m \in Msgs : ForwardPut(s, m)

RunWorker(s) ==
  \/ WorkerTake(s) \/ WorkerStop(s)
  \/ \E m \in Msgs : StartTask(s, m) \/ PutBack(s, m) \/ Drop(s, m)

Task(s) ==
  \/ ReleaseSlot(s)
  \/ \E m \in Msgs : AcceptTask(s, m) \/ RefuseTask(s, m) \/ FinishTask(s, m)

Main(s) == Start(s) \/ Stop(s) \/ StopReturns(s) \/ Cancel(s) \/ Exit(s)

Next ==
  \/ \E m \in Msgs : Publish(m)
  \/ \E s \in Services :
       \/ Subscriber(s) \/ Forwarder(s) \/ RunWorker(s) \/ Task(s) \/ Main(s)
       \/ ConnLost(s) \/ Crash(s)
  \/ \E j \in Jobs : LockExpires(j)

Spec == Init /\ [][Next]_vars

-----------------------------------------------------------------------------
(* Fairness.  A goroutine that can run runs: subscriber, forwarder and     *)
(* main take their own steps.  A select with several ready branches picks  *)
(* at random, so a branch that is ready again and again is taken (SF).     *)
(* Assumed of the environment: ProcessVideo returns, and the CPU is not    *)
(* over its limit at every check of one job.                               *)

Fairness ==
  \A s \in Services :
    /\ WF_vars(Subscriber(s)) /\ SF_vars(Forwarder(s))
    /\ WF_vars(WorkerTake(s)) /\ SF_vars(WorkerStop(s))
    /\ WF_vars(ReleaseSlot(s))
    /\ WF_vars(StopReturns(s) \/ Cancel(s) \/ Exit(s))
    /\ \A m \in Msgs :
         /\ WF_vars(StartTask(s, m) \/ PutBack(s, m) \/ Drop(s, m))
         /\ SF_vars(AcceptTask(s, m) \/ FinishTask(s, m))

FairSpec == Spec /\ Fairness

-----------------------------------------------------------------------------
(* Properties                                                              *)

\* Type correctness of the service's and of Redis' state.
TypeOK ==
  /\ stage \in [Services -> [Msgs -> Stages]]
  /\ mode \in [Services -> Modes]
  /\ linked \in [Services -> BOOLEAN]
  /\ inbox \in [Services -> Seq(Msgs)]
  /\ jobChan \in [Services -> Seq(Msgs)]
  /\ jobs \in [Services -> Seq(Msgs)]
  /\ forwarder \in [Services -> BOOLEAN]
  /\ workers \in [Services -> Nat]
  /\ sem \in [Services -> Nat]
  /\ exiting \in [Services -> Nat]
  /\ lock \in [Jobs -> Claims \cup {Free}]
  /\ lapsed \in SUBSET Claims

\* q holds exactly the messages whose claim is at `where', each once.
Holds(q, s, where) ==
  /\ \A i \in 1..Len(q) : stage[s][q[i]] = where
  /\ \A i, k \in 1..Len(q) : q[i] = q[k] => i = k
  /\ \A m \in Msgs : stage[s][m] = where => \E i \in 1..Len(q) : q[i] = m

\* No job is lost or duplicated on its way through the channels, however the
\* put-backs of runWorker and the requeues of processJob interleave with the
\* forwarder: each channel holds exactly the claims that are in it, once.
Ledger ==
  \A s \in Services :
    /\ Holds(inbox[s], s, "inbox")
    /\ Holds(jobChan[s], s, "jobChan")
    /\ Holds(jobs[s], s, "jobs")

\* The semaphore accounts for every task goroutine: those in processJob and
\* those whose processJob returned but whose slot is not released yet.
SlotsAccounted ==
  \A s \in Services :
    /\ sem[s] = Cardinality(At(s, Tasks)) + exiting[s]
    /\ sem[s] <= WorkerCount

\* "Limit concurrent tasks" (NewWorker): never more than WorkerCount videos
\* are encoded at once by one service.
AtMostWorkerCount ==
  \A s \in Services : Cardinality(At(s, {"encoding"})) <= WorkerCount

\* runWorker and processJob give a job up only if the service is over-
\* committed: more claims in flight than w.jobs can hold.  A put-back races
\* with the forwarder for the place the job came from.
DropOnlyOverCommitted ==
  [][\A s \in Services, m \in Msgs :
        stage[s][m] # "dropped" /\ stage'[s][m] = "dropped"
          => Cardinality(At(s, InFlight)) > JobsCap]_vars

\* After Stop has returned no runWorker spawns another task: what w.jobs
\* still holds stays there until the process exits.
NoTaskAfterStop ==
  [][\A s \in Services, m \in Msgs :
        stage[s][m] = "hand" /\ stage'[s][m] # "hand"
          => mode[s] \in {"running", "stopping"} \/ ~Up(s)']_vars

\* The lock of a live claim is its own, or was lost to expiry or to a DEL
\* that names no owner.  (The lock also covers claims that are over.)
ClaimHoldsLock ==
  \A s \in Services, m \in Msgs :
    stage[s][m] \in Claimed =>
      lock[JobOf[m]] = <<s, m>> \/ <<s, m>> \in lapsed

\* Two services (or two publications) never both take the same job, unless
\* one of the two claims had lost its lock: the purpose of lock:<id>.
NoDoubleClaim ==
  \A s, t \in Services, m, n \in Msgs :
    /\ <<s, m>> # <<t, n>> /\ JobOf[m] = JobOf[n]
    /\ stage[s][m] \in Claimed /\ stage[t][n] \in Claimed
    => <<s, m>> \in lapsed \/ <<t, n>> \in lapsed

\* The dispatch implements the abstract lease.
PhaseOf(st) ==
  CASE st \in Before \cup {"missed", "unparsed", "skipped"} -> "idle"
    [] st \in Waiting \cup {"checking"} -> "owned"
    [] st = "encoding" -> "begun"
    [] st \in Settled -> "over"
    [] st = "released" -> "returned"

PhaseMap == [c \in Claims |-> PhaseOf(stage[c[1]][c[2]])]
ClaimJob == [c \in Claims |-> JobOf[c[2]]]

Lease == INSTANCE JobLease WITH
  JobOfClaim <- ClaimJob, phase <- PhaseMap, lease <- lock

\* A job is begun at most once per claim, under a lease that was free when
\* it was claimed, and only expiry or GiveBack takes a lease away.
ImplementsLease == Lease!LeaseSpec

\* Every message delivered to a service is encoded in the end, unless it does
\* not parse, its job's lock is refused, the connection breaks before it is
\* read, runWorker or processJob drops it (DropOnlyOverCommitted says when),
\* or the service is stopped: no job spins for ever between w.jobs and a busy
\* semaphore, and a full pipeline drains.  (Msgs is finite: what an endless
\* stream of newer jobs does to an older one is not said.)
ReceivedGetsEncoded ==
  \A s \in Services, m \in Msgs :
    stage[s][m] \in {"inbox", "taken"} \cup Waiting
      ~> \/ stage[s][m] \in {"encoding", "skipped", "missed", "dropped"}
         \/ m \in Malformed /\ stage[s][m] = "unparsed"
         \/ mode[s] # "running"

\* Stop never hangs on its WaitGroup: a signalled service exits.
StopCompletes ==
  \A s \in Services : mode[s] = "stopping" ~> mode[s] = "down"

\* SubscribeToJobs: a refused lock means "Job is already being processed by
\* another worker".
RefusedMeansBusy ==
  [][\A s \in Services, m \in Msgs :
        stage[s][m] = "taken" /\ stage'[s][m] = "skipped" =>
          \E t \in Services, n \in Msgs :
            JobOf[n] = JobOf[m] /\ stage[t][n] \in InFlight]_vars

\* Worker.Stop, when it has logged "Worker pool stopped", left no task running.
StoppedMeansIdle ==
  \A s \in Services : mode[s] = "stopped" => At(s, Tasks) = {}

=============================================================================
