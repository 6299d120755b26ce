------------------------------- MODULE DemoPool -------------------------------
(***************************************************************************)
(* worker_demo.go, the stand-alone prototype of the encoder: a pool of     *)
(* workers, each in a loop of BLPOP on the Redis list "ffmpeg_queue" and   *)
(* one ffmpeg process at a time inside a cgroup of its own; and Stop,      *)
(* which hands each worker in turn a value on its unbuffered quit channel. *)
(*                                                                         *)
(* A cgroup is there from NewWorkerPool on.  Stop deletes it, which is     *)
(* right only if no ffmpeg of that worker runs any more.                   *)
(***************************************************************************)
EXTENDS Integers, Sequences

CONSTANTS
  N,          \* numWorkers (3 in main)
  Tasks,      \* tasks pushed to ffmpeg_queue
  Malformed,  \* those whose JSON does not parse
  CPUPercent, \* the limit each asks for
  Breaks,     \* how many BLPOPs may fail on a broken connection (bound)
  None        \* no task

Workers == 1..N

ASSUME DemoAssumption ==
  /\ N \in Nat \ {0}
  /\ Malformed \subseteq Tasks
  /\ CPUPercent \in [Tasks -> 1..100]
  /\ Breaks \in Nat
  /\ None \notin Tasks

VARIABLES
  queue,   \* the list ffmpeg_queue
  fate,    \* [Tasks -> where the task is, or how it ended]
  pc,      \* where each worker's loop is
  task,    \* the task a worker popped
  shares,  \* cpu.shares of each worker's cgroup
  cgroup,  \* the worker's cgroup exists
  main,    \* where main is: see MainStates
  target,  \* the worker Stop is dealing with
  breaks   \* connection failures so far

redis == <<queue, fate>>
loop  == <<pc, task>>
limits == <<shares, cgroup>>
stop  == <<main, target>>
vars  == <<redis, loop, limits, stop, breaks>>

\* created -> running -> (quit -> delete)* -> wait -> closed
MainStates == {"created", "running", "quit", "delete", "wait", "closed"}

Init ==
  /\ queue = <<>>
  /\ fate = [t \in Tasks |-> "unsent"]
  /\ pc = [w \in Workers |-> "new"]
  /\ task = [w \in Workers |-> None]
  /\ shares = [w \in Workers |-> 1024]
  /\ cgroup = [w \in Workers |-> TRUE]
  /\ main = "created" /\ target = 1
  /\ breaks = 0

Goto(w, from, to) == pc[w] = from /\ pc' = [pc EXCEPT ![w] = to]
Settle(t, f) == fate' = [fate EXCEPT ![t] = f]
\* The worker is back at its select, its task over.
BackToSelect(w, from, f) ==
  /\ Goto(w, from, "select")
  /\ Settle(task[w], f)
  /\ task' = [task EXCEPT ![w] = None]

\* Mutant: the division first, and no lower bound.
Shares_DividesFirst(p) == 1024 * (p \div 100)

\* updateCPULimit: a percentage in cpu.shares, at least 2.
Shares(p) == LET s == (1024 * p) \div 100 IN IF s < 2 THEN 2 ELSE s

-----------------------------------------------------------------------------
(* Mutants.                                                                *)

\* The worker leaves its loop when BLPOP fails.
PopFails_Returns(w) ==
  /\ breaks < Breaks
  /\ Goto(w, "blpop", "returned")
  /\ breaks' = breaks + 1
  /\ UNCHANGED <<redis, task, limits, stop>>

\* quit has room for one value: Stop does not wait for the worker.
TakeQuit_Buffered(w) ==
  /\ main = "quit" /\ target = w
  /\ main' = "delete"
  /\ UNCHANGED <<redis, loop, limits, target, breaks>>

-----------------------------------------------------------------------------
(* The queue and the workers' loop.                                        *)

\* submitFFmpegTask: RPUSH, by main or by another process.
Submit(t) ==
  /\ fate[t] = "unsent"
  /\ queue' = Append(queue, t)
  /\ Settle(t, "queued")
  /\ UNCHANGED <<loop, limits, stop, breaks>>

\* select: default is taken only if nobody is sending on quit.
EnterPop(w) ==
  /\ ~(main = "quit" /\ target = w)
  /\ Goto(w, "select", "blpop")
  /\ UNCHANGED <<redis, task, limits, stop, breaks>>

\* BLPop(ctx, 0, ...) waits without a timeout and returns the head.
Pop(w) ==
  /\ Goto(w, "blpop", "popped") /\ queue # <<>>
  /\ task' = [task EXCEPT ![w] = Head(queue)]
  /\ queue' = Tail(queue)
  /\ Settle(Head(queue), "held")
  /\ UNCHANGED <<limits, stop, breaks>>

\* The connection breaks: continue.  The reply may have been on its way, and
\* then the task it carried is gone from the list.
PopFails(w) ==
  /\ breaks < Breaks
  /\ Goto(w, "blpop", "select")
  /\ breaks' = breaks + 1
  /\ \/ UNCHANGED redis
     \/ /\ queue # <<>>
        /\ queue' = Tail(queue)
        /\ Settle(Head(queue), "lost")
  /\ UNCHANGED <<task, limits, stop>>

\* json.Unmarshal fails: continue.
DecodeFails(w) ==
  /\ task[w] \in Malformed
  /\ BackToSelect(w, "popped", "failed")
  /\ UNCHANGED <<queue, limits, stop, breaks>>

\* cmd.Start, cgroup.Add (its error is logged only).
StartFFmpeg(w) ==
  /\ task[w] \notin Malformed
  /\ Goto(w, "popped", "started")
  /\ UNCHANGED <<redis, task, limits, stop, breaks>>

StartFails(w) ==
  /\ task[w] \notin Malformed
  /\ BackToSelect(w, "popped", "failed")
  /\ UNCHANGED <<queue, limits, stop, breaks>>

\* updateCPULimit; if it fails the last task's limit stays.
LimitCPU(w) ==
  /\ Goto(w, "started", "waiting")
  /\ \/ shares' = [shares EXCEPT ![w] = Shares(CPUPercent[task[w]])]
     \/ UNCHANGED shares
  /\ UNCHANGED <<redis, task, cgroup, stop, breaks>>

\* cmd.Wait returns.
FFmpegExits(w) ==
  /\ \E f \in {"done", "failed"} : BackToSelect(w, "waiting", f)
  /\ UNCHANGED <<queue, limits, stop, breaks>>

-----------------------------------------------------------------------------
(* main: NewWorkerPool, Start, 30 seconds, Stop.                           *)

Start ==
  /\ main = "created" /\ main' = "running"
  /\ pc' = [w \in Workers |-> "select"]
  /\ UNCHANGED <<redis, task, limits, target, breaks>>

Stop ==
  /\ main = "running" /\ main' = "quit"
  /\ UNCHANGED <<redis, loop, limits, target, breaks>>

\* worker.quit <- true meets case <-w.quit.
TakeQuit(w) ==
  /\ main = "quit" /\ target = w
  /\ Goto(w, "select", "returned")
  /\ main' = "delete"
  /\ UNCHANGED <<redis, task, limits, target, breaks>>

\* cgroup.Delete, and on to the next worker.
DeleteCgroup ==
  /\ main = "delete"
  /\ cgroup' = [cgroup EXCEPT ![target] = FALSE]
  /\ \/ target < N /\ target' = target + 1 /\ main' = "quit"
     \/ target = N /\ target' = target /\ main' = "wait"
  /\ UNCHANGED <<redis, loop, shares, breaks>>

\* wg.Wait, client.Close.
WaitReturns ==
  /\ main = "wait" /\ \A w \in Workers : pc[w] = "returned"
  /\ main' = "closed"
  /\ UNCHANGED <<redis, loop, limits, target, breaks>>

-----------------------------------------------------------------------------
Worker(w) ==
  \/ EnterPop(w) \/ Pop(w) \/ DecodeFails(w) \/ StartFFmpeg(w) \/ StartFails(w)
  \/ LimitCPU(w) \/ FFmpegExits(w)

StopSteps == DeleteCgroup \/ WaitReturns \/ \E w \in Workers : TakeQuit(w)

Next ==
  \/ \E t \in Tasks : Submit(t)
  \/ \E w \in Workers : Worker(w) \/ PopFails(w)
  \/ Start \/ Stop \/ StopSteps

Spec == Init /\ [][Next]_vars

\* Goroutines that can run do, Redis serves a waiting BLPOP, ffmpeg ends.
Fairness ==
  /\ \A w \in Workers : WF_vars(Worker(w))
  /\ WF_vars(Start) /\ WF_vars(StopSteps)

FairSpec == Spec /\ Fairness

-----------------------------------------------------------------------------
(* Properties                                                              *)

\* The shares of a cgroup: the kernel's minimum to those of a whole CPU.
CPUShares == 2..1024

\* Type correctness; a cgroup's cpu.shares is never below the kernel's 2.
TypeOK ==
  /\ queue \in Seq(Tasks)
  /\ fate \in [Tasks -> {"unsent", "queued", "held", "done", "failed", "lost"}]
  /\ pc \in [Workers -> {"new", "select", "blpop", "popped", "started",
                         "waiting", "returned"}]
  /\ task \in [Workers -> Tasks \cup {None}]
  /\ shares \in [Workers -> CPUShares]
  /\ cgroup \in [Workers -> BOOLEAN]
  /\ main \in MainStates /\ target \in Workers
  /\ breaks \in 0..Breaks

\* Stop never deletes the cgroup of a worker that still has a task.
CgroupOutlivesTask ==
  \A w \in Workers : ~cgroup[w] => pc[w] = "returned" /\ task[w] = None

\* A listed task is taken and ends, or is lost with a connection, unless Stop
\* is called first: no error of one task or of BLPOP stops a worker.
QueuedIsTaken ==
  \A t \in Tasks :
    fate[t] = "queued" ~> \/ fate[t] \in {"done", "failed", "lost"}
                          \/ main \notin {"created", "running"}

\* "Stop gracefully shuts down the worker pool": Stop returns.
StopReturns == main = "quit" ~> main = "closed"

=============================================================================
