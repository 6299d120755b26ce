------------------------------- MODULE JobQueue -------------------------------
(***************************************************************************)
(* The list interface of the Redis repository: PeekJob, which leaves a job *)
(* in the list, locks it and marks its entry by index; DequeueJob, which   *)
(* removes it; UpdateStatus.  Every Redis command is a step of its own and *)
(* those of several callers interleave.                                    *)
(*                                                                         *)
(* No worker of this repository calls them any more (handler.go, which     *)
(* did, is commented out): the caller's side - polling, encoding, reporting *)
(* the end - and the writers of the list are taken from that.              *)
(***************************************************************************)
EXTENDS Naturals, Sequences, SequencesExt, FiniteSetsExt

CONSTANTS
  Jobs,      \* job ids; each is pushed once
  Callers,   \* processes that call the repository
  Dequeuers, \* those that also call DequeueJob
  Recorded,  \* jobs with a hash that has "job_data"; nothing here writes one
  Malformed, \* jobs whose entry may be one that json.Unmarshal refuses
  Faults,    \* of "error": a Redis command fails, "expire": a lock does
  NoJob

ASSUME QueueAssumption ==
  /\ Recorded \subseteq Jobs /\ Malformed \subseteq Jobs /\ NoJob \notin Jobs
  /\ Dequeuers \subseteq Callers
  /\ Faults \subseteq {"error", "expire"}

VARIABLES
  queue,   \* the list: entries [job, status]
  locked,  \* jobs j with a key lock:<j>
  status,  \* field "status" of the jobs' hashes; "none" if it is not set
  call,    \* what each caller is at
  pushed,  \* history: the jobs in the order of their pushes
  popped,  \* history: the number of pops
  given,   \* history: how often a job was handed out; 2 is more than once
  lapsed,  \* history: jobs whose lock expired while a PeekJob was at work on them
  raced    \* history: a pop shifted the list under a PeekJob that had read it

redis   == <<queue, locked, status>>
history == <<pushed, popped, given, lapsed, raced>>
vars    == <<redis, call, history>>

Entry(j, st) == [job |-> j, status |-> st]
Idle == [at |-> "idle", count |-> 0, seen |-> <<>>, idx |-> 0, job |-> NoJob]
Working(j) == [Idle EXCEPT !.at = "working", !.job = j]

Init ==
  /\ queue = <<>> /\ locked = {}
  /\ status = [j \in Jobs |-> IF j \in Recorded THEN "queued" ELSE "none"]
  /\ call = [c \in Callers |-> Idle]
  /\ pushed = <<>> /\ popped = 0
  /\ given = [j \in Jobs |-> 0]
  /\ lapsed = {} /\ raced = FALSE

Goto(c, state) == call' = [call EXCEPT ![c] = state]
Give(j) == given' = [given EXCEPT ![j] = IF @ = 0 THEN 1 ELSE 2]

\* Somebody pushes a job.
Push(j) ==
  /\ j \notin ToSet(pushed)
  /\ \/ queue' = Append(queue, Entry(j, "queued"))
     \/ j \in Malformed /\ queue' = Append(queue, Entry(j, "malformed"))
  /\ pushed' = Append(pushed, j)
  /\ UNCHANGED <<locked, status, call, popped, given, lapsed, raced>>

-----------------------------------------------------------------------------
(* PeekJob                                                                 *)

\* LLEN.  With an empty list PeekJob returns nil at once.
PeekCount(c) ==
  /\ call[c].at = "idle" /\ queue # <<>>
  /\ Goto(c, [Idle EXCEPT !.at = "counted", !.count = Len(queue)])
  /\ UNCHANGED <<redis, history>>

\* The loop goes on at the next entry that can be read and was not in progress
\* then, and returns nil after the last.  A mutant does not look at the status.
Scan_NoStatus(seen, from) ==
  LET open == {i \in from .. Len(seen) : seen[i].status # "malformed"}
  IN IF open = {} THEN Idle
     ELSE [at |-> "trying", count |-> 0, seen |-> seen, idx |-> Min(open),
           job |-> seen[Min(open)].job]

Scan(seen, from) ==
  LET open == {i \in from .. Len(seen) : seen[i].status \notin {"malformed", "in_progress"}}
  IN IF open = {} THEN Idle
     ELSE [at |-> "trying", count |-> 0, seen |-> seen, idx |-> Min(open),
           job |-> seen[Min(open)].job]
Continue(c) == Goto(c, Scan(call[c].seen, call[c].idx + 1))

\* LRANGE 0 length-1; a mutant reads one entry less.
PeekRead_OneShort(c) ==
  /\ call[c].at = "counted"
  /\ Goto(c, Scan(SubSeq(queue, 1, Min({call[c].count - 1, Len(queue)})), 1))
  /\ UNCHANGED <<redis, history>>

PeekRead(c) ==
  /\ call[c].at = "counted"
  /\ Goto(c, Scan(SubSeq(queue, 1, Min({call[c].count, Len(queue)})), 1))
  /\ UNCHANGED <<redis, history>>

\* LLEN or LRANGE fails.
PeekReadFails(c) ==
  /\ "error" \in Faults /\ call[c].at = "counted"
  /\ Goto(c, Idle)
  /\ UNCHANGED <<redis, history>>

\* SETNX lock:<id> succeeds; a mutant does not look at its answer.
PeekLock_Regardless(c) ==
  /\ call[c].at = "trying"
  /\ locked' = locked \cup {call[c].job}
  /\ Goto(c, [call[c] EXCEPT !.at = "marking"])
  /\ UNCHANGED <<queue, status, history>>

PeekLock(c) ==
  /\ call[c].at = "trying" /\ call[c].job \notin locked
  /\ locked' = locked \cup {call[c].job}
  /\ Goto(c, [call[c] EXCEPT !.at = "marking"])
  /\ UNCHANGED <<queue, status, history>>

PeekRefused(c) ==
  /\ call[c].at = "trying" /\ call[c].job \in locked
  /\ Continue(c)
  /\ UNCHANGED <<redis, history>>

\* SETNX fails, perhaps after it was executed.
PeekLockError(c) ==
  /\ "error" \in Faults /\ call[c].at = "trying"
  /\ locked' \in {locked, locked \cup {call[c].job}}
  /\ Continue(c)
  /\ UNCHANGED <<queue, status, history>>

Mark(c) == queue' = [queue EXCEPT ![call[c].idx] = Entry(call[c].job, "in_progress")]

\* LSET at the index the entry was read at; PeekJob returns the job.  A mutant
\* counts from 1 where Redis counts from 0.
PeekMark_NextIndex(c) ==
  /\ call[c].at = "marking" /\ call[c].idx < Len(queue)
  /\ queue' = [queue EXCEPT ![call[c].idx + 1] = Entry(call[c].job, "in_progress")]
  /\ Give(call[c].job)
  /\ Goto(c, Working(call[c].job))
  /\ UNCHANGED <<locked, status, pushed, popped, lapsed, raced>>

PeekMark(c) ==
  /\ call[c].at = "marking" /\ call[c].idx <= Len(queue)
  /\ Mark(c)
  /\ Give(call[c].job)
  /\ Goto(c, Working(call[c].job))
  /\ UNCHANGED <<locked, status, pushed, popped, lapsed, raced>>

\* LSET fails: the list has become too short, or Redis does not answer,
\* perhaps after executing it.
PeekMarkFails(c) ==
  /\ call[c].at = "marking"
  /\ \/ call[c].idx > Len(queue) /\ UNCHANGED queue
     \/ "error" \in Faults /\ UNCHANGED queue
     \/ "error" \in Faults /\ call[c].idx <= Len(queue) /\ Mark(c)
  /\ Goto(c, [call[c] EXCEPT !.at = "unlocking"])
  /\ UNCHANGED <<locked, status, history>>

\* DEL lock:<id>, whose error is ignored; PeekJob returns one.
PeekUnlock(c) ==
  /\ call[c].at = "unlocking"
  /\ \/ locked' = locked \ {call[c].job}
     \/ "error" \in Faults /\ UNCHANGED locked
  /\ Goto(c, Idle)
  /\ UNCHANGED <<queue, status, history>>

-----------------------------------------------------------------------------
(* DequeueJob and UpdateStatus                                             *)

\* BLPOP: the job is out of the list, also if its reply is lost, or cannot be
\* read.
DequeuePop(c) ==
  /\ c \in Dequeuers /\ call[c].at = "idle" /\ queue # <<>>
  /\ queue' = Tail(queue)
  /\ popped' = popped + 1
  /\ raced' = (raced \/ \E d \in Callers : call[d].at \in {"trying", "marking"})
  /\ \/ /\ Head(queue).status # "malformed"
        /\ Goto(c, [Idle EXCEPT !.at = "updating", !.job = Head(queue).job])
     \/ /\ "error" \in Faults \/ Head(queue).status = "malformed"
        /\ Goto(c, Idle)
  /\ UNCHANGED <<locked, status, pushed, given, lapsed>>

\* UpdateStatus: HGET job_data, which must be there, then HSET of the status
\* and of the data, which differ in the status only.
UpdateStatus(j, st) ==
  /\ j \in Recorded
  /\ status' = [status EXCEPT ![j] = st]

\* DequeueJob records that the job is in progress and returns it; ...
DequeueUpdate(c) ==
  /\ call[c].at = "updating"
  /\ UpdateStatus(call[c].job, "in_progress")
  /\ Give(call[c].job)
  /\ Goto(c, Working(call[c].job))
  /\ UNCHANGED <<queue, locked, pushed, popped, lapsed, raced>>

\* ... if that fails it returns the error, and the job is nowhere.
DequeueUpdateFails(c) ==
  /\ call[c].at = "updating"
  /\ call[c].job \notin Recorded \/ "error" \in Faults
  /\ Goto(c, Idle)
  /\ UNCHANGED <<redis, history>>

\* The caller reports the end of the job, ...
Report(c) ==
  /\ call[c].at = "working"
  /\ \E st \in {"completed", "failed"} : UpdateStatus(call[c].job, st)
  /\ Goto(c, Idle)
  /\ UNCHANGED <<queue, locked, history>>

\* ... or fails to.
ReportFails(c) ==
  /\ call[c].at = "working"
  /\ call[c].job \notin Recorded \/ "error" \in Faults
  /\ Goto(c, Idle)
  /\ UNCHANGED <<redis, history>>

-----------------------------------------------------------------------------
\* A PeekJob is between its LRANGE and its end with j: it may still try it,
\* mark it, or delete the key, whoever's it is by then.
AtWorkOn(d, j) ==
  \/ call[d].at \in {"marking", "unlocking"} /\ call[d].job = j
  \/ call[d].at = "trying"
     /\ \E i \in call[d].idx .. Len(call[d].seen) : call[d].seen[i].job = j

\* The ten minutes of lock:<id> are over.
LockExpires(j) ==
  /\ "expire" \in Faults /\ j \in locked
  /\ locked' = locked \ {j}
  /\ lapsed' = IF \E d \in Callers : AtWorkOn(d, j) THEN lapsed \cup {j} ELSE lapsed
  /\ UNCHANGED <<queue, status, call, pushed, popped, given, raced>>

PeekJob(c) ==
  \/ PeekCount(c) \/ PeekRead(c) \/ PeekReadFails(c)
  \/ PeekLock(c) \/ PeekRefused(c) \/ PeekLockError(c)
  \/ PeekMark(c) \/ PeekMarkFails(c) \/ PeekUnlock(c)

\* What a caller that has a job does next.
Works(c) == DequeueUpdate(c) \/ DequeueUpdateFails(c) \/ Report(c) \/ ReportFails(c)

Next ==
  \/ \E c \in Callers : PeekJob(c) \/ DequeuePop(c) \/ Works(c)
  \/ \E j \in Jobs : Push(j) \/ LockExpires(j)

Spec == Init /\ [][Next]_vars

\* The callers keep polling and do not hang, locks expire, and no command
\* fails for all of them for ever.
FairSpec ==
  /\ Spec
  /\ \A j \in Jobs : WF_vars(LockExpires(j))
  /\ \A c \in Callers : WF_vars(PeekJob(c) \/ Works(c))
  /\ SF_vars(\E c \in Callers : PeekRead(c))
  /\ SF_vars(\E c \in Callers : PeekLock(c))
  /\ SF_vars(\E c \in Callers : PeekMark(c))

-----------------------------------------------------------------------------
(* Properties                                                              *)

\* Type correctness.
TypeOK ==
  /\ \A i \in 1..Len(queue) : /\ queue[i].job \in Jobs
                              /\ queue[i].status \in {"queued", "in_progress", "malformed"}
  /\ locked \subseteq Jobs /\ lapsed \subseteq Jobs
  /\ status \in [Jobs -> {"none", "queued", "in_progress", "completed", "failed"}]
  /\ \A c \in Callers :
       /\ call[c].at \in {"idle", "counted", "trying", "marking", "unlocking",
                          "updating", "working"}
       /\ call[c].at \in {"trying", "marking", "unlocking"} =>
            call[c].seen[call[c].idx] = Entry(call[c].job, "queued")
  /\ popped + Len(queue) = Len(pushed)
  /\ given \in [Jobs -> 0..2] /\ raced \in BOOLEAN

\* The jobs DequeueJob removed, if no race has moved others to its head.
Popped == ToSet(SubSeq(pushed, 1, popped))

\* A job is handed out twice only if its lock expired under a PeekJob that was
\* at work on it, if it was dequeued although it had been peeked, or after a
\* race of the two.  An expiry after the entry was marked is harmless.
HandedOutOnce ==
  \A j \in Jobs : given[j] = 2 => j \in lapsed \cup Popped \/ raced

\* PeekJob writes an entry back by its index.  Unless a pop came between its
\* LRANGE and its LSET the list keeps every job that was pushed and not
\* popped, once and in order.
ListKept ==
  raced \/ [i \in 1..Len(queue) |-> queue[i].job] = SubSeq(pushed, popped + 1, Len(pushed))

\* No entry stays open for ever, whatever lock an error left behind.
OpenGetsTaken ==
  \A j \in Jobs :
    (\E i \in 1..Len(queue) : queue[i] = Entry(j, "queued"))
      ~> ~(\E i \in 1..Len(queue) : queue[i] = Entry(j, "queued"))

=============================================================================
