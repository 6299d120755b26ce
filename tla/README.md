# StreamScale backend: a formal model

A TLA+ development of the StreamScale video backend (Go): the fleet of encoder
services that take jobs from Redis, the pipeline that downloads, splits,
encodes, stitches, packages and uploads a video, the pools of goroutines inside
it, the Redis list of jobs, the video API over Postgres, accounts and sessions, and
the prototype worker pool. TLC checks small instances of every module; TLAPS proves,
for every value of the constants, every safety property that the passing runs
check, and both refinements: the dispatch implements an abstract lease, and the
encoder pool implements the call that the pipeline is proved to make of it.
Liveness is model-checked.

## 1. Inventory

| part | code | state | operations | talks to | what is hard |
|---|---|---|---|---|---|
| Job publisher | `cmd/ingestion.go`, `redis_repository.go:24` | none | PUBLISH | Redis pub/sub | delivery only to who is subscribed now |
| Job dispatch | `redis_repository.go:176`, `internal/worker/worker.go`, `cmd/worker.go` | pub/sub connection, `jobChan`, `w.jobs`, semaphore, goroutines, `lock:<id>` | receive, SETNX, forward, take, start, put back, drop, refuse, finish, Start, Stop | Redis, pipeline | several services, put-back races, lock expiry, crash, shutdown |
| Video pipeline | `processor.go:42`, `package.go` | files under `TempDir`, encoder goroutines, bucket | ten steps and a deferred cleanup | ffmpeg, mp4fragment, mp4dash, S3 | one directory shared by all tasks, which survives the process; encoders that outlive their task; exits in mid-task |
| Segment encoder pool | `processor.go:376` | semaphore, result channel, goroutines | acquire, encode, send, release, close, collect | ffmpeg | early return on an error, close after the last send |
| Upload pool | `processor.go:82` | two unbuffered channels, goroutines, retries | walk, put, report, close, collect | S3 | channel deadlock, lost errors, cancellation |
| Redis job list and status | `redis_repository.go:39` | list, hashes, lock keys | PeekJob, DequeueJob, UpdateStatus, UpdateProgress, GetJobStatus | Redis | several commands per operation, write-back by index |
| Video API | `videofiles/...`, `pagination.go` | `video_files`, `playback_info` | upload, list, search, get, update, delete, playback | Postgres, S3 | two statements per request, OFFSET pagination under change |
| Prototype pool | `worker_demo.go` | list `ffmpeg_queue`, cgroups, quit channels | submit, BLPOP, ffmpeg, cpu.shares, Start, Stop | Redis, kernel | a blocking pop inside a select's default |
| Accounts and sessions | `auth/...`, `session/...`, `middleware/auth.go` | `users`, `api-session:<uuid>` keys, cookies | register, login, requests behind the session middleware | Postgres, Redis | find-then-insert, a registration cut off half-way, a session that ends between two lookups |
| S3 repository, start-up, configuration, logging, connectors | rest | none of their own | one call each | | |

How they fit: the API stores a video row; a job is published on a Redis channel;
every worker service that is subscribed receives it and SETNX on `lock:<id>`
decides which takes it; the job travels `jobChan` -> forwarder -> `w.jobs` ->
`runWorker` -> a task goroutine under a semaphore; the task runs the pipeline,
which uses the segment encoder pool for its parallel step and the upload pool
for its last one.

What makes each part correct:

- dispatch: a job is in one place at a time, is encoded at most once per claim,
  is claimed once while its lock stands, is given up only when the service is
  over-committed; slots come back; a stop ends.
- pipeline: what is uploaded under a job's key was made from that job's video,
  with stated exceptions; a task fails only by its own faults or because another
  removed its files; errors leave nothing behind.
- pools: a call returns, success means that everything was done, no goroutine
  leaks, no channel is written after it was closed.
- job list: a job is handed out once and the list loses none.
- API: a page-by-page list shows every video once, and no empty page, with stated
  exceptions.
- accounts: a mailbox has one account however registrations race, nobody acts for
  another's account, and a half-made registration alone locks nobody out.
- prototype: a worker's cgroup outlives its task, no error stops a worker.

`PROJECT.json` lists the hazards at their lines with the properties that watch
them.

## 2. Modules

| module | models | notes |
|---|---|---|
| `JobLease` | nothing in the code: the promise of the `lock:<id>` keys | abstract specification |
| `JobDispatch` | several services, one Redis | implements `JobLease` (refinement mapping `PhaseMap`) |
| `EncodeCall` | nothing in the code: what `ProcessVideo` may rely on when it calls `encodeSegments` | abstract specification, between the next and `VideoPipeline` |
| `SegmentEncoder` | one call of `encodeSegments`, its goroutines and channel | implements `EncodeCall` (`ImplementsCall`) |
| `UploadPool` | one call of `uploadProcessedFiles` | |
| `VideoPipeline` | several tasks of a service in one `TempDir` | every task uses `EncodeCall` (`TasksUseCall`); the upload is one step |
| `JobQueue` | `PeekJob`, `DequeueJob`, `UpdateStatus` by several callers | |
| `VideoCatalog` | rows and requests of the video API | |
| `Accounts` | registration, login, sessions, the middleware | |
| `DemoPool` | `worker_demo.go` | |
| `JobDispatch_proofs`, `SegmentEncoder_proofs`, `UploadPool_proofs`, `VideoPipeline_proofs`, `JobQueue_proofs`, `VideoCatalog_proofs`, `Accounts_proofs`, `DemoPool_proofs` | theorems about the module named | TLAPS |
| `MC*` | model values and bounds for TLC | `SegmentEncoder` needs none |

Operators named `<Definition>_<Something>` are deliberate mutants: bugs that the
definition might have had. Each checked property is violated by at least one.

### JobDispatch

`stage[s][m]` says where publication `m` is in service `s`: `unsent`, `inbox` (in
the pub/sub connection), `taken` (received, before SETNX), `offered` (before the
send to `jobChan`), `jobChan`, `fwd` (in the forwarder's hands), `jobs`, `hand`
(in a `runWorker`'s hands), `checking` (in `processJob` before the CPU check),
`encoding`, or how it ended (`done`, `failed`, `dropped`, `skipped`, `missed`,
`unparsed`, `released`, `lost`). A message of `Malformed` is received, refused by
`json.Unmarshal` and gone (`Receive`). The channels are kept as sequences besides, so that
`Ledger` can relate the two. A claim is a pair of service and publication;
`lock[j]` holds the claim that set the key - the code stores a constant, and the
model never lets a decision depend on the owner. `lapsed` is history.

One action per channel operation, Redis command or return. A `select` is a
disjunction of actions: the inner `select` of `runWorker` is `StartTask`,
`PutBack` (only when no slot is free) and `Drop` (only when neither is
possible). `processJob` is `AcceptTask`, `RefuseTask` (CPU; both outcomes of its
non-blocking requeue), `FinishTask`; the deferred release of the slot is
`ReleaseSlot`, a step of its own because the task counts in the semaphore until
then. `main` is `Start`, `Stop`, `StopReturns`, `Cancel` (5 s later), `Exit`.
`AbandonOffer` is the `ctx.Done()` branch with its DEL: go-redis refuses commands
on a cancelled context, so the DEL may not be sent; both are possible.

### SegmentEncoder, EncodeCall, UploadPool

Each goroutine has a program counter; an unbuffered send is a joint step of
sender and receiver (`HandOver`, `UploaderReports`, `WalkerReports`). In
`SegmentEncoder` the goroutine is `Acquire`, `Encode`, `Send`, `Release`; the closer
is `Close`; the caller is `Spawn`, `MkdirFails`, `Collect`, `ReturnOk`. Files have
distinct names. In `UploadPool` a file or the directory may vanish, a request may
fail, and the context may be cancelled at any time.

`EncodeCall` says what the caller sees: nil only if all is encoded, an error only
if something failed, at most `MaxParallel` encoders, and that encoders may still
be at work after an error. The list of results with a hole in it is mapped to
no outcome of it, so `ImplementsCall` excludes it.

### VideoPipeline

Contents are abstracted to the set of tasks whose material went into a file
(plus `Torn` for an unfinished one, and `Former` for earlier processes); commands
are one step, except encoding,
which has a beginning and an end, since its goroutines outlive the task. Input
base names are distinct. `length` is the probed duration, from which `splitVideo`
computes number and length of the segments (`SegmentCount`, `SegmentTime`); ffmpeg
cuts at key frames, so fewer segments than computed may come out. A video of 0
seconds has a segment length of 0/0 and is refused (`SplitRefused`).

`TempDir` is the fixed path `tmp_segments` (`types.go`), and nothing clears it when a
process starts: `Init` lets any files of `Residue` be there. `Exit` is the end of the
process, by `main`'s return 5 s after a stop or by a crash: its tasks are `gone` where
they are, without their deferred cleanup; its ffmpeg processes go on writing. Tasks
that are queued after an exit are those of the next process. A task in the middle
of a command counts as before it or after it. `Cleanup` is `os.RemoveAll`, whose
error the code discards: it may leave any file of `Residue` it finds, as when a
file cannot be removed or an ffmpeg creates one meanwhile.

`shared`, `stale`, `robbed`, `faulted` and `littered` are history, and say which way the
code is weaker than its parts assume: a task that was not alone, one that found
segments or output at its start, one that lost files to another's removal while it
needed them, one with a fault of its own, and a directory that an exit or a failed
removal has left dirty.

Left out: the scratch files in `TempDir` (the log of `analyzeComplexity`, ffmpeg's
concat list). Each is written and read within one step; that another task's removal
falls between counts as a fault of that step.

The composition with the encoder pool goes through `EncodeCall`: `Encode(t)`
instantiates it with the coders of task `t`, and `TasksUseCall` is its
specification for each task. `SegmentEncoder` shows that the goroutines implement
that module, `VideoPipeline` that the caller keeps within it, stragglers included.
The upload is all or an error, which is what `UploadPool` shows of a context that is
not cancelled (`main` cancels 5 s after a stop, and ends).

### JobQueue

Each Redis command is a step. `call[c].seen` is what LRANGE returned; the index
used by LSET is the one of that snapshot. `given`, `lapsed`, `raced`, `pushed`
and `popped` are history. An entry may be one that `json.Unmarshal` refuses (status
`malformed`): PeekJob passes it over, DequeueJob pops it and returns an error. The
caller's side is external: in this repository only
the commented-out `internal/worker/handler.go` called it.

### VideoCatalog

`order` lists the rows by `uploaded_at` (the time the INSERT began), `committed`
those visible; a row may become visible after a later one. A row's `Rank` is the
number of the user's rows that ORDER BY puts before it, and OFFSET and LIMIT
select a range of ranks (`Page`). A list request is
two steps (count, select) and so is playback (video, playback row). `walk` is a
client that follows `HasMore` from the first page; `seen` is its history. Two
rows are taken never to have the same `uploaded_at`. `GetVideo` and the failing
half of `UpdateVideo` answer a viewer and change nothing.

`RowsScan` is TRUE in the run: the model is of the statements as they are meant to
be read back. At this commit the struct's tag is `file_name` and the column
`filename`, so that sqlx scans no row of `video_files` and each request that finds
one answers with an error; the INSERT, against the migration's schema, is refused
as well (section 6). What the pagination would list is checked all the same,
since neither slip is in it. All properties and theorems are of either value of
`RowsScan`: where rows do not scan, a client that meets one asks for its page for
ever (`SelectFails`) and is shown nothing. That a walk ends is not claimed for the
other value either: while uploads keep pace with it `HasMore` may stay true.

A row of `playback_info` never scans (`ReadPlayback`): the SELECT names columns
`PlaybackInfo` has no field for, and a map and a list of strings have no Scanner.

### Accounts

`users` are the rows, `sessions` the Redis keys, `jar` the cookie in a client's
browser, `req` the request a client waits for, with the statement it is at. An
address is a mailbox and the way it is typed, a secret is a person and the way it
is typed: `PrepareCreate` brings both to the plain form at registration, `Login`
uses them as they are. An owner who types at `Login` exactly what they registered
with is therefore refused for ever, unless that was the plain form; `same` is the
history of whether it was. `Register` reads any error of `FindByEmail` as absence, that
of a broken connection too (`RegisterFindsNone`); only UNIQUE of the INSERT
decides. `InsertFails` and `SessionFails` may have had their effect; `Cut` is a
connection that breaks, or the process that ends: `Run` calls `Shutdown` on
`echo.Server`, while `StartServer` served another `http.Server`, and so waits for
no request. `report` is history: what a registrant heard.

The handlers behind the session (`GetMe`, `Update`, `GetUserStorageStats`) change
nothing: `Update`'s COALESCE of a text and a `user_role` is refused by Postgres,
the storage statistics do not scan.

### DemoPool

The quit channel is unbuffered, so `TakeQuit` joins `Stop` and the worker; a
worker in `blpop` cannot take part.

## 3. Runs

| run | question | bounds, and why they are enough |
|---|---|---|
| `dispatch_pool` | does a service lose, duplicate or over-start jobs, does a received job get encoded, and does Stop end? | 3 jobs and a message that does not parse, 2 slots, channels of one place: one waiting in each channel and each hand with both slots taken is the smallest over-commitment; CPU refusals, a lost connection, a stop at any time. Safety and liveness in one run, without symmetry; two constraints bound the environment, which is not fair: one order of publication (`SentInOrder`), at most one message missed (`MissedOnce`) |
| `dispatch_fleet` | does `lock:<id>` keep two claims apart, and is the lease refined? | 2 services, one job published twice, crashes, SETNX errors, expiry, one service shut down (two make the instance ten times larger; the theorems cover them) |
| `dispatch_refused` | violation: see finding 1 | no fault at all |
| `dispatch_stopped` | violation: see finding 2 | one service, one signal |
| `upload` | does a call return, and what does success mean? | 2 uploaders, 3 files, 2 attempts: a blocked uploader, a busy one and a waiting walker |
| `encoder` | does `encodeSegments` implement `EncodeCall`, return, and leave no goroutine? | 4 segments, 2 slots: a queue for slots, errors before and after the return |
| `pipeline` | what does a task upload, why does it fail, what stays behind, and does it keep to `EncodeCall`? | 2 tasks in 2 slots, one encoder at a time: alone, side by side, beside stragglers, after an exit; videos of 0, 1 and 5 s with segments of at least 2 s, at most 2: none, one, the maximum. A segment beyond those of the short video and an encoded one may be left behind: a file that harms and one that must not. Three tasks are beyond the run; the theorems are of any number |
| `queue` | can a job be handed out twice, or be lost? | 2 callers (one also dequeues), 2 jobs, one of which may be malformed: a shift needs two entries, a race two callers |
| `catalog` | what may a page-by-page list miss or repeat? | 3 videos, pages of 1 or 2, at most 4 pages: every shift over a boundary |
| `accounts` | who ends up with an account and a session? | 2 clients who want one mailbox, 3 session keys (one of each and one more), every call may fail: a race needs two, a stale session one login more |
| `demo` | does an error stop a worker, is a cgroup deleted too early? | 2 workers, 3 tasks (one malformed), 2 broken connections |
| `demo_stop` | violation: see finding 3 | unbroken connections |

`CHECK_DEADLOCK FALSE` is used where the system comes to rest: `dispatch_refused`
(everything published is over), `queue` (all jobs popped), `demo` and `demo_stop`
(the program has ended). Elsewhere the end states stutter explicitly or the
environment can always move.

Properties that are conditional say in which way the code is weaker than one
might wish:

- `NoDoubleClaim`, `ClaimHoldsLock`: "unless the lock lapsed". Ten minutes are
  less than a long encode.
- `SuccessMeansStored`: not for a cancelled context, on which errors are dropped.
- `ReceivedGetsEncoded`: unless the message does not parse, its lock is refused, the
  connection breaks before it is read, the job is dropped or the service stopped.
  `Msgs` is finite: starvation of one job by an endless stream of newer ones is not
  covered.
- `OwnOutput`: unless somebody else, stragglers included, was in `TempDir` during the
  task, or it found segments or output there. Tasks side by side do overwrite each
  other, and what an exit or a failed removal left is stitched in (section 6).
  Other leftovers - an input, an encoded segment, a file of the packaging - do not
  harm a task: that is the content of the property.
- `FailsOnlyByFault`: unless another task's removal took files it needed. It holds for
  tasks side by side as well, whatever they overwrite.
- `CleanWhenIdle`: unless a process exited in mid-task or a removal failed since the
  last complete one. Neither errors nor stragglers leave a file.
- `HandedOutOnce`, `ListKept`: unless a lock expired under a call that was at work
  on the job, or the two ways of taking a job raced. An expiry after the entry
  was marked is harmless: that is the content of the property.
- `RegistrationReported`: unless a call failed or the request was cut off after the
  INSERT.
- `OwnerGetsIn`: for an owner who registered with address and password in their
  stored form, by typing the same again. The others are locked out (section 6).
- `MissedOnlyByShift`, `RepeatedOnlyByShift`: only rows before the page may cause
  it; that count and page are separate statements never does.
- `BlankOnlyByDeletion`: a page that was promised is empty only after a deletion.

## 4. Fairness

- Goroutines that can run do (WF): in `JobDispatch` one condition for each
  goroutine - subscriber, a worker that takes, main, and each message's task - and
  not one for the whole service, so that one goroutine cannot stand for another.
- A `select` chooses at random among ready branches, and waiters of a channel or a
  semaphore are served in order, so that a branch that is ready again and again
  is taken (SF on the forwarder, on `WorkerStop`, on `Acquire`).
- `ProcessVideo`, ffmpeg and S3 requests end (their processes are outside the
  code; no timeout is set on them).
- `AcceptTask` is SF: the CPU is not over its limit at every check of one job.
- `accounts`: the server goes on with its requests, keys expire; an owner who
  registered with the stored form keeps trying to log in with it, and not every
  SELECT or SET fails.
- `queue`: callers poll; no command fails for all callers for ever; locks expire.
- `catalog` and `pipeline` check safety alone and assume none.
- No fairness is given to publications, faults, signals, uploads or deletions.

## 5. Proofs

`JobDispatch_proofs` proves, from `DispatchAssumption` alone (finitely many
publications, positive capacities, any set of services, jobs and faults):

| theorem | statement |
|---|---|
| `TypeCorrect` | `Spec => []TypeOK` |
| `SlotsCorrect` | `Spec => []SlotsAccounted` |
| `EncodingsBounded` | `Spec => []AtMostWorkerCount` |
| `LocksCorrect` | `Spec => []ClaimHoldsLock` |
| `ClaimsExclusive` | `Spec => []NoDoubleClaim` |
| `DispatchImplementsLease` | `Spec => ImplementsLease` |

The argument. `TypeOK` is not inductive alone: that `exiting` and `workers` stay
natural numbers needs the accounting, so the invariant is `TypeOK /\
SlotsAccounted`. The semaphore's content equals the cardinality of the set of
publications in a task stage plus the releases outstanding; a move into or out
of the task stages changes that cardinality by one (`TaskSpawned`, `TaskOver`)
and every other action leaves the set alone (`TasksKept`).
`AtMostWorkerCount` follows, `encoding` being one of the task stages.
`ClaimHoldsLock` is inductive given types: only SETNX on a free key, expiry and
the DEL change a lock, and the latter two put the owner into `lapsed`.
`NoDoubleClaim` follows, since a key has one owner. For the refinement each
action is mapped to the lease's step - `LockAcquired` to `Acquire`, a lost reply to
`Misfire`, `AcceptTask` to `Begin`, the ends to `End` of one claim and a crash or
exit to `End` of all of the service's claims, `AbandonOffer` to `GiveBack` or
`End`, expiry to `Lapse` - and everything else to a stutter.

The second half of the module is about what is in the channels:

| theorem | statement |
|---|---|
| `LedgerCorrect` | `Spec => []Ledger` |
| `DropsExplained` | `Spec => DropOnlyOverCommitted` |
| `StopEndsSpawning` | `Spec => NoTaskAfterStop` |

`Ledger` is inductive given types: its lemmas say what an append, a receive and a move
elsewhere do to the statement that a channel lists exactly the claims at one
stage. A drop happens on a full `w.jobs` (`DroppedWhenFull`), which by `Ledger` stands
for `JobsCap` claims in flight besides the one in hand. `NoTaskAfterStop` needs `Hands`:
the jobs in workers' hands never outnumber the live workers, of which there are
none once `Stop` has returned; a worker that leaves has empty hands.

`SegmentEncoder_proofs`, from `EncoderAssumption` (at least one segment and one slot):

| theorem | statement |
|---|---|
| `TypeCorrect` | `Spec => []TypeOK` |
| `EncoderImplementsCall` | `Spec => ImplementsCall` |

The invariant is `TypeOK`, the accounting of slots (the semaphore's content is the
cardinality of `Holding`), what is known of ffmpeg's verdicts, and `ResultsKept`: a
result that was sent is in the channel or was collected, as long as the caller
collects. The latter is why `ReturnOk`, which looks at an empty closed channel
only, is an abstract `ReturnOk`; the accounting is why `Acquire` is an abstract
`Begin`. `Send`, `Release` and `Close` are stutters.

`UploadPool_proofs`, from `UploadAssumption` (some uploader, files with different names, at
least one attempt):

| theorem | statement |
|---|---|
| `TypeCorrect` | `Spec => []TypeOK` |
| `GoroutinesEnd` | `Spec => []NothingLeftBehind` |
| `SuccessStored` | `Spec => []SuccessMeansStored` |

`NothingLeftBehind` needs that an uploader leaves only after the walker has closed
`jobs`. `SuccessMeansStored` needs `Underway`: as long as no error was counted and the
context is not cancelled, each file the walk has passed is stored or in an
uploader's hands, and a closed `jobs` means a walk to the end; and `Counted`: after
the return nobody counts an error any more.

`Accounts_proofs`, from `AccountsAssumption` (`None` is no key):

| theorem | statement |
|---|---|
| `TypeCorrect` | `Spec => []TypeOK` |
| `MailboxesUnique` | `Spec => []OneAccountPerMailbox` |
| `SessionsOwn` | `Spec => []SessionIsOwn` |
| `RegistrationsReported` | `Spec => []RegistrationReported` |

`RowsOK` says that only the plain form is stored and that addresses differ, which
together make mailboxes differ; `Fits` says of each statement a request is at whose
secret, row or key it carries. A session key is set only when no cookie and no
request refers to it: that is the freshness of a UUID, and the only place where
it is needed.

`RegistrationsReported` adds `Told`: of an account its owner has not heard of yet, the
registration is still at the SET of its session.

`VideoPipeline_proofs`, from `PipelineAssumption` (at least one segment, slot and encoder,
a positive minimum duration; any tasks with any durations) and `ResidueAssumption`
(any files whatever may be in `TempDir` at the start or survive a removal):

| theorem | statement |
|---|---|
| `TypeCorrect` | `Spec => []TypeOK` |
| `PipelineInvariant` | `Spec => []IInv` |
| `OutputsOwn` | `Spec => []OwnOutput` |
| `FailuresFaults` | `Spec => []FailsOnlyByFault` |
| `IdleClean` | `Spec => []CleanWhenIdle` |
| `TasksCallEncoder` | `Spec => TasksUseCall` |

Types rest on the arithmetic of `splitVideo` (`SplitFits`: rounding both the count and
the duration up never makes one segment more than `MaxSegments`). The invariant has
these parts.

- `Clean`: when no task runs and the directory is not `littered`, nothing is in it:
  a straggler finds no directory to write to, and what it had open is unlinked.
- `CodersOK`: what a task's encoders are at, for each of its steps; with it each
  step is a step or a stutter of `EncodeCall`. `FilesOK`: who writes a file is such
  an encoder.
- `Found`: a running task that nobody robbed finds, at each step, the files its
  earlier steps left, whoever has written to them since. This is why
  `FailsOnlyByFault` needs no task to be alone: another's removal is the only way
  in which sharing the directory makes a task fail.
- `Prepared`, for a task that is neither `shared` nor `stale`: which of its files are
  made of its own video alone, step by step. `OwnOutput` follows.
- `Judged`: what the verdict then says.
- `Alone` makes `Prepared` inductive: a step of another task either is not possible
  or marks both as sharing. It is also why an exit needs no case of its own
  there: it changes no file, and a task that later finds segments of the cut-off
  one is `stale`.

`JobQueue_proofs`, from `QueueAssumption`:

| theorem | statement |
|---|---|
| `TypeCorrect` | `Spec => []TypeOK` |
| `ListsKept` | `Spec => []ListKept` |
| `JobsHandedOutOnce` | `Spec => []HandedOutOnce` |

Without a race the list is `pushed` less its first `popped` entries (`InOrder`), and a
PeekJob that may still write by index has read the same jobs at the same indices
(`InStep`): pushes are at the end, and a pop under a reader is the race. A job's
lock key has one holder unless it expired under somebody (`OneHolder`). For
`HandedOutOnce` the guard passes from the key to the entry (`GivenOnce`): once a job
was given out, its entries are marked, nobody is about to mark it again, and
whoever read its entry before still finds the key taken - which is why an expiry
after everybody has left is harmless, and why one under a caller that is still
at the entry is not.

`VideoCatalog_proofs`, from `CatalogAssumption` (a positive `MaxSize`, at least one page;
any videos):

| theorem | statement |
|---|---|
| `TypeCorrect` | `Spec => []TypeOK` |
| `NothingElseMissed` | `Spec => []MissedOnlyByShift` |
| `NothingElseRepeated` | `Spec => []RepeatedOnlyByShift` |
| `NoPageBlank` | `Spec => BlankOnlyByDeletion` |

The invariant draws a line through the rows at `Start`, the offset of the page to
come. What was listed has a lower rank, unless an earlier row was committed
(`ListedBehind`); what was there all the time and was not listed has a rank of at
least `Start`, and below the count when there is one, unless an earlier row came
or went (`OthersAhead`). The line moves by a page exactly when the page is listed
(`PagesAre`), and a page that the count calls the last one leaves no rank between
the line and the count. A row's rank changes only with an earlier row (`RowsMoved`).
For `NoPageBlank` the ranks of the user's n rows are 0..n-1 without a gap
(`RanksDiffer`, `RanksFilled`), and as long as none of them was deleted the page to come
starts below their number, which the count never exceeds (`Standing`).

`DemoPool_proofs`, from `DemoAssumption`:

| theorem | statement |
|---|---|
| `TypeCorrect` | `Spec => []TypeOK` |
| `CgroupsOutliveTasks` | `Spec => []CgroupOutlivesTask` |

A worker has a task exactly from the pop to the end of its process (`Handed`), so
that it has none at its `select`, where alone the quit is met; `main` deletes a
cgroup only after that (`Left`), and never before `Start` (`NotStarted`).

The invariants of the last four modules were checked by TLC, on the bounds of the
component's run, before they were proved.

Only model-checked, since fairness and `ENABLED` are out of the prover's reach: the
liveness properties `ReceivedGetsEncoded`, `StopCompletes`, `NoGoroutineLeaks`, the two
`CallReturns`, `OpenGetsTaken`, `QueuedIsTaken` and `OwnerGetsIn`. The violations of
section 6 are TLC's counterexamples.

## 6. Findings

1. `dispatch_refused`: a refused lock is taken for a job in progress
   (`redis_repository.go:215`), but the key outlives the job's end, its drop and its
   process by up to ten minutes; a repeated publication is silently skipped.
2. `dispatch_stopped`: `Worker.Stop` logs "Worker pool stopped" while tasks encode;
   they are not in its WaitGroup.
3. `demo_stop`: the prototype's `Stop` blocks for ever on a worker that sits in
   `BLPOP` without a timeout.

Seen while modelling, without a run: the "generated segments" of `splitVideo`
(`processor.go:306-307`) are whatever `segment_*.mp4` lie in `TempDir`, so that after an
exit in mid-task, with never two tasks at once, the next process's shorter video
is stitched together with the rest of the one that was cut off, and uploaded
(`shared` and `stale` in `VideoPipeline` stand for such cases); `cleanup` removes all
tasks' files (`robbed`); `createVideoQuery` has
no RETURNING although its row is scanned, so the caller always gets an error
(and `CreateJob` never publishes), and compares an integer column with a text
literal; `models.VideoFile` is tagged `file_name` where every SELECT names `filename`,
and sqlx refuses a column without a field; `updateVideoQuery` has eight placeholders for seven arguments;
`getVideosBySearchQuery` has two for four; `VideoList.TotalCount` carries the number
of pages; the migration references tables before they exist; `DequeueJob` needs a
`job_data` field that nothing writes, and loses the popped job without it.
`Register` takes any error of its SELECT for "no such user"; `Login`'s test for
`sql.ErrNoRows` is never true, the repository having formatted the error with %v;
the address is put to lower case and the password trimmed at registration
(`user.go:65,70`) and neither at login (`usecase.go:64,71`), so an owner who registered
with capitals in the address or a space around the password is refused for ever
with the very same input; `getPlaybackInfoQuery` (`sql_queries.go:24`) names columns
that `PlaybackInfo` has no field for, so that no playback row ever scans;
`server.go` shuts down an `http.Server` that never served; `updateUser` and
the storage statistics always fail; `GET /:user_id` always answers 401; `Logout`
clears a cookie nothing sets and leaves the session.

## 7. Not modelled

- `UpdateProgress` and `GetJobStatus` (a field write and a read of a hash nobody
  shows), presigned URLs (signed without a call), `CreateJob` (not routed, and behind
  an INSERT that always answers an error).
- Account operations that nothing reaches: `Delete`, `GenerateApiKey`, the session's
  `DeleteByID`, the JWT middleware; `Logout` and `GET /:user_id` touch no state.
- `analyzeBitrate`: floating point over measured values.
- The S3 repository, HTTP wiring, configuration, logging: one call each, or none.
- `handler.go`, `monitor.go`, `uploader.go`, `cmd/machine.go`: commented out or empty.

## 8. Plan

All components that carry the program's logic are modelled, and every safety
property that a run checks is proved. What could be added:

1. the safety half of the liveness properties: that no reachable state of
   `UploadPool`, `SegmentEncoder` and `JobDispatch` has every goroutine waiting, stated with
   the guards themselves in place of `ENABLED`;
2. what the abstract modules promise by themselves: that two claims of `JobLease`
   coexist only after a lapse, and that an `EncodeCall` which is "ok" has encoded all;
3. for `JobDispatch`, that a claim is begun at most once, as a statement of its own.
