----------------------------- MODULE UploadPool -----------------------------
(***************************************************************************)
(* One call of uploadProcessedFiles: a walker goroutine hands the files of *)
(* the output directory to a pool of uploaders over an unbuffered channel; *)
(* each uploader tries a file up to MaxRetries times; errors travel over a *)
(* second unbuffered channel to the caller, which collects them until the  *)
(* channel is closed.  The context may be cancelled at any time, files and *)
(* the directory may vanish (another task's cleanup), requests may fail.   *)
(***************************************************************************)
EXTENDS Naturals, Sequences, FiniteSets

CONSTANTS
  Uploaders,   \* the pool (maxConcurrentUploads)
  Walk,        \* the files of outputPath, in the order of filepath.Walk
  MaxRetries,  \* attempts per file (3)
  Faults       \* of "cancel", "vanish", "put"

ASSUME UploadAssumption ==
  /\ Uploaders # {}
  /\ Walk \in Seq(STRING)
  /\ \A i, k \in 1..Len(Walk) : Walk[i] = Walk[k] => i = k
  /\ MaxRetries \in Nat \ {0}

VARIABLES
  walker,     \* "walking", "erring" (an error to report), "closed" (jobs closed)
  next,       \* index in Walk of the file the walker is at
  uploader,   \* per uploader: what it does, with which file, at which attempt
  stored,     \* files in the bucket
  cancelled,  \* ctx.Done()
  errors,     \* the caller's uploadErrors, counted
  results,    \* "open" or "closed"
  outcome     \* "none" until the call returns, then "ok" or "error"

vars == <<walker, next, uploader, stored, cancelled, errors, results, outcome>>

Files == {Walk[i] : i \in 1..Len(Walk)}
Idle == [doing |-> "idle"]
Gone == [doing |-> "gone"]
Putting(f, k) == [doing |-> "putting", file |-> f, attempt |-> k]
Failing(f) == [doing |-> "failing", file |-> f]

Init ==
  /\ walker = "walking" /\ next = 1
  /\ uploader = [u \in Uploaders |-> Idle]
  /\ stored = {}
  /\ cancelled = FALSE
  /\ errors = 0 /\ results = "open" /\ outcome = "none"

Becomes(u, what) == uploader' = [uploader EXCEPT ![u] = what]

-----------------------------------------------------------------------------
(* Mutants: slips that the properties below would show.                    *)

\* attempt <= maxRetries where the code has attempt < maxRetries.
PutFails_OffByOne(u) ==
  /\ uploader[u].doing = "putting" /\ ("put" \in Faults \/ cancelled)
  /\ LET f == uploader[u].file
         k == uploader[u].attempt
     IN /\ stored' \in {stored, stored \cup {f}}
        /\ Becomes(u, IF k <= MaxRetries THEN Putting(f, k + 1) ELSE Failing(f))
  /\ UNCHANGED <<walker, next, cancelled, errors, results, outcome>>

\* The select that sends the error has a default branch.
UploaderReports_Drops(u) ==
  /\ uploader[u].doing = "failing"
  /\ errors' \in {errors, errors + 1}
  /\ Becomes(u, Idle)
  /\ UNCHANGED <<walker, next, stored, cancelled, results, outcome>>

\* The walker returns after its error and does not close jobs.
WalkerReports_NoClose ==
  /\ walker = "erring"
  /\ \/ errors' = errors + 1
     \/ cancelled /\ UNCHANGED errors
  /\ walker' = "left"
  /\ UNCHANGED <<next, uploader, stored, cancelled, results, outcome>>

\* wg.Add(1) is missing: wg.Wait returns at once.
CloseResults_Early ==
  /\ results = "open" /\ walker = "closed"
  /\ results' = "closed"
  /\ UNCHANGED <<walker, next, uploader, stored, cancelled, errors, outcome>>

-----------------------------------------------------------------------------
(* The walker goroutine.                                                   *)

\* jobs <- uploadJob{...}: an idle uploader takes it.
HandOver(u) ==
  /\ walker = "walking" /\ next <= Len(Walk) /\ uploader[u] = Idle
  /\ Becomes(u, Putting(Walk[next], 1))
  /\ next' = next + 1
  /\ UNCHANGED <<walker, stored, cancelled, errors, results, outcome>>

\* Walk returns an error: ctx.Done() while a file is offered, or a directory
\* entry that can no longer be read.
WalkFails ==
  /\ walker = "walking"
  /\ \/ cancelled /\ next <= Len(Walk)
     \/ "vanish" \in Faults
  /\ walker' = "erring"
  /\ UNCHANGED <<next, uploader, stored, cancelled, errors, results, outcome>>

\* The walk is over without an error: close(jobs).
WalkDone ==
  /\ walker = "walking" /\ next > Len(Walk)
  /\ walker' = "closed"
  /\ UNCHANGED <<next, uploader, stored, cancelled, errors, results, outcome>>

\* results <- the walk's error, or ctx.Done(); then close(jobs).
WalkerReports ==
  /\ walker = "erring"
  /\ \/ errors' = errors + 1
     \/ cancelled /\ UNCHANGED errors
  /\ walker' = "closed"
  /\ UNCHANGED <<next, uploader, stored, cancelled, results, outcome>>

-----------------------------------------------------------------------------
(* An uploader: uploadSingleFile, then the error report.                   *)

\* os.Open or Seek fails.
OpenFails(u) ==
  /\ "vanish" \in Faults /\ uploader[u].doing = "putting"
  /\ Becomes(u, Failing(uploader[u].file))
  /\ UNCHANGED <<walker, next, stored, cancelled, errors, results, outcome>>

\* (An attempt in flight when the context is cancelled may still succeed.)
PutSucceeds(u) ==
  /\ uploader[u].doing = "putting"
  /\ stored' = stored \cup {uploader[u].file}
  /\ Becomes(u, Idle)
  /\ UNCHANGED <<walker, next, cancelled, errors, results, outcome>>

\* PutObject returns an error (the object may be there all the same): again,
\* up to MaxRetries attempts.  On a cancelled context every attempt fails.
PutFails(u) ==
  /\ uploader[u].doing = "putting" /\ ("put" \in Faults \/ cancelled)
  /\ LET f == uploader[u].file
         k == uploader[u].attempt
     IN /\ stored' \in {stored, stored \cup {f}}
        /\ Becomes(u, IF k < MaxRetries THEN Putting(f, k + 1) ELSE Failing(f))
  /\ UNCHANGED <<walker, next, cancelled, errors, results, outcome>>

\* results <- err, which the caller receives, or ctx.Done().
UploaderReports(u) ==
  /\ uploader[u].doing = "failing"
  /\ \/ errors' = errors + 1
     \/ cancelled /\ UNCHANGED errors
  /\ Becomes(u, Idle)
  /\ UNCHANGED <<walker, next, stored, cancelled, results, outcome>>

\* for job := range jobs ends: wg.Done().
UploaderDone(u) ==
  /\ walker = "closed" /\ uploader[u] = Idle
  /\ Becomes(u, Gone)
  /\ UNCHANGED <<walker, next, stored, cancelled, errors, results, outcome>>

-----------------------------------------------------------------------------
\* wg.Wait(); close(results).
CloseResults ==
  /\ results = "open" /\ \A u \in Uploaders : uploader[u] = Gone
  /\ results' = "closed"
  /\ UNCHANGED <<walker, next, uploader, stored, cancelled, errors, outcome>>

\* The caller has drained results.
Return ==
  /\ results = "closed" /\ outcome = "none"
  /\ outcome' = IF errors > 0 THEN "error" ELSE "ok"
  /\ UNCHANGED <<walker, next, uploader, stored, cancelled, errors, results>>

Cancel ==
  /\ "cancel" \in Faults /\ ~cancelled
  /\ cancelled' = TRUE
  /\ UNCHANGED <<walker, next, uploader, stored, errors, results, outcome>>

\* The call has returned and nothing more happens.
Finished == outcome # "none" /\ UNCHANGED vars

Next ==
  \/ \E u \in Uploaders : \/ HandOver(u) \/ OpenFails(u) \/ PutSucceeds(u)
                          \/ PutFails(u) \/ UploaderReports(u) \/ UploaderDone(u)
  \/ WalkFails \/ WalkDone \/ WalkerReports
  \/ CloseResults \/ Return \/ Cancel \/ Finished

Spec == Init /\ [][Next]_vars

\* Every goroutine that can run runs; PutObject returns.
Fairness ==
  /\ WF_vars(\E u \in Uploaders : HandOver(u))
  /\ WF_vars(WalkDone) /\ WF_vars(WalkerReports)
  /\ WF_vars(CloseResults) /\ WF_vars(Return)
  /\ \A u \in Uploaders :
       /\ WF_vars(OpenFails(u) \/ PutSucceeds(u) \/ PutFails(u))
       /\ WF_vars(UploaderReports(u)) /\ WF_vars(UploaderDone(u))

FairSpec == Spec /\ Fairness

-----------------------------------------------------------------------------
\* Type correctness.
TypeOK ==
  /\ walker \in {"walking", "erring", "closed"}
  /\ next \in 1..(Len(Walk) + 1)
  /\ uploader \in [Uploaders ->
       {Idle, Gone} \cup {Putting(f, k) : f \in Files, k \in 1..MaxRetries}
                    \cup {Failing(f) : f \in Files}]
  /\ stored \in SUBSET Files
  /\ cancelled \in BOOLEAN
  /\ errors \in Nat
  /\ results \in {"open", "closed"}
  /\ outcome \in {"none", "ok", "error"}

\* uploadProcessedFiles returns nil only if every file of the directory is in
\* the bucket: no error is lost between uploader, walker and caller -- unless
\* the context was cancelled, when errors may be dropped.
SuccessMeansStored ==
  outcome = "ok" /\ ~cancelled => stored = Files

\* results is closed only when nobody can send on it any more (a send on a
\* closed channel panics), and the call returns only then: it leaves no
\* goroutine behind, cancelled or not.
NothingLeftBehind ==
  results = "closed" =>
    walker = "closed" /\ \A u \in Uploaders : uploader[u] = Gone

\* The call returns: walker, uploaders and caller never wait on each other in
\* a circle over the two unbuffered channels, whatever fails or is cancelled.
CallReturns == <>(outcome # "none")

=============================================================================
