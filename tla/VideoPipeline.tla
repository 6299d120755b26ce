---------------------------- MODULE VideoPipeline ----------------------------
(***************************************************************************)
(* ProcessVideo, for several encode tasks of one service.  Every processor *)
(* works in the same directory (TempDir) under the same file names, and    *)
(* its deferred cleanup removes the whole directory.  The tasks run in     *)
(* WorkerCount slots; the encoder goroutines of a task whose encodeSegments*)
(* returned early (see SegmentEncoder) outlive it: stragglers.             *)
(*                                                                         *)
(* A file's contents are abstracted to the set of tasks whose material or  *)
(* whose settings went into it, and Torn if a writer had not finished.     *)
(* Encoding is the long step and has a beginning and an end; every other   *)
(* external command is one step, which reads its inputs and writes its     *)
(* outputs, or fails.                                                      *)
(*                                                                         *)
(* TempDir outlives the process: what a task that was cut off left there   *)
(* is there when the next process starts.  Tasks that are queued after an  *)
(* exit are those of the next process.                                     *)
(***************************************************************************)
EXTENDS Naturals, FiniteSets

CONSTANTS
  Tasks,        \* accepted jobs, each one call of ProcessVideo
  WorkerCount,  \* slots of the service
  MaxSegs,      \* MaxSegments: no video is split into more
  MinSegmentDuration, \* in seconds
  Durations,    \* for each task the lengths its video may have, in seconds
  MaxParallel,  \* MaxParallelJobs
  NoOutputKey,  \* tasks whose job has an empty OutputS3Key
  Torn,         \* material of an unfinished file
  Former,       \* material of tasks of processes before the first one here
  Residue,      \* files that may be there at the start, and that a RemoveAll
                \* which fails half-way, or races a writer, may leave
  None

ASSUME PipelineAssumption ==
  /\ MaxSegs \in Nat \ {0} /\ MinSegmentDuration \in Nat \ {0}
  /\ Durations \in [Tasks -> SUBSET Nat] /\ None \notin Nat
  /\ NoOutputKey \subseteq Tasks
  /\ Torn \notin Tasks /\ Former \notin Tasks
  /\ WorkerCount \in Nat \ {0} /\ MaxParallel \in Nat \ {0}

VARIABLES
  pc,        \* the step of ProcessVideo a task is at
  gone,      \* tasks whose process has exited, wherever they were
  verdict,   \* what ProcessVideo returned
  length,    \* the probed duration, kept until the video is split
  segs,      \* the segment numbers splitVideo found
  coder,     \* the encoder goroutines of each task
  source,    \* the material a running encoder reads
  fs,        \* the files under TempDir
  encDir,    \* TempDir/encoded_segments exists
  bucket,    \* what was uploaded under the task's output key
  shared,    \* history: somebody else was in TempDir during the task
  stale,     \* history: segments or output of others were there at its start
  robbed,    \* history: somebody else removed files while it needed them
  faulted,   \* history: a step of the task failed by itself
  littered   \* since the last complete cleanup a process exited in mid-task,
             \* or a removal failed (or so it was before the first process)

work  == <<length, segs, coder, source>>
dir   == <<fs, encDir>>
ghost == <<shared, stale, robbed, faulted, littered>>
vars  == <<pc, gone, verdict, work, dir, bucket, ghost>>

-----------------------------------------------------------------------------
Indices == 1..MaxSegs
Seg(i) == <<"segment", i>>
Enc(i) == <<"encoded", i>>
\* Input files of different jobs are taken to have different base names.
Input(t) == <<"input", t>>
Stitched == <<"stitched", 0>>
Fragmented == <<"fragmented", 0>>
Output == <<"output", 0>>
Packaging == {Stitched, Fragmented}
Paths == {Input(t) : t \in Tasks} \cup {Seg(i) : i \in Indices}
           \cup {Enc(i) : i \in Indices} \cup Packaging \cup {Output}

Material == SUBSET (Tasks \cup {Torn, Former})
Absent == [exists |-> FALSE, made |-> {}, writers |-> {}]
File(made) == [exists |-> TRUE, made |-> made, writers |-> {}]
Exist(ps) == \A p \in ps : fs[p].exists
\* What a reader gets: of a file that is being written, a torn part.
Read(ps) ==
  UNION {fs[p].made \cup (IF fs[p].writers = {} THEN {} ELSE {Torn}) : p \in ps}

ASSUME ResidueAssumption == Residue \subseteq Paths

Running(t) == pc[t] \notin {"queued", "over"} /\ t \notin gone
\* An ffmpeg survives the process that started it, a waiting goroutine does not.
Straggling(t) ==
  \E i \in Indices : coder[t][i] = "writing" \/ (coder[t][i] = "waiting" /\ t \notin gone)
Active(t) == Running(t) \/ Straggling(t)
Encoding(t) == {i \in Indices : coder[t][i] = "writing"}

\* The encoded segments are in a directory, which is there as well.
LeftDir(left, there) == (\E i \in Indices : Enc(i) \in left) => there

\* TempDir is as earlier processes left it: nothing clears it at the start.
Init ==
  /\ pc = [t \in Tasks |-> "queued"]
  /\ gone = {}
  /\ verdict = [t \in Tasks |-> "none"]
  /\ length = [t \in Tasks |-> None]
  /\ segs = [t \in Tasks |-> {}]
  /\ coder = [t \in Tasks |-> [i \in Indices |-> "none"]]
  /\ source = [t \in Tasks |-> [i \in Indices |-> {}]]
  /\ \E left \in SUBSET Residue :
       /\ fs = [p \in Paths |-> IF p \in left THEN File({Former}) ELSE Absent]
       /\ encDir \in BOOLEAN /\ LeftDir(left, encDir)
       /\ littered = (left # {} \/ encDir)
  /\ bucket = [t \in Tasks |-> {}]
  /\ shared = [t \in Tasks |-> FALSE]
  /\ stale = [t \in Tasks |-> FALSE]
  /\ robbed = [t \in Tasks |-> FALSE]
  /\ faulted = [t \in Tasks |-> FALSE]

-----------------------------------------------------------------------------
(* The arithmetic of splitVideo.  math.Ceil of a quotient by a whole number *)
(* depends only on the dividend rounded up, so whole seconds are enough.    *)

Ceil(a, b) == (a + b - 1) \div b

\* Mutants: integer division where the code calls math.Ceil.
SegmentCount_Floor(d) ==
  IF d \div MinSegmentDuration < MaxSegs THEN d \div MinSegmentDuration ELSE MaxSegs
SegmentTime_Floor(d) == d \div SegmentCount_Floor(d)

SegmentCount(d) ==
  IF Ceil(d, MinSegmentDuration) < MaxSegs THEN Ceil(d, MinSegmentDuration) ELSE MaxSegs
SegmentTime(d) == Ceil(d, SegmentCount(d))

-----------------------------------------------------------------------------
\* A step of a task whose process lives.
Goto(t, from, to) ==
  /\ pc[t] = from /\ t \notin gone
  /\ pc' = [pc EXCEPT ![t] = to]
  /\ UNCHANGED gone

\* t removes files in which other tasks that are at `where' have an interest.
RobOthers(t, where) ==
  robbed' = [u \in Tasks |-> robbed[u] \/ (u # t /\ Running(u) /\ pc[u] \in where)]

\* A mutant: cleanup is called at the end, not deferred: an error skips it.
Fails_NoCleanup(t, from) ==
  /\ Goto(t, from, "over")
  /\ verdict' = [verdict EXCEPT ![t] = "failed"]

\* A step of ProcessVideo returns an error: on to the deferred cleanup.
Fails(t, from) ==
  /\ Goto(t, from, "cleanup")
  /\ verdict' = [verdict EXCEPT ![t] = "failed"]

\* The external step fails by itself, or because `needed' is not there.
StepFails(t, from, needed) ==
  /\ Fails(t, from)
  /\ faulted' = IF Exist(needed) THEN [faulted EXCEPT ![t] = TRUE] ELSE faulted
  /\ UNCHANGED <<work, bucket, shared, stale, littered>>

-----------------------------------------------------------------------------
(* Mutants.                                                                *)

\* stitchAndPackage puts its result into the directory it removes.
Package_Loses(t) ==
  /\ Goto(t, "package", "upload") /\ Exist({Fragmented})
  /\ fs' = [p \in Paths |-> IF p \in Packaging THEN Absent ELSE fs[p]]
  /\ UNCHANGED <<verdict, work, encDir, bucket, ghost>>

\* The caller takes the list when the first segment is there.
EncodeReturns_Early(t) ==
  /\ \E i \in segs[t] : coder[t][i] = "done"
  /\ Goto(t, "encode", "stitch")
  /\ UNCHANGED <<verdict, work, dir, bucket, ghost>>

-----------------------------------------------------------------------------
\* A task goroutine calls ProcessVideo; it holds a slot until cleanup is done.
Begin(t) ==
  /\ Cardinality({u \in Tasks : Running(u)}) < WorkerCount
  /\ Goto(t, "queued", "download")
  /\ LET others == {u \in Tasks \ {t} : Active(u)}
         meet == IF others = {} THEN {} ELSE others \cup {t}
     IN shared' = [u \in Tasks |-> shared[u] \/ u \in meet]
  /\ stale' = [stale EXCEPT ![t] =
                fs[Output].exists \/ \E i \in Indices : fs[Seg(i)].exists]
  /\ UNCHANGED <<verdict, work, dir, bucket, robbed, faulted, littered>>

\* downloadVideo
Download(t) ==
  /\ Goto(t, "download", "probe")
  /\ fs' = [fs EXCEPT ![Input(t)] = File({t})]
  /\ UNCHANGED <<verdict, work, encDir, bucket, ghost>>

\* GetVideoInfo
Probe(t) ==
  /\ Exist({Input(t)})
  /\ Goto(t, "probe", "split")
  /\ \E d \in Durations[t] : length' = [length EXCEPT ![t] = d]
  /\ UNCHANGED <<verdict, segs, coder, source, dir, bucket, ghost>>

\* splitVideo writes its segments, then globs whatever segments are there.
\* ffmpeg -c copy cuts at key frames only: there may be fewer than asked for.
Split(t) ==
  /\ Exist({Input(t)}) /\ length[t] # None /\ SegmentCount(length[t]) > 0
  /\ Goto(t, "split", "analyze")
  /\ \E n \in 1..Ceil(length[t], SegmentTime(length[t])) :
       /\ fs' = [p \in Paths |-> IF p \in {Seg(i) : i \in 1..n}
                                 THEN File(Read({Input(t)})) ELSE fs[p]]
       /\ segs' = [segs EXCEPT ![t] = 1..n \cup {i \in Indices : fs[Seg(i)].exists}]
  /\ length' = [length EXCEPT ![t] = None]
  /\ UNCHANGED <<verdict, coder, source, encDir, bucket, ghost>>

\* 0 segments: their duration is 0/0, and ffmpeg refuses -segment_time NaN.
SplitRefused(t) ==
  /\ Exist({Input(t)}) /\ length[t] # None /\ SegmentCount(length[t]) = 0
  /\ Fails(t, "split")
  /\ UNCHANGED <<work, dir, bucket, ghost>>

\* analyzeBitrate(segments[0], ...)
Analyze(t) ==
  /\ Exist({Seg(1)})
  /\ Goto(t, "analyze", "spawn")
  /\ UNCHANGED <<verdict, work, dir, bucket, ghost>>

\* encodeSegments: MkdirAll and one goroutine per segment.
SpawnCoders(t) ==
  /\ Goto(t, "spawn", "encode")
  /\ encDir' = TRUE
  /\ coder' = [coder EXCEPT ![t] =
                [i \in Indices |-> IF i \in segs[t] THEN "waiting" ELSE "none"]]
  /\ UNCHANGED <<verdict, length, segs, source, fs, bucket, ghost>>

\* encodeSingleSegment: ffmpeg opens its input and creates its output.
CoderBegins(t, i) ==
  /\ t \notin gone
  /\ coder[t][i] = "waiting" /\ Cardinality(Encoding(t)) < MaxParallel
  /\ Exist({Seg(i)}) /\ encDir
  /\ coder' = [coder EXCEPT ![t][i] = "writing"]
  /\ source' = [source EXCEPT ![t][i] = Read({Seg(i)})]
  /\ fs' = [fs EXCEPT ![Enc(i)] =
             [exists |-> TRUE,
              made |-> IF @.writers = {} THEN {} ELSE {Torn},
              writers |-> @.writers \cup {t}]]
  /\ UNCHANGED <<pc, gone, verdict, length, segs, encDir, bucket, ghost>>

\* ... or finds no input or no directory.
CoderFindsNothing(t, i) ==
  /\ t \notin gone
  /\ coder[t][i] = "waiting" /\ Cardinality(Encoding(t)) < MaxParallel
  /\ ~(Exist({Seg(i)}) /\ encDir)
  /\ coder' = [coder EXCEPT ![t][i] = "failed"]
  /\ UNCHANGED <<pc, gone, verdict, length, segs, source, dir, bucket, ghost>>

\* ffmpeg ends, or is killed.  If the file was removed meanwhile the work is
\* lost.
CoderEnds(t, i) ==
  /\ coder[t][i] = "writing"
  /\ \E ok \in BOOLEAN :
       /\ coder' = [coder EXCEPT ![t][i] = IF ok THEN "done" ELSE "failed"]
       /\ faulted' = [faulted EXCEPT ![t] = @ \/ ~ok]
       /\ fs' = IF t \in fs[Enc(i)].writers
                THEN [fs EXCEPT ![Enc(i)] =
                       [exists |-> TRUE,
                        made |-> @.made \cup (IF ok THEN source[t][i] \cup {t} ELSE {Torn}),
                        writers |-> @.writers \ {t}]]
                ELSE fs
  /\ UNCHANGED <<pc, gone, verdict, length, segs, source, encDir, bucket, shared,
                 stale, robbed, littered>>

\* Every result is there and none is an error.
EncodeReturns(t) ==
  /\ \A i \in segs[t] : coder[t][i] = "done"
  /\ Goto(t, "encode", "stitch")
  /\ UNCHANGED <<verdict, work, dir, bucket, ghost>>

\* The first error returns, whatever the other goroutines are at.
EncodeFails(t) ==
  /\ \E i \in segs[t] : coder[t][i] = "failed"
  /\ Fails(t, "encode")
  /\ UNCHANGED <<work, dir, bucket, ghost>>

\* stitchSegments, fragmentVideo
Stitch(t) ==
  LET parts == {Enc(i) : i \in segs[t]}
  IN /\ Exist(parts)
     /\ Goto(t, "stitch", "fragment")
     /\ fs' = [fs EXCEPT ![Stitched] = File(Read(parts))]
     /\ UNCHANGED <<verdict, work, encDir, bucket, ghost>>

Fragment(t) ==
  /\ Exist({Stitched})
  /\ Goto(t, "fragment", "package")
  /\ fs' = [fs EXCEPT ![Fragmented] = File(Read({Stitched}))]
  /\ UNCHANGED <<verdict, work, encDir, bucket, ghost>>

\* stitchAndPackage's deferred RemoveAll of the packaging directory.
Unpackaged(t, other) ==
  /\ fs' = [p \in Paths |-> IF p \in Packaging THEN Absent ELSE other[p]]
  /\ RobOthers(t, {"stitch", "fragment", "package"})

\* packageVideo: mp4dash --force replaces the files it writes, and keeps the
\* others an output directory may hold.
Package(t) ==
  /\ Exist({Fragmented})
  /\ Goto(t, "package", "upload")
  /\ \E kept \in {{}, fs[Output].made} :
       Unpackaged(t, [fs EXCEPT ![Output] = File(kept \cup Read({Fragmented}))])
  /\ UNCHANGED <<verdict, work, encDir, bucket, shared, stale, faulted, littered>>

\* uploadProcessedFiles (see UploadPool): the output key must not be empty.
Upload(t) ==
  /\ t \notin NoOutputKey /\ Exist({Output})
  /\ Goto(t, "upload", "cleanup")
  /\ bucket' = [bucket EXCEPT ![t] = Read({Output})]
  /\ verdict' = [verdict EXCEPT ![t] = "ok"]
  /\ UNCHANGED <<work, dir, ghost>>

\* Failures of the external steps.  Those of stitchAndPackage remove the
\* packaging directory first.
ProcessFails(t) ==
  \/ /\ \/ StepFails(t, "download", {})
        \/ StepFails(t, "probe", {Input(t)})
        \/ StepFails(t, "split", {Input(t)})
        \/ StepFails(t, "analyze", {Seg(1)})
        \/ StepFails(t, "spawn", {})
        \/ t \notin NoOutputKey /\ StepFails(t, "upload", {Output})
     /\ UNCHANGED <<dir, robbed>>
  \/ /\ \/ StepFails(t, "stitch", {Enc(i) : i \in segs[t]})
        \/ StepFails(t, "fragment", {Stitched})
        \/ StepFails(t, "package", {Fragmented})
     /\ Unpackaged(t, fs)
     /\ UNCHANGED encDir
  \/ t \in NoOutputKey /\ Fails(t, "upload") /\ UNCHANGED <<work, dir, bucket, ghost>>

\* cleanup: os.RemoveAll(TempDir), whoever uses it.  Its error is discarded:
\* an ffmpeg that creates a file meanwhile, or a file that cannot be removed,
\* makes it leave what it has not got to.
Cleanup(t) ==
  /\ Goto(t, "cleanup", "over")
  /\ \E left \in SUBSET {p \in Residue : fs[p].exists} :
       /\ fs' = [p \in Paths |-> IF p \in left THEN fs[p] ELSE Absent]
       /\ encDir' \in {FALSE, encDir} /\ LeftDir(left, encDir')
       /\ littered' = (left # {} \/ encDir')
  /\ RobOthers(t, {pc[u] : u \in Tasks})
  /\ UNCHANGED <<verdict, work, bucket, shared, stale, faulted>>

\* The process ends, by main's return 5 s after Stop or by a crash: no task
\* reaches its deferred cleanup.  (One in mid-command counts as before it, or
\* after it.)
Exit ==
  /\ \E t \in Tasks : Active(t)
  /\ gone' = gone \cup {t \in Tasks : Active(t)}
  /\ littered' = TRUE
  /\ UNCHANGED <<pc, verdict, work, dir, bucket, shared, stale, robbed, faulted>>

AllOver ==
  /\ \A t \in Tasks : ~Active(t) /\ (pc[t] = "over" \/ t \in gone)
  /\ UNCHANGED vars

Process(t) ==
  \/ Begin(t) \/ Download(t) \/ Probe(t) \/ Split(t) \/ SplitRefused(t) \/ Analyze(t)
  \/ SpawnCoders(t) \/ EncodeReturns(t) \/ EncodeFails(t)
  \/ Stitch(t) \/ Fragment(t) \/ Package(t) \/ Upload(t)
  \/ ProcessFails(t) \/ Cleanup(t)

Coders(t) ==
  \E i \in Indices : CoderBegins(t, i) \/ CoderFindsNothing(t, i) \/ CoderEnds(t, i)

Next == AllOver \/ Exit \/ \E t \in Tasks : Process(t) \/ Coders(t)

Spec == Init /\ [][Next]_vars

-----------------------------------------------------------------------------
\* Type correctness; no video is ever split into more than MaxSegments.
TypeOK ==
  /\ pc \in [Tasks -> {"queued", "download", "probe", "split", "analyze", "spawn",
                       "encode", "stitch", "fragment", "package", "upload",
                       "cleanup", "over"}]
  /\ verdict \in [Tasks -> {"none", "ok", "failed"}]
  /\ length \in [Tasks -> Nat \cup {None}]
  /\ segs \in [Tasks -> SUBSET Indices]
  /\ coder \in [Tasks -> [Indices -> {"none", "waiting", "writing", "done", "failed"}]]
  /\ source \in [Tasks -> [Indices -> Material]]
  /\ fs \in [Paths -> [exists : BOOLEAN, made : Material, writers : SUBSET Tasks]]
  /\ encDir \in BOOLEAN
  /\ bucket \in [Tasks -> Material]
  /\ gone \subseteq Tasks
  /\ shared \in [Tasks -> BOOLEAN] /\ stale \in [Tasks -> BOOLEAN]
  /\ robbed \in [Tasks -> BOOLEAN] /\ faulted \in [Tasks -> BOOLEAN]
  /\ littered \in BOOLEAN

\* A task uploads its own video, complete and encoded with its own settings,
\* unless another task was at work in TempDir, or it found segments or output
\* there that an exit or a failed removal had left.  No other leftover harms
\* it: not an input, an encoded segment or a file of the packaging.
OwnOutput ==
  \A t \in Tasks : verdict[t] = "ok" /\ ~shared[t] /\ ~stale[t] => bucket[t] = {t}

\* A task fails by a fault of one of its own steps, for its input, or because
\* somebody else's removal took files while it needed them.  Nothing else that
\* tasks side by side do, and nothing earlier processes left, makes it fail;
\* and every video of more than 0 seconds, the shortest too, can be split.
FailsOnlyByFault ==
  \A t \in Tasks :
    verdict[t] = "failed" /\ ~robbed[t] =>
      faulted[t] \/ t \in NoOutputKey \/ length[t] = 0

\* Files stay behind in TempDir for two reasons only, an exit in mid-task and
\* a removal that failed; the next removal that is complete makes good for
\* both.  Errors of the tasks do not leave any, nor do stragglers, which could
\* create a file after the last cleanup.
CleanWhenIdle ==
  (\A t \in Tasks : ~Active(t)) /\ ~littered => \A p \in Paths : ~fs[p].exists

\* Every task's use of encodeSegments is one the callee allows for (EncodeCall):
\* it goes on to stitch only when all is encoded, and what stragglers still do
\* after an error is within the call's own limits.
Outcome(t) ==
  IF pc[t] = "encode" THEN "running"
  ELSE IF \A i \in Indices : coder[t][i] = "none"
       THEN "idle"
  ELSE IF pc[t] \in {"cleanup", "over"} /\ \E i \in Indices : coder[t][i] = "failed"
       THEN "error" ELSE "ok"

Encode(t) == INSTANCE EncodeCall WITH
  Segments <- Indices, coder <- coder[t], outcome <- Outcome(t)

\* That is, \A t \in Tasks : Encode(t)!CallSpec.
TasksUseCall ==
  /\ \A t \in Tasks : Encode(t)!CallInit
  /\ [][\A t \in Tasks : [Encode(t)!CallNext]_(Encode(t)!callVars)]_vars

=============================================================================
