------------------------ MODULE VideoPipeline_proofs ------------------------
(***************************************************************************)
(* Proofs about VideoPipeline, for every set of tasks, number of slots,    *)
(* length of the videos and limits on segments and encoders.               *)
(***************************************************************************)
EXTENDS VideoPipeline, Integers, TLAPS

-----------------------------------------------------------------------------
(* The arithmetic of splitVideo                                            *)

\* Ceil is the least whole number of b's that covers a.
LEMMA CeilCovers ==
  ASSUME NEW a \in Nat, NEW b \in Nat \ {0}
  PROVE  Ceil(a, b) \in Nat /\ a <= Ceil(a, b) * b
<1> DEFINE x == a + b - 1
           q == x \div b
<1>1. x \in Nat
  OBVIOUS
<1>2. q \in Nat /\ x = b * q + (x % b) /\ x % b < b
  BY <1>1
<1>3. q * b = b * q
  BY <1>2
<1>4. QED
  BY <1>2, <1>3 DEF Ceil

LEMMA CeilLeast ==
  ASSUME NEW a \in Nat, NEW b \in Nat \ {0}, NEW k \in Nat, a <= k * b
  PROVE  Ceil(a, b) <= k
<1> DEFINE x == a + b - 1
<1>1. x \in Nat /\ x < (k + 1) * b
  OBVIOUS
<1>2. x \div b < k + 1
  BY <1>1
<1>3. x \div b \in Int
  BY <1>1
<1>4. QED
  BY <1>2, <1>3 DEF Ceil

\* A video that is to be split at all is split into 1 to MaxSegs segments:
\* rounding both the count and the duration up never makes one more.
LEMMA SplitFits ==
  ASSUME NEW d \in Nat, SegmentCount(d) > 0
  PROVE  /\ SegmentTime(d) \in Nat \ {0}
         /\ Ceil(d, SegmentTime(d)) \in 1..MaxSegs
<1> DEFINE n == SegmentCount(d)
           s == SegmentTime(d)
<1>1. Ceil(d, MinSegmentDuration) \in Nat /\ d <= Ceil(d, MinSegmentDuration) * MinSegmentDuration
  BY PipelineAssumption, CeilCovers
<1>2. n \in 1..MaxSegs
  BY <1>1, PipelineAssumption DEF SegmentCount
<1>3. d # 0
  <2>1. SUFFICES ASSUME d = 0 PROVE FALSE
    OBVIOUS
  <2>2. Ceil(d, MinSegmentDuration) <= 0
    BY <2>1, PipelineAssumption, CeilLeast
  <2>3. n <= 0
    BY <1>1, <2>2, PipelineAssumption DEF SegmentCount
  <2>4. QED
    BY <1>2, <2>3
<1> HIDE DEF n
<1>4. s \in Nat /\ d <= s * n
  BY <1>2, CeilCovers DEF SegmentTime, n
<1>5. s # 0
  BY <1>2, <1>3, <1>4
<1> HIDE DEF s
<1>6. d <= n * s
  BY <1>2, <1>4
<1>7. Ceil(d, s) <= n
  BY <1>2, <1>4, <1>5, <1>6, CeilLeast
<1>8. Ceil(d, s) \in Nat /\ d <= Ceil(d, s) * s
  BY <1>4, <1>5, CeilCovers
<1>9. Ceil(d, s) # 0
  BY <1>3, <1>8, <1>4
<1>10. QED
  BY <1>2, <1>4, <1>5, <1>7, <1>8, <1>9, PipelineAssumption DEF n, s

\* Only a video of 0 seconds is not split.
LEMMA RefusedIsEmpty ==
  ASSUME NEW d \in Nat, SegmentCount(d) = 0
  PROVE  d = 0
<1>1. Ceil(d, MinSegmentDuration) \in Nat /\ d <= Ceil(d, MinSegmentDuration) * MinSegmentDuration
  BY PipelineAssumption, CeilCovers
<1>2. Ceil(d, MinSegmentDuration) = 0
  BY <1>1, PipelineAssumption DEF SegmentCount
<1>3. QED
  BY <1>1, <1>2, PipelineAssumption

-----------------------------------------------------------------------------
(* Files                                                                   *)

Files == [exists : BOOLEAN, made : Material, writers : SUBSET Tasks]

LEMMA FileTypes ==
  /\ Absent \in Files /\ ~Absent.exists /\ Absent.writers = {}
  /\ \A made \in Material : File(made) \in Files
  /\ \A made : File(made).exists /\ File(made).made = made /\ File(made).writers = {}
BY DEF Absent, File, Files, Material

LEMMA PathTypes ==
  /\ \A t \in Tasks : Input(t) \in Paths
  /\ \A i \in Indices : Seg(i) \in Paths /\ Enc(i) \in Paths
  /\ Stitched \in Paths /\ Fragmented \in Paths /\ Output \in Paths
BY DEF Paths, Packaging

\* Files of different kinds, tasks or numbers have different paths.
LEMMA PathsDiffer ==
  /\ \A t, u \in Tasks : Input(t) = Input(u) => t = u
  /\ \A i, k \in Indices : /\ Seg(i) = Seg(k) => i = k
                           /\ Enc(i) = Enc(k) => i = k
                           /\ Seg(i) # Enc(k)
  /\ \A t \in Tasks, i \in Indices : Input(t) # Seg(i) /\ Input(t) # Enc(i)
  /\ \A t \in Tasks : Input(t) \notin Packaging /\ Input(t) # Output
  /\ \A i \in Indices : /\ Seg(i) \notin Packaging /\ Seg(i) # Output
                        /\ Enc(i) \notin Packaging /\ Enc(i) # Output
  /\ Output \notin Packaging /\ Stitched # Fragmented
BY DEF Input, Seg, Enc, Packaging, Stitched, Fragmented, Output

\* What is read is material.
LEMMA ReadType ==
  ASSUME fs \in [Paths -> Files], NEW ps \in SUBSET Paths
  PROVE  Read(ps) \in Material
<1>1. \A p \in ps : fs[p].made \in Material
  BY DEF Files
<1>2. QED
  BY <1>1 DEF Read, Material

LEMMA TypeFiles == TypeOK => fs \in [Paths -> Files]
BY DEF TypeOK, Files

-----------------------------------------------------------------------------
(* Type correctness                                                        *)

PcValues == {"queued", "download", "probe", "split", "analyze", "spawn", "encode",
             "stitch", "fragment", "package", "upload", "cleanup", "over"}

LEMMA GotoType ==
  ASSUME TypeOK, NEW t \in Tasks, NEW from, NEW to \in PcValues, Goto(t, from, to)
  PROVE  pc' \in [Tasks -> PcValues] /\ gone' = gone
BY DEF TypeOK, Goto, PcValues

LEMMA FailsType ==
  ASSUME TypeOK, NEW t \in Tasks, NEW from, Fails(t, from)
  PROVE  /\ pc' \in [Tasks -> PcValues] /\ gone' = gone
         /\ verdict' \in [Tasks -> {"none", "ok", "failed"}]
<1>1. pc' \in [Tasks -> PcValues] /\ gone' = gone
  BY GotoType DEF Fails, PcValues
<1>2. verdict' \in [Tasks -> {"none", "ok", "failed"}]
  BY DEF Fails, TypeOK
<1>3. QED
  BY <1>1, <1>2

LEMMA InitType == Init => TypeOK
<1> SUFFICES ASSUME Init PROVE TypeOK
  OBVIOUS
<1>1. fs \in [Paths -> Files] /\ encDir \in BOOLEAN /\ littered \in BOOLEAN
  <2>1. PICK left \in SUBSET Residue :
          /\ fs = [p \in Paths |-> IF p \in left THEN File({Former}) ELSE Absent]
          /\ encDir \in BOOLEAN /\ littered = (left # {} \/ encDir)
    BY DEF Init
  <2>2. File({Former}) \in Files
    BY FileTypes DEF Material
  <2>3. QED
    BY <2>1, <2>2, FileTypes
<1>2. QED
  BY <1>1 DEF Init, TypeOK, Files, Material

LEMMA PrepareType ==
  ASSUME TypeOK, NEW t \in Tasks,
         \/ Begin(t) \/ Download(t) \/ Probe(t) \/ Split(t) \/ SplitRefused(t)
         \/ Analyze(t) \/ SpawnCoders(t)
  PROVE  TypeOK'
<1> USE DEF work, dir, ghost
<1>1. CASE Begin(t)
  <2>1. pc' \in [Tasks -> PcValues] /\ gone' = gone
    BY <1>1, GotoType DEF Begin, PcValues
  <2>2. shared' \in [Tasks -> BOOLEAN] /\ stale' \in [Tasks -> BOOLEAN]
    <3>1. (fs[Output].exists \/ \E i \in Indices : fs[Seg(i)].exists) \in BOOLEAN
      BY PathTypes, TypeFiles DEF Files
    <3>2. QED
      BY <1>1, <3>1 DEF Begin, TypeOK
  <2>3. QED
    BY <1>1, <2>1, <2>2 DEF Begin, TypeOK, PcValues
<1>2. CASE Download(t)
  <2>1. pc' \in [Tasks -> PcValues] /\ gone' = gone
    BY <1>2, GotoType DEF Download, PcValues
  <2>2. fs' \in [Paths -> Files]
    <3>1. File({t}) \in Files
      BY FileTypes DEF Material
    <3>2. QED
      BY <1>2, <3>1, TypeFiles, PathTypes DEF Download
  <2>3. QED
    BY <1>2, <2>1, <2>2 DEF Download, TypeOK, PcValues, Files
<1>3. CASE Probe(t)
  <2>1. pc' \in [Tasks -> PcValues] /\ gone' = gone
    BY <1>3, GotoType DEF Probe, PcValues
  <2>2. length' \in [Tasks -> Nat \cup {None}]
    <3>1. PICK d \in Durations[t] : length' = [length EXCEPT ![t] = d]
      BY <1>3 DEF Probe
    <3>2. Durations[t] \in SUBSET Nat
      BY PipelineAssumption
    <3>3. d \in Nat
      BY <3>2
    <3>4. QED
      BY <3>1, <3>3 DEF TypeOK
  <2>3. QED
    BY <1>3, <2>1, <2>2 DEF Probe, TypeOK, PcValues
<1>4. CASE Split(t)
  <2>1. pc' \in [Tasks -> PcValues] /\ gone' = gone
    BY <1>4, GotoType DEF Split, PcValues
  <2>2. length[t] \in Nat /\ SegmentCount(length[t]) > 0
    BY <1>4 DEF Split, TypeOK
  <2>3. PICK n \in 1..Ceil(length[t], SegmentTime(length[t])) :
          /\ fs' = [p \in Paths |-> IF p \in {Seg(i) : i \in 1..n}
                                    THEN File(Read({Input(t)})) ELSE fs[p]]
          /\ segs' = [segs EXCEPT ![t] = 1..n \cup {i \in Indices : fs[Seg(i)].exists}]
    BY <1>4 DEF Split
  <2>4. 1..n \subseteq Indices
    BY <2>2, <2>3, SplitFits, PipelineAssumption DEF Indices
  <2>5. segs' \in [Tasks -> SUBSET Indices]
    BY <2>3, <2>4 DEF TypeOK
  <2>6. fs' \in [Paths -> Files]
    <3>1. File(Read({Input(t)})) \in Files
      BY FileTypes, TypeFiles, ReadType, PathTypes
    <3>2. QED
      BY <2>3, <3>1, TypeFiles
  <2>7. length' \in [Tasks -> Nat \cup {None}]
    BY <1>4 DEF Split, TypeOK
  <2>8. QED
    BY <1>4, <2>1, <2>5, <2>6, <2>7 DEF Split, TypeOK, PcValues, Files
<1>5. CASE SplitRefused(t)
  BY <1>5, FailsType DEF SplitRefused, TypeOK, PcValues
<1>6. CASE Analyze(t)
  <2>1. pc' \in [Tasks -> PcValues] /\ gone' = gone
    BY <1>6, GotoType DEF Analyze, PcValues
  <2>2. QED
    BY <1>6, <2>1 DEF Analyze, TypeOK, PcValues
<1>7. CASE SpawnCoders(t)
  <2>1. pc' \in [Tasks -> PcValues] /\ gone' = gone
    BY <1>7, GotoType DEF SpawnCoders, PcValues
  <2>2. coder' \in [Tasks -> [Indices -> {"none", "waiting", "writing", "done", "failed"}]]
    BY <1>7 DEF SpawnCoders, TypeOK
  <2>3. encDir' \in BOOLEAN
    BY <1>7 DEF SpawnCoders
  <2>4. QED
    BY <1>7, <2>1, <2>2, <2>3 DEF SpawnCoders, TypeOK, PcValues
<1>8. QED
  BY <1>1, <1>2, <1>3, <1>4, <1>5, <1>6, <1>7

LEMMA CodersType ==
  ASSUME TypeOK, NEW t \in Tasks, NEW i \in Indices,
         CoderBegins(t, i) \/ CoderFindsNothing(t, i) \/ CoderEnds(t, i)
  PROVE  TypeOK'
<1> USE DEF work, dir, ghost
<1>0. Enc(i) \in Paths /\ Seg(i) \in Paths /\ fs[Enc(i)] \in Files
  BY PathTypes, TypeFiles
<1>1. CASE CoderBegins(t, i)
  <2>1. coder' \in [Tasks -> [Indices -> {"none", "waiting", "writing", "done", "failed"}]]
    BY <1>1 DEF CoderBegins, TypeOK
  <2>2. source' \in [Tasks -> [Indices -> Material]]
    <3>1. Read({Seg(i)}) \in Material
      BY <1>0, TypeFiles, ReadType
    <3>2. QED
      BY <1>1, <3>1 DEF CoderBegins, TypeOK
  <2>3. fs' \in [Paths -> Files]
    <3>1. [exists |-> TRUE,
           made |-> IF fs[Enc(i)].writers = {} THEN {} ELSE {Torn},
           writers |-> fs[Enc(i)].writers \cup {t}] \in Files
      BY <1>0 DEF Files, Material
    <3>2. QED
      BY <1>1, <3>1, TypeFiles DEF CoderBegins
  <2>4. QED
    BY <1>1, <2>1, <2>2, <2>3 DEF CoderBegins, TypeOK, Files
<1>2. CASE CoderFindsNothing(t, i)
  <2>1. coder' \in [Tasks -> [Indices -> {"none", "waiting", "writing", "done", "failed"}]]
    BY <1>2 DEF CoderFindsNothing, TypeOK
  <2>2. QED
    BY <1>2, <2>1 DEF CoderFindsNothing, TypeOK
<1>3. CASE CoderEnds(t, i)
  <2>1. PICK ok \in BOOLEAN :
       /\ coder' = [coder EXCEPT ![t][i] = IF ok THEN "done" ELSE "failed"]
       /\ faulted' = [faulted EXCEPT ![t] = @ \/ ~ok]
       /\ fs' = IF t \in fs[Enc(i)].writers
                THEN [fs EXCEPT ![Enc(i)] =
                       [exists |-> TRUE,
                        made |-> @.made \cup (IF ok THEN source[t][i] \cup {t} ELSE {Torn}),
                        writers |-> @.writers \ {t}]]
                ELSE fs
    BY <1>3 DEF CoderEnds
  <2>2. coder' \in [Tasks -> [Indices -> {"none", "waiting", "writing", "done", "failed"}]]
    BY <2>1 DEF TypeOK
  <2>3. faulted' \in [Tasks -> BOOLEAN]
    BY <2>1 DEF TypeOK
  <2>4. fs' \in [Paths -> Files]
    <3>1. source[t][i] \in Material
      BY DEF TypeOK
    <3>2. [exists |-> TRUE,
           made |-> fs[Enc(i)].made \cup (IF ok THEN source[t][i] \cup {t} ELSE {Torn}),
           writers |-> fs[Enc(i)].writers \ {t}] \in Files
      BY <1>0, <3>1 DEF Files, Material
    <3>3. QED
      BY <2>1, <3>2, TypeFiles
  <2>5. QED
    BY <1>3, <2>2, <2>3, <2>4 DEF CoderEnds, TypeOK, Files
<1>4. QED
  BY <1>1, <1>2, <1>3

LEMMA RobberyType ==
  ASSUME TypeOK, NEW t \in Tasks, NEW where, RobOthers(t, where)
  PROVE  robbed' \in [Tasks -> BOOLEAN]
BY DEF RobOthers, TypeOK

LEMMA PackageType ==
  ASSUME TypeOK, NEW t \in Tasks,
         \/ EncodeReturns(t) \/ EncodeFails(t) \/ Stitch(t) \/ Fragment(t)
         \/ Package(t) \/ Upload(t) \/ Cleanup(t)
  PROVE  TypeOK'
<1> USE DEF work, dir, ghost
<1>1. CASE EncodeReturns(t)
  <2>1. pc' \in [Tasks -> PcValues] /\ gone' = gone
    BY <1>1, GotoType DEF EncodeReturns, PcValues
  <2>2. QED
    BY <1>1, <2>1 DEF EncodeReturns, TypeOK, PcValues
<1>2. CASE EncodeFails(t)
  BY <1>2, FailsType DEF EncodeFails, TypeOK, PcValues
<1>3. CASE Stitch(t)
  <2> DEFINE parts == {Enc(i) : i \in segs[t]}
  <2>1. pc' \in [Tasks -> PcValues] /\ gone' = gone
    BY <1>3, GotoType DEF Stitch, PcValues
  <2>2. parts \in SUBSET Paths
    BY PathTypes DEF TypeOK
  <2>3. File(Read(parts)) \in Files
    BY <2>2, FileTypes, TypeFiles, ReadType
  <2>4. fs' \in [Paths -> Files]
    BY <1>3, <2>3, TypeFiles DEF Stitch
  <2>5. QED
    BY <1>3, <2>1, <2>4 DEF Stitch, TypeOK, PcValues, Files
<1>4. CASE Fragment(t)
  <2>1. pc' \in [Tasks -> PcValues] /\ gone' = gone
    BY <1>4, GotoType DEF Fragment, PcValues
  <2>2. File(Read({Stitched})) \in Files
    BY FileTypes, TypeFiles, ReadType, PathTypes
  <2>3. fs' \in [Paths -> Files]
    BY <1>4, <2>2, TypeFiles DEF Fragment
  <2>4. QED
    BY <1>4, <2>1, <2>3 DEF Fragment, TypeOK, PcValues, Files
<1>5. CASE Package(t)
  <2>1. pc' \in [Tasks -> PcValues] /\ gone' = gone
    BY <1>5, GotoType DEF Package, PcValues
  <2>2. PICK kept \in {{}, fs[Output].made} :
          Unpackaged(t, [fs EXCEPT ![Output] = File(kept \cup Read({Fragmented}))])
    BY <1>5 DEF Package
  <2>3. File(kept \cup Read({Fragmented})) \in Files
    <3>1. Read({Fragmented}) \in Material /\ fs[Output].made \in Material
      BY TypeFiles, ReadType, PathTypes DEF Files
    <3>2. kept \cup Read({Fragmented}) \in Material
      BY <3>1 DEF Material
    <3>3. QED
      BY <3>2, FileTypes
  <2>4. fs' \in [Paths -> Files]
    BY <2>2, <2>3, TypeFiles, FileTypes DEF Unpackaged
  <2>5. robbed' \in [Tasks -> BOOLEAN]
    BY <2>2, RobberyType DEF Unpackaged
  <2>6. QED
    BY <1>5, <2>1, <2>4, <2>5 DEF Package, TypeOK, PcValues, Files
<1>6. CASE Upload(t)
  <2>1. pc' \in [Tasks -> PcValues] /\ gone' = gone
    BY <1>6, GotoType DEF Upload, PcValues
  <2>2. Read({Output}) \in Material
    BY TypeFiles, ReadType, PathTypes
  <2>3. bucket' \in [Tasks -> Material] /\ verdict' \in [Tasks -> {"none", "ok", "failed"}]
    BY <1>6, <2>2 DEF Upload, TypeOK
  <2>4. QED
    BY <1>6, <2>1, <2>3 DEF Upload, TypeOK, PcValues
<1>7. CASE Cleanup(t)
  <2>1. pc' \in [Tasks -> PcValues] /\ gone' = gone
    BY <1>7, GotoType DEF Cleanup, PcValues
  <2>2. /\ fs' \in [Paths -> Files]
        /\ encDir' \in BOOLEAN /\ littered' \in BOOLEAN
    <3>1. PICK left \in SUBSET Paths :
            /\ fs' = [p \in Paths |-> IF p \in left THEN fs[p] ELSE Absent]
            /\ encDir' \in {FALSE, encDir} /\ littered' = (left # {} \/ encDir')
      BY <1>7, ResidueAssumption DEF Cleanup
    <3>2. fs' \in [Paths -> Files]
      BY <3>1, FileTypes, TypeFiles
    <3>3. encDir' \in BOOLEAN
      BY <3>1 DEF TypeOK
    <3>4. QED
      BY <3>1, <3>2, <3>3
  <2>3. robbed' \in [Tasks -> BOOLEAN]
    BY <1>7, RobberyType DEF Cleanup
  <2>4. QED
    BY <1>7, <2>1, <2>2, <2>3 DEF Cleanup, TypeOK, PcValues, Files
<1>8. QED
  BY <1>1, <1>2, <1>3, <1>4, <1>5, <1>6, <1>7

\* What a failing step leaves, whichever it is.
LEMMA FailedStep ==
  ASSUME NEW t \in Tasks, ProcessFails(t)
  PROVE  /\ \E from \in PcValues \ {"queued", "encode", "cleanup", "over"} : Fails(t, from)
         /\ UNCHANGED <<work, bucket, shared, stale, littered, encDir>>
         /\ faulted' = faulted \/ faulted' = [faulted EXCEPT ![t] = TRUE]
         /\ Unpackaged(t, fs) \/ UNCHANGED <<fs, robbed>>
BY DEF ProcessFails, StepFails, PcValues, dir, ghost

LEMMA FailuresType ==
  ASSUME TypeOK, NEW t \in Tasks, ProcessFails(t)
  PROVE  TypeOK'
<1>1. /\ pc' \in [Tasks -> PcValues] /\ gone' = gone
      /\ verdict' \in [Tasks -> {"none", "ok", "failed"}]
  BY FailedStep, FailsType
<1>2. faulted' \in [Tasks -> BOOLEAN]
  BY FailedStep DEF TypeOK
<1>3. fs' \in [Paths -> Files] /\ robbed' \in [Tasks -> BOOLEAN]
  <2>1. CASE Unpackaged(t, fs)
    BY <2>1, RobberyType, TypeFiles, FileTypes DEF Unpackaged
  <2>2. CASE UNCHANGED <<fs, robbed>>
    BY <2>2, TypeFiles DEF TypeOK
  <2>3. QED
    BY <2>1, <2>2, FailedStep
<1>4. UNCHANGED <<work, bucket, shared, stale, littered, encDir>>
  BY FailedStep
<1>5. QED
  BY <1>1, <1>2, <1>3, <1>4 DEF TypeOK, PcValues, Files, work

LEMMA TypeStep == TypeOK /\ [Next]_vars => TypeOK'
<1> SUFFICES ASSUME TypeOK, [Next]_vars PROVE TypeOK'
  OBVIOUS
<1>1. ASSUME NEW t \in Tasks, Process(t) PROVE TypeOK'
  BY <1>1, PrepareType, PackageType, FailuresType DEF Process
<1>2. ASSUME NEW t \in Tasks, Coders(t) PROVE TypeOK'
  BY <1>2, CodersType DEF Coders
<1>3. CASE Exit
  BY <1>3 DEF Exit, work, dir, TypeOK
<1>4. CASE UNCHANGED vars
  BY <1>4 DEF vars, work, dir, ghost, TypeOK
<1>5. QED
  BY <1>1, <1>2, <1>3, <1>4 DEF Next, AllOver

\* Type correctness; in particular no video is ever split into more than
\* MaxSegments segments, whatever its length.
THEOREM TypeCorrect == Spec => []TypeOK
<1>1. QED
  BY InitType, TypeStep, PTL DEF Spec

-----------------------------------------------------------------------------
(* The inductive invariant                                                 *)

\* When no task runs and nothing was left behind, nothing is in TempDir:
\* stragglers find no directory to write to, and what they had open is gone.
Clean ==
  (\A t \in Tasks : ~Running(t)) /\ ~littered =>
    (\A p \in Paths : fs[p] = Absent) /\ ~encDir

\* A file that is not there has no contents, and who writes a file is an
\* encoder that is at work on it.
FilesOK ==
  \A p \in Paths :
    /\ ~fs[p].exists => fs[p] = Absent
    /\ \A u \in fs[p].writers : \E i \in Indices : p = Enc(i) /\ coder[u][i] = "writing"

\* What the encoder goroutines of a task are at, step by step.
CodersOK(t) ==
  /\ pc[t] \in {"queued", "download", "probe", "split", "analyze", "spawn"} =>
       \A i \in Indices : coder[t][i] = "none"
  /\ pc[t] \in {"analyze", "spawn", "encode", "stitch"} => segs[t] # {}
  /\ pc[t] = "encode" => \A i \in Indices : coder[t][i] = "none" <=> i \notin segs[t]
  /\ pc[t] \in {"stitch", "fragment", "package", "upload"} =>
       /\ \A i \in Indices : coder[t][i] \in {"none", "done"}
       /\ \E i \in Indices : coder[t][i] = "done"
  /\ pc[t] \in {"cleanup", "over"} =>
       \/ \E i \in Indices : coder[t][i] = "failed"
       \/ \A i \in Indices : coder[t][i] \in {"none", "done"}

\* Who is in TempDir with nobody else noted is there alone.
Alone ==
  \A t, u \in Tasks : Active(t) /\ ~shared[t] /\ u # t => ~Active(u)

\* A running task that nobody robbed finds what its earlier steps left,
\* whoever made it what it is now.
Found(t) ==
  /\ pc[t] \in {"probe", "split"} => fs[Input(t)].exists
  /\ pc[t] \in {"analyze", "spawn", "encode"} =>
       1 \in segs[t] /\ \A i \in segs[t] : fs[Seg(i)].exists
  /\ pc[t] = "encode" => encDir
  /\ pc[t] = "encode" => \A i \in segs[t] :
       /\ coder[t][i] \in {"writing", "done"} => fs[Enc(i)].exists
       /\ coder[t][i] = "failed" => faulted[t]
  /\ pc[t] = "stitch" => \A i \in segs[t] : fs[Enc(i)].exists
  /\ pc[t] = "fragment" => fs[Stitched].exists
  /\ pc[t] = "package" => fs[Fragmented].exists
  /\ pc[t] = "upload" => fs[Output].exists

\* The encoded file of segment i, when t is alone.
Progress(t, i) ==
  /\ coder[t][i] = "writing" =>
       /\ fs[Enc(i)] = [exists |-> TRUE, made |-> {}, writers |-> {t}]
       /\ source[t][i] = {t}
  /\ coder[t][i] = "done" => fs[Enc(i)] = File({t})

\* What a task that is alone in TempDir, and found no segments and no output
\* there, has made of its video so far.
Prepared(t) ==
  /\ pc[t] \in {"download", "probe", "split"} => \A i \in Indices : fs[Seg(i)] = Absent
  /\ pc[t] \in {"download", "probe", "split", "analyze", "spawn", "encode", "stitch",
                "fragment", "package"} => fs[Output] = Absent
  /\ pc[t] \in {"probe", "split"} => fs[Input(t)] = File({t})
  /\ pc[t] \in {"analyze", "spawn", "encode"} => \A i \in segs[t] : fs[Seg(i)] = File({t})
  /\ pc[t] = "encode" => \A i \in segs[t] : Progress(t, i)
  /\ pc[t] = "stitch" => \A i \in segs[t] : fs[Enc(i)] = File({t})
  /\ pc[t] = "fragment" => fs[Stitched] = File({t})
  /\ pc[t] = "package" => fs[Fragmented] = File({t})
  /\ pc[t] = "upload" => fs[Output] = File({t})

\* The verdict comes last, and is the one the properties promise.
Judged(t) ==
  /\ verdict[t] # "none" => pc[t] \in {"cleanup", "over"}
  /\ verdict[t] = "ok" /\ ~shared[t] /\ ~stale[t] => bucket[t] = {t}
  /\ verdict[t] = "failed" /\ ~robbed[t] =>
       faulted[t] \/ t \in NoOutputKey \/ length[t] = 0

\* What the invariant says of one task.
TaskOK(t) ==
  /\ CodersOK(t)
  /\ t \notin gone /\ ~robbed[t] => Found(t)
  /\ t \notin gone /\ ~shared[t] /\ ~stale[t] => Prepared(t)
  /\ Judged(t)

IInv ==
  /\ TypeOK /\ Clean /\ FilesOK /\ Alone
  /\ \A t \in Tasks : TaskOK(t)

\* Before anything has begun, the invariant holds.
LEMMA InitInv == Init => IInv
<1> SUFFICES ASSUME Init PROVE IInv
  OBVIOUS
<1>1. TypeOK
  BY InitType
<1>2. PICK left \in SUBSET Residue :
        /\ fs = [p \in Paths |-> IF p \in left THEN File({Former}) ELSE Absent]
        /\ encDir \in BOOLEAN /\ littered = (left # {} \/ encDir)
  BY DEF Init
<1>3. Clean
  BY <1>2 DEF Clean
<1>4. FilesOK
  <2>1. \A p \in Paths : fs[p] = File({Former}) \/ fs[p] = Absent
    BY <1>2
  <2>2. QED
    BY <2>1, FileTypes DEF FilesOK
<1>5. \A t \in Tasks : pc[t] = "queued" /\ verdict[t] = "none"
                       /\ \A i \in Indices : coder[t][i] = "none"
  BY DEF Init
<1>6. Alone
  BY <1>5 DEF Alone, Active, Running, Straggling
<1>7. \A t \in Tasks : TaskOK(t)
  BY <1>5 DEF TaskOK, CodersOK, Found, Prepared, Judged
<1>8. QED
  BY <1>1, <1>3, <1>4, <1>6, <1>7 DEF IInv

-----------------------------------------------------------------------------
(* What a step moves                                                       *)

LEMMA GotoMoves ==
  ASSUME TypeOK, NEW t \in Tasks, NEW from, NEW to, Goto(t, from, to)
  PROVE  /\ pc[t] = from /\ pc'[t] = to /\ \A u \in Tasks \ {t} : pc'[u] = pc[u]
         /\ t \notin gone /\ gone' = gone
BY DEF Goto, TypeOK

LEMMA FailsMoves ==
  ASSUME TypeOK, NEW t \in Tasks, NEW from, Fails(t, from)
  PROVE  /\ pc[t] = from /\ pc'[t] = "cleanup" /\ verdict'[t] = "failed"
         /\ \A u \in Tasks \ {t} : pc'[u] = pc[u] /\ verdict'[u] = verdict[u]
         /\ t \notin gone /\ gone' = gone
<1>1. /\ pc[t] = from /\ pc'[t] = "cleanup" /\ \A u \in Tasks \ {t} : pc'[u] = pc[u]
      /\ t \notin gone /\ gone' = gone
  BY GotoMoves DEF Fails
<1>2. verdict' = [verdict EXCEPT ![t] = "failed"] /\ verdict \in [Tasks -> {"none", "ok", "failed"}]
  BY DEF Fails, TypeOK
<1>3. QED
  BY <1>1, <1>2

\* A step of one task, or of its encoders, is a step of nobody else.
Kept(u) ==
  /\ pc'[u] = pc[u] /\ verdict'[u] = verdict[u] /\ length'[u] = length[u]
  /\ segs'[u] = segs[u] /\ coder'[u] = coder[u] /\ source'[u] = source[u]
  /\ bucket'[u] = bucket[u] /\ faulted'[u] = faulted[u] /\ stale'[u] = stale[u]
  /\ (robbed[u] => robbed'[u]) /\ (shared[u] => shared'[u]) /\ gone' = gone

\* What was taken from a task stays noted.
LEMMA RobberyNoted ==
  ASSUME TypeOK, NEW t \in Tasks, NEW where, RobOthers(t, where), NEW u \in Tasks
  PROVE  /\ robbed[u] => robbed'[u]
         /\ u # t /\ Running(u) /\ pc[u] \in where => robbed'[u]
BY DEF RobOthers, TypeOK

\* Steps that neither begin a task nor remove files leave these notes alone.
LEMMA NotesKept ==
  ASSUME TypeOK, NEW t \in Tasks, Process(t) \/ Coders(t), NEW u \in Tasks
  PROVE  /\ u # t \/ ~Begin(t) => stale'[u] = stale[u]
         /\ robbed[u] => robbed'[u]
<1> USE DEF work, dir, ghost
<1>1. CASE Begin(t)
  BY <1>1 DEF Begin, TypeOK
<1>2. CASE \/ Download(t) \/ Probe(t) \/ Split(t) \/ SplitRefused(t) \/ Analyze(t)
           \/ SpawnCoders(t) \/ EncodeReturns(t) \/ EncodeFails(t) \/ Stitch(t)
           \/ Fragment(t) \/ Upload(t)
  <2>1. UNCHANGED <<stale, robbed>>
    BY <1>2 DEF Download, Probe, Split, SplitRefused, Analyze, SpawnCoders, EncodeReturns,
                EncodeFails, Stitch, Fragment, Upload
  <2>2. QED
    BY <2>1
<1>3. CASE Package(t)
  <2>1. RobOthers(t, {"stitch", "fragment", "package"}) /\ UNCHANGED stale
    BY <1>3 DEF Package, Unpackaged
  <2>2. QED
    BY <2>1, RobberyNoted
<1>4. CASE ProcessFails(t)
  <2>1. UNCHANGED stale
    BY <1>4, FailedStep
  <2>2. CASE Unpackaged(t, fs)
    BY <2>1, <2>2, RobberyNoted DEF Unpackaged
  <2>3. CASE UNCHANGED robbed
    BY <2>1, <2>3
  <2>4. QED
    BY <1>4, <2>2, <2>3, FailedStep
<1>5. CASE Cleanup(t)
  BY <1>5, RobberyNoted DEF Cleanup
<1>6. CASE Coders(t)
  <2>1. UNCHANGED <<stale, robbed>>
    BY <1>6 DEF Coders, CoderBegins, CoderFindsNothing, CoderEnds
  <2>2. QED
    BY <2>1
<1>7. QED
  BY <1>1, <1>2, <1>3, <1>4, <1>5, <1>6 DEF Process

LEMMA OthersKept ==
  ASSUME TypeOK, NEW t \in Tasks, NEW u \in Tasks \ {t}, Process(t) \/ Coders(t)
  PROVE  Kept(u)
<1> USE NotesKept DEF work, dir, ghost
<1>1. CASE Begin(t) \/ Download(t) \/ Analyze(t) \/ EncodeReturns(t) \/ Stitch(t)
           \/ Fragment(t) \/ Package(t) \/ Cleanup(t)
  <2>1. pc'[u] = pc[u] /\ gone' = gone
    BY <1>1, GotoMoves DEF Begin, Download, Analyze, EncodeReturns, Stitch, Fragment,
                           Package, Cleanup
  <2>2. UNCHANGED <<verdict, length, segs, coder, source, bucket, faulted>>
    BY <1>1 DEF Begin, Download, Analyze, EncodeReturns, Stitch, Fragment, Package, Cleanup
  <2>3. shared[u] => shared'[u]
    <3>1. CASE Begin(t)
      BY <3>1 DEF Begin
    <3>2. CASE ~Begin(t)
      BY <1>1, <3>2 DEF Download, Analyze, EncodeReturns, Stitch, Fragment, Package, Cleanup
    <3>3. QED
      BY <3>1, <3>2
  <2>4. QED
    BY <2>1, <2>2, <2>3 DEF Kept
<1>2. CASE Probe(t)
  <2>1. pc'[u] = pc[u] /\ gone' = gone
    BY <1>2, GotoMoves DEF Probe
  <2>2. length'[u] = length[u]
    BY <1>2 DEF Probe, TypeOK
  <2>3. QED
    BY <1>2, <2>1, <2>2 DEF Probe, Kept
<1>3. CASE Split(t)
  <2>1. pc'[u] = pc[u] /\ gone' = gone
    BY <1>3, GotoMoves DEF Split
  <2>2. length'[u] = length[u]
    BY <1>3 DEF Split, TypeOK
  <2>3. segs'[u] = segs[u]
    <3>1. \E new : segs' = [segs EXCEPT ![t] = new]
      BY <1>3 DEF Split
    <3>2. QED
      BY <3>1 DEF TypeOK
  <2>4. QED
    BY <1>3, <2>1, <2>2, <2>3 DEF Split, Kept
<1>4. CASE SplitRefused(t) \/ EncodeFails(t)
  <2>1. pc'[u] = pc[u] /\ verdict'[u] = verdict[u] /\ gone' = gone
    BY <1>4, FailsMoves DEF SplitRefused, EncodeFails
  <2>2. QED
    BY <1>4, <2>1 DEF SplitRefused, EncodeFails, Kept
<1>5. CASE SpawnCoders(t)
  <2>1. pc'[u] = pc[u] /\ gone' = gone
    BY <1>5, GotoMoves DEF SpawnCoders
  <2>2. coder'[u] = coder[u]
    BY <1>5 DEF SpawnCoders, TypeOK
  <2>3. QED
    BY <1>5, <2>1, <2>2 DEF SpawnCoders, Kept
<1>6. CASE Upload(t)
  <2>1. pc'[u] = pc[u] /\ gone' = gone
    BY <1>6, GotoMoves DEF Upload
  <2>2. bucket'[u] = bucket[u] /\ verdict'[u] = verdict[u]
    BY <1>6 DEF Upload, TypeOK
  <2>3. QED
    BY <1>6, <2>1, <2>2 DEF Upload, Kept
<1>7. CASE ProcessFails(t)
  <2>1. pc'[u] = pc[u] /\ verdict'[u] = verdict[u] /\ gone' = gone
    BY <1>7, FailedStep, FailsMoves
  <2>2. faulted'[u] = faulted[u]
    BY <1>7, FailedStep DEF TypeOK
  <2>3. QED
    BY <1>7, <2>1, <2>2, FailedStep DEF Kept
<1>8. CASE Coders(t)
  <2>1. PICK i \in Indices : CoderBegins(t, i) \/ CoderFindsNothing(t, i) \/ CoderEnds(t, i)
    BY <1>8 DEF Coders
  <2>2. CASE CoderBegins(t, i)
    <3>1. coder'[u] = coder[u] /\ source'[u] = source[u]
      BY <2>2 DEF CoderBegins, TypeOK
    <3>2. QED
      BY <2>2, <3>1 DEF CoderBegins, Kept
  <2>3. CASE CoderFindsNothing(t, i)
    <3>1. coder'[u] = coder[u]
      BY <2>3 DEF CoderFindsNothing, TypeOK
    <3>2. QED
      BY <2>3, <3>1 DEF CoderFindsNothing, Kept
  <2>4. CASE CoderEnds(t, i)
    <3>1. \E new : coder' = [coder EXCEPT ![t][i] = new]
      BY <2>4 DEF CoderEnds
    <3>2. coder'[u] = coder[u]
      BY <3>1 DEF TypeOK
    <3>3. \E new : faulted' = [faulted EXCEPT ![t] = new]
      BY <2>4 DEF CoderEnds
    <3>4. faulted'[u] = faulted[u]
      BY <3>3 DEF TypeOK
    <3>5. QED
      BY <2>4, <3>2, <3>4 DEF CoderEnds, Kept
  <2>5. QED
    BY <2>1, <2>2, <2>3, <2>4
<1>9. QED
  BY <1>1, <1>2, <1>3, <1>4, <1>5, <1>6, <1>7, <1>8 DEF Process

\* One encoder of the task moves; the task itself does not.
LEMMA CoderMoves ==
  ASSUME TypeOK, NEW t \in Tasks, NEW i \in Indices,
         CoderBegins(t, i) \/ CoderFindsNothing(t, i) \/ CoderEnds(t, i)
  PROVE  /\ pc'[t] = pc[t] /\ segs'[t] = segs[t]
         /\ UNCHANGED <<pc, gone, shared, stale, robbed, littered>>
         /\ t \in gone => coder[t][i] = "writing"
         /\ coder[t][i] \in {"waiting", "writing"}
         /\ coder'[t][i] \in {"writing", "done", "failed"}
         /\ coder'[t] = [coder[t] EXCEPT ![i] = coder'[t][i]]
         /\ \A k \in Indices \ {i} : coder'[t][k] = coder[t][k]
<1>1. PICK new \in {"writing", "done", "failed"} : coder' = [coder EXCEPT ![t][i] = new]
  BY DEF CoderBegins, CoderFindsNothing, CoderEnds
<1>2. coder'[t][i] = new /\ coder'[t] = [coder[t] EXCEPT ![i] = new]
      /\ \A k \in Indices \ {i} : coder'[t][k] = coder[t][k]
  BY <1>1 DEF TypeOK
<1>3. /\ UNCHANGED <<pc, segs, gone, shared, stale, robbed, littered>>
      /\ coder[t][i] \in {"waiting", "writing"}
      /\ t \in gone => coder[t][i] = "writing"
  BY DEF CoderBegins, CoderFindsNothing, CoderEnds, dir, ghost
<1>4. QED
  BY <1>2, <1>3

-----------------------------------------------------------------------------
(* The encoders of a task                                                  *)

LEMMA CodersOKStep ==
  ASSUME TypeOK, NEW t \in Tasks, CodersOK(t), Process(t) \/ Coders(t)
  PROVE  CodersOK(t)'
<1> USE DEF work, dir, ghost
<1>1. CASE Begin(t) \/ Download(t) \/ Analyze(t) \/ Stitch(t) \/ Fragment(t)
           \/ Package(t) \/ Cleanup(t)
  <2>1. UNCHANGED <<segs, coder>>
    BY <1>1 DEF Begin, Download, Analyze, Stitch, Fragment, Package, Cleanup
  <2>2. <<pc[t], pc'[t]>> \in {<<"queued", "download">>, <<"download", "probe">>,
          <<"analyze", "spawn">>, <<"stitch", "fragment">>, <<"fragment", "package">>,
          <<"package", "upload">>, <<"cleanup", "over">>}
    BY <1>1, GotoMoves DEF Begin, Download, Analyze, Stitch, Fragment, Package, Cleanup
  <2>3. QED
    BY <2>1, <2>2 DEF CodersOK
<1>2. CASE Probe(t) \/ Upload(t)
  <2>1. UNCHANGED <<segs, coder>>
    BY <1>2 DEF Probe, Upload
  <2>2. <<pc[t], pc'[t]>> \in {<<"probe", "split">>, <<"upload", "cleanup">>}
    BY <1>2, GotoMoves DEF Probe, Upload
  <2>3. QED
    BY <2>1, <2>2 DEF CodersOK
<1>3. CASE Split(t)
  <2>1. UNCHANGED coder /\ pc[t] = "split" /\ pc'[t] = "analyze"
    BY <1>3, GotoMoves DEF Split
  <2>2. PICK n \in 1..Ceil(length[t], SegmentTime(length[t])) :
          segs' = [segs EXCEPT ![t] = 1..n \cup {i \in Indices : fs[Seg(i)].exists}]
    BY <1>3 DEF Split
  <2>3. segs'[t] # {}
    <3>1. 1 \in 1..n
      OBVIOUS
    <3>2. QED
      BY <2>2, <3>1 DEF TypeOK
  <2>4. QED
    BY <2>1, <2>3 DEF CodersOK
<1>4. CASE SpawnCoders(t)
  <2>1. UNCHANGED segs /\ pc[t] = "spawn" /\ pc'[t] = "encode"
    BY <1>4, GotoMoves DEF SpawnCoders
  <2>2. coder'[t] = [i \in Indices |-> IF i \in segs[t] THEN "waiting" ELSE "none"]
    BY <1>4 DEF SpawnCoders, TypeOK
  <2>3. QED
    BY <2>1, <2>2 DEF CodersOK
<1>5. CASE EncodeReturns(t)
  <2>1. UNCHANGED <<segs, coder>> /\ pc[t] = "encode" /\ pc'[t] = "stitch"
    BY <1>5, GotoMoves DEF EncodeReturns
  <2>2. \A i \in segs[t] : i \in Indices /\ coder[t][i] = "done"
    BY <1>5 DEF EncodeReturns, TypeOK
  <2>3. QED
    BY <2>1, <2>2 DEF CodersOK
<1>6. CASE SplitRefused(t) \/ EncodeFails(t)
  <2>1. UNCHANGED <<segs, coder>> /\ pc'[t] = "cleanup"
    BY <1>6, FailsMoves DEF SplitRefused, EncodeFails
  <2>2. \/ pc[t] = "split"
        \/ \E i \in Indices : coder[t][i] = "failed"
    BY <1>6, FailsMoves DEF SplitRefused, EncodeFails, TypeOK
  <2>3. QED
    BY <2>1, <2>2 DEF CodersOK
<1>7. CASE ProcessFails(t)
  <2>1. PICK from \in PcValues \ {"queued", "encode", "cleanup", "over"} : Fails(t, from)
    BY <1>7, FailedStep
  <2>2. pc'[t] = "cleanup" /\ pc[t] \in PcValues \ {"queued", "encode", "cleanup", "over"}
    BY <2>1, FailsMoves
  <2>3. UNCHANGED <<segs, coder>>
    BY <1>7, FailedStep
  <2>4. QED
    BY <2>2, <2>3 DEF CodersOK, PcValues
<1>8. CASE Coders(t)
  <2>1. PICK i \in Indices : CoderBegins(t, i) \/ CoderFindsNothing(t, i) \/ CoderEnds(t, i)
    BY <1>8 DEF Coders
  <2>2. /\ pc'[t] = pc[t] /\ segs'[t] = segs[t]
        /\ coder[t][i] \in {"waiting", "writing"}
        /\ coder'[t][i] \in {"writing", "done", "failed"}
        /\ \A k \in Indices \ {i} : coder'[t][k] = coder[t][k]
    BY <2>1, CoderMoves
  <2>3. pc[t] \in {"encode", "cleanup", "over"}
    BY <2>2 DEF CodersOK, TypeOK
  <2>4. CASE pc[t] = "encode"
    BY <2>2, <2>4 DEF CodersOK
  <2>5. CASE pc[t] \in {"cleanup", "over"}
    <3>1. PICK k \in Indices : coder[t][k] = "failed"
      BY <2>2, <2>5 DEF CodersOK
    <3>2. coder'[t][k] = "failed"
      BY <2>2, <3>1
    <3>3. QED
      BY <2>2, <2>5, <3>2 DEF CodersOK
  <2>6. QED
    BY <2>3, <2>4, <2>5
<1>9. QED
  BY <1>1, <1>2, <1>3, <1>4, <1>5, <1>6, <1>7, <1>8 DEF Process

-----------------------------------------------------------------------------
(* TempDir is empty when no task runs                                      *)

\* Only Begin makes a task run, and only Cleanup stops it.
LEMMA RunsOrBegins ==
  ASSUME TypeOK, NEW t \in Tasks, Process(t)
  PROVE  /\ ~Begin(t) => Running(t)
         /\ ~Cleanup(t) => Running(t)'
<1> USE DEF Running
<1>1. CASE Begin(t) \/ Cleanup(t)
  <2>1. /\ <<pc[t], pc'[t]>> \in {<<"queued", "download">>, <<"cleanup", "over">>}
        /\ t \notin gone /\ gone' = gone
    BY <1>1, GotoMoves DEF Begin, Cleanup
  <2>2. Begin(t) => pc'[t] = "download"
    BY GotoMoves DEF Begin
  <2>3. Cleanup(t) => pc[t] = "cleanup"
    BY GotoMoves DEF Cleanup
  <2>4. QED
    BY <1>1, <2>1, <2>2, <2>3
<1>2. CASE \/ Download(t) \/ Probe(t) \/ Split(t) \/ Analyze(t) \/ SpawnCoders(t)
           \/ EncodeReturns(t) \/ Stitch(t) \/ Fragment(t) \/ Package(t) \/ Upload(t)
  <2>1. pc[t] \notin {"queued", "over"} /\ t \notin gone /\ gone' = gone
    BY <1>2, GotoMoves DEF Download, Probe, Split, Analyze, SpawnCoders, EncodeReturns,
                           Stitch, Fragment, Package, Upload
  <2>2. pc'[t] \notin {"queued", "over"}
    BY <1>2, GotoMoves DEF Download, Probe, Split, Analyze, SpawnCoders, EncodeReturns,
                           Stitch, Fragment, Package, Upload
  <2>3. QED
    BY <2>1, <2>2
<1>3. CASE SplitRefused(t) \/ EncodeFails(t)
  BY <1>3, FailsMoves DEF SplitRefused, EncodeFails
<1>4. CASE ProcessFails(t)
  <2>1. PICK from \in PcValues \ {"queued", "encode", "cleanup", "over"} : Fails(t, from)
    BY <1>4, FailedStep
  <2>2. QED
    BY <2>1, FailsMoves
<1>5. QED
  BY <1>1, <1>2, <1>3, <1>4 DEF Process

LEMMA CleanStep ==
  ASSUME TypeOK, Clean, NEW t \in Tasks, Process(t) \/ Coders(t)
  PROVE  Clean'
<1> SUFFICES ASSUME \A u \in Tasks : ~Running(u)', ~littered'
             PROVE  (\A p \in Paths : fs'[p] = Absent) /\ ~encDir'
  BY DEF Clean
<1>1. CASE Process(t)
  <2>1. Cleanup(t)
    BY <1>1, RunsOrBegins
  <2>2. PICK left :
          /\ fs' = [p \in Paths |-> IF p \in left THEN fs[p] ELSE Absent]
          /\ littered' = (left # {} \/ encDir')
    BY <2>1 DEF Cleanup
  <2>3. left = {} /\ ~encDir'
    BY <2>2
  <2>4. QED
    BY <2>2, <2>3
<1>2. CASE Coders(t)
  <2>1. PICK i \in Indices : CoderBegins(t, i) \/ CoderFindsNothing(t, i) \/ CoderEnds(t, i)
    BY <1>2 DEF Coders
  <2>2. UNCHANGED <<pc, gone, littered>>
    BY <2>1, CoderMoves
  <2>3. \A u \in Tasks : ~Running(u)
    BY <2>2 DEF Running
  <2>4. (\A p \in Paths : fs[p] = Absent) /\ ~encDir
    BY <2>2, <2>3 DEF Clean
  <2>5. Enc(i) \in Paths
    BY PathTypes
  <2>6. t \notin fs[Enc(i)].writers
    BY <2>4, <2>5, FileTypes
  <2>7. fs' = fs /\ encDir' = encDir
    BY <2>1, <2>4, <2>6 DEF CoderBegins, CoderFindsNothing, CoderEnds, dir
  <2>8. QED
    BY <2>4, <2>7
<1>3. QED
  BY <1>1, <1>2

-----------------------------------------------------------------------------
(* Files and who writes them                                               *)

FileOK(p) ==
  /\ ~fs[p].exists => fs[p] = Absent
  /\ \A u \in fs[p].writers : \E i \in Indices : p = Enc(i) /\ coder[u][i] = "writing"

\* An encoder at work stays at work in the steps of others, and of itself
\* unless it is the one that ends.
LEMMA WritersStay ==
  ASSUME TypeOK, NEW t \in Tasks, CodersOK(t), Process(t) \/ Coders(t),
         NEW u \in Tasks, NEW i \in Indices, coder[u][i] = "writing",
         u # t \/ ~CoderEnds(t, i)
  PROVE  coder'[u][i] = "writing"
<1> USE DEF work, dir, ghost
<1>1. CASE u # t
  BY <1>1, OthersKept DEF Kept
<1>2. CASE u = t /\ Process(t)
  <2>1. ~SpawnCoders(t)
    BY <1>2, GotoMoves DEF SpawnCoders, CodersOK
  <2>2. coder' = coder
    <3>1. CASE ProcessFails(t)
      BY <3>1, FailedStep
    <3>2. CASE ~ProcessFails(t)
      BY <1>2, <2>1, <3>2 DEF Process, Begin, Download, Probe, Split, SplitRefused, Analyze,
        EncodeReturns, EncodeFails, Stitch, Fragment, Package, Upload, Cleanup
    <3>3. QED
      BY <3>1, <3>2
  <2>3. QED
    BY <1>2, <2>2
<1>3. CASE u = t /\ Coders(t)
  <2>1. PICK k \in Indices : CoderBegins(t, k) \/ CoderFindsNothing(t, k) \/ CoderEnds(t, k)
    BY <1>3 DEF Coders
  <2>2. k # i
    BY <1>3, <2>1 DEF CoderBegins, CoderFindsNothing
  <2>3. PICK new : coder' = [coder EXCEPT ![t][k] = new]
    BY <2>1 DEF CoderBegins, CoderFindsNothing, CoderEnds
  <2>4. QED
    BY <1>3, <2>2, <2>3 DEF TypeOK
<1>4. QED
  BY <1>1, <1>2, <1>3

\* A file that is not touched, or is removed or written at a stroke, is in
\* order.
LEMMA FileKept ==
  ASSUME TypeOK, FilesOK, NEW t \in Tasks, CodersOK(t), Process(t) \/ Coders(t),
         NEW p \in Paths, ~\E i \in Indices : CoderEnds(t, i) /\ p = Enc(i),
         \/ fs'[p] = fs[p]
         \/ fs'[p] = Absent
         \/ \E made : fs'[p] = File(made)
  PROVE  FileOK(p)'
<1>1. CASE fs'[p] = fs[p]
  <2>1. \A u \in fs[p].writers : u \in Tasks
    BY TypeFiles DEF Files
  <2>2. ASSUME NEW u \in fs[p].writers
        PROVE  \E i \in Indices : p = Enc(i) /\ coder'[u][i] = "writing"
    <3>1. PICK i \in Indices : p = Enc(i) /\ coder[u][i] = "writing"
      BY DEF FilesOK
    <3>2. coder'[u][i] = "writing"
      BY <2>1, <3>1, WritersStay
    <3>3. QED
      BY <3>1, <3>2
  <2>3. ~fs[p].exists => fs[p] = Absent
    BY DEF FilesOK
  <2>4. QED
    BY <1>1, <2>2, <2>3 DEF FileOK
<1>2. CASE fs'[p] = Absent
  BY <1>2, FileTypes DEF FileOK
<1>3. CASE \E made : fs'[p] = File(made)
  BY <1>3, FileTypes DEF FileOK
<1>4. QED
  BY <1>1, <1>2, <1>3

LEMMA FilesOKStep ==
  ASSUME TypeOK, FilesOK, NEW t \in Tasks, CodersOK(t), Process(t) \/ Coders(t)
  PROVE  FilesOK'
<1> USE DEF work, dir, ghost
<1> SUFFICES ASSUME NEW p \in Paths PROVE FileOK(p)'
  BY DEF FilesOK, FileOK
<1>1. ASSUME Process(t) PROVE \/ fs'[p] = fs[p]
                              \/ fs'[p] = Absent
                              \/ \E made : fs'[p] = File(made)
  <2>1. CASE \/ Begin(t) \/ Probe(t) \/ SplitRefused(t) \/ Analyze(t) \/ SpawnCoders(t)
             \/ EncodeReturns(t) \/ EncodeFails(t) \/ Upload(t)
    BY <2>1 DEF Begin, Probe, SplitRefused, Analyze, SpawnCoders, EncodeReturns,
                EncodeFails, Upload
  <2>2. CASE Download(t) \/ Stitch(t) \/ Fragment(t)
    <3>1. \E x, made : fs' = [fs EXCEPT ![x] = File(made)]
      BY <2>2 DEF Download, Stitch, Fragment
    <3>2. QED
      BY <3>1, TypeFiles
  <2>3. CASE Split(t)
    <3>1. \E S, made : fs' = [q \in Paths |-> IF q \in S THEN File(made) ELSE fs[q]]
      BY <2>3 DEF Split
    <3>2. QED
      BY <3>1
  <2>4. CASE Package(t)
    <3>1. PICK made : Unpackaged(t, [fs EXCEPT ![Output] = File(made)])
      BY <2>4 DEF Package
    <3>2. [fs EXCEPT ![Output] = File(made)][p] \in {fs[p], File(made)}
      BY TypeFiles
    <3>3. fs'[p] \in {Absent, fs[p], File(made)}
      BY <3>1, <3>2 DEF Unpackaged
    <3>4. QED
      BY <3>3
  <2>5. CASE ProcessFails(t)
    BY <2>5, FailedStep DEF Unpackaged
  <2>6. CASE Cleanup(t)
    BY <2>6 DEF Cleanup
  <2>7. QED
    BY <1>1, <2>1, <2>2, <2>3, <2>4, <2>5, <2>6 DEF Process
<1>2. CASE Process(t) /\ ~Coders(t)
  <2>1. ~\E i \in Indices : CoderEnds(t, i) /\ p = Enc(i)
    BY <1>2 DEF Coders
  <2>2. QED
    BY <1>1, <1>2, <2>1, FileKept
<1>3. CASE Coders(t)
  <2>1. PICK i \in Indices : CoderBegins(t, i) \/ CoderFindsNothing(t, i) \/ CoderEnds(t, i)
    BY <1>3 DEF Coders
  <2>2. Enc(i) \in Paths /\ fs[Enc(i)] \in Files
    BY PathTypes, TypeFiles
  <2>3. ASSUME NEW w \in SUBSET Tasks, NEW made,
               fs' = [fs EXCEPT ![Enc(i)] = [exists |-> TRUE, made |-> made, writers |-> w]],
               \A u \in w : coder'[u][i] = "writing",
               \A k \in Indices \ {i} : coder'[t][k] = coder[t][k]
        PROVE  FileOK(p)'
    <3>1. CASE p = Enc(i)
      <4>1. fs'[p] = [exists |-> TRUE, made |-> made, writers |-> w]
        BY <2>2, <2>3, <3>1, TypeFiles
      <4>2. fs'[p].exists /\ fs'[p].writers = w
        BY <4>1
      <4>3. QED
        BY <2>3, <3>1, <4>2 DEF FileOK
    <3>2. CASE p # Enc(i)
      <4>1. fs'[p] = fs[p]
        BY <2>3, <3>2, TypeFiles
      <4>2. ASSUME NEW u \in fs[p].writers
            PROVE  \E k \in Indices : p = Enc(k) /\ coder'[u][k] = "writing"
        <5>1. PICK k \in Indices : p = Enc(k) /\ coder[u][k] = "writing"
          BY DEF FilesOK
        <5>2. u \in Tasks /\ k # i
          BY <3>2, <5>1, TypeFiles DEF Files
        <5>3. coder'[u][k] = coder[u][k]
          BY <1>3, <2>3, <5>2, OthersKept DEF Kept
        <5>4. QED
          BY <5>1, <5>3
      <4>3. QED
        BY <4>1, <4>2 DEF FilesOK, FileOK
    <3>3. QED
      BY <3>1, <3>2
  <2>4. \A k \in Indices \ {i} : coder'[t][k] = coder[t][k]
    BY <2>1, CoderMoves
  <2>5. \A u \in fs[Enc(i)].writers : u \in Tasks /\ coder[u][i] = "writing"
    <3>1. ASSUME NEW u \in fs[Enc(i)].writers PROVE u \in Tasks /\ coder[u][i] = "writing"
      <4>1. PICK k \in Indices : Enc(i) = Enc(k) /\ coder[u][k] = "writing"
        BY <2>2 DEF FilesOK
      <4>2. k = i
        BY <4>1, PathsDiffer
      <4>3. QED
        BY <2>2, <4>1, <4>2 DEF Files
    <3>2. QED
      BY <3>1
  <2>6. \A u \in fs[Enc(i)].writers \ {t} : coder'[u][i] = "writing"
    BY <1>3, <2>5, OthersKept DEF Kept
  <2>7. CASE CoderBegins(t, i)
    <3>1. coder'[t][i] = "writing"
      BY <2>7 DEF CoderBegins, TypeOK
    <3>2. fs' = [fs EXCEPT ![Enc(i)] =
                  [exists |-> TRUE,
                   made |-> IF fs[Enc(i)].writers = {} THEN {} ELSE {Torn},
                   writers |-> fs[Enc(i)].writers \cup {t}]]
      BY <2>7 DEF CoderBegins
    <3>3. fs[Enc(i)].writers \cup {t} \in SUBSET Tasks
      BY <2>5
    <3>4. QED
      BY <2>3, <2>4, <2>6, <3>1, <3>2, <3>3
  <2>8. CASE CoderFindsNothing(t, i)
    <3>1. fs' = fs /\ ~CoderEnds(t, i)
      BY <2>8 DEF CoderFindsNothing, CoderEnds
    <3>2. coder[t][i] # "writing"
      BY <2>8 DEF CoderFindsNothing
    <3>3. ASSUME NEW u \in fs[p].writers
          PROVE  \E k \in Indices : p = Enc(k) /\ coder'[u][k] = "writing"
      <4>1. PICK k \in Indices : p = Enc(k) /\ coder[u][k] = "writing"
        BY DEF FilesOK
      <4>2. u \in Tasks
        BY TypeFiles DEF Files
      <4>3. coder'[u][k] = coder[u][k]
        BY <1>3, <2>4, <3>2, <4>1, <4>2, OthersKept DEF Kept
      <4>4. QED
        BY <4>1, <4>3
    <3>4. QED
      BY <3>1, <3>3 DEF FilesOK, FileOK
  <2>9. CASE CoderEnds(t, i)
    <3>1. CASE t \in fs[Enc(i)].writers
      <4>1. \E made : fs' = [fs EXCEPT ![Enc(i)] =
                              [exists |-> TRUE, made |-> made,
                               writers |-> fs[Enc(i)].writers \ {t}]]
        BY <2>9, <3>1 DEF CoderEnds
      <4>2. fs[Enc(i)].writers \ {t} \in SUBSET Tasks
        BY <2>5
      <4>3. QED
        BY <2>3, <2>4, <2>6, <4>1, <4>2
    <3>2. CASE t \notin fs[Enc(i)].writers
      <4>1. fs' = fs
        BY <2>9, <3>2 DEF CoderEnds
      <4>2. ASSUME NEW u \in fs[p].writers
            PROVE  \E k \in Indices : p = Enc(k) /\ coder'[u][k] = "writing"
        <5>1. PICK k \in Indices : p = Enc(k) /\ coder[u][k] = "writing"
          BY DEF FilesOK
        <5>2. u \in Tasks /\ (u # t \/ k # i)
          BY <3>2, <5>1, TypeFiles DEF Files
        <5>3. coder'[u][k] = coder[u][k]
          BY <1>3, <2>4, <5>1, <5>2, OthersKept DEF Kept
        <5>4. QED
          BY <5>1, <5>3
      <4>3. QED
        BY <4>1, <4>2 DEF FilesOK, FileOK
    <3>3. QED
      BY <3>1, <3>2
  <2>10. QED
    BY <2>1, <2>7, <2>8, <2>9
<1>4. QED
  BY <1>2, <1>3

-----------------------------------------------------------------------------
(* Who is alone in TempDir                                                 *)

\* Whoever takes a step, other than to begin, was active.
LEMMA ActiveStep ==
  ASSUME TypeOK, NEW t \in Tasks, Process(t) \/ Coders(t), ~Begin(t)
  PROVE  Active(t)
<1>1. CASE Process(t)
  BY <1>1, RunsOrBegins DEF Active
<1>2. CASE Coders(t)
  <2>1. PICK i \in Indices : CoderBegins(t, i) \/ CoderFindsNothing(t, i) \/ CoderEnds(t, i)
    BY <1>2 DEF Coders
  <2>2. coder[t][i] \in {"waiting", "writing"} /\ (t \in gone => coder[t][i] = "writing")
    BY <2>1, CoderMoves
  <2>3. QED
    BY <2>2 DEF Active, Straggling
<1>3. QED
  BY <1>1, <1>2

\* Whoever begins beside somebody else is noted, and so is the other.
LEMMA BeginNotes ==
  ASSUME TypeOK, NEW t \in Tasks, NEW u \in Tasks \ {t}, Begin(t), Active(u)
  PROVE  shared'[t] /\ shared'[u]
<1> DEFINE others == {v \in Tasks \ {t} : Active(v)}
           meet == IF others = {} THEN {} ELSE others \cup {t}
<1>1. shared' = [v \in Tasks |-> shared[v] \/ v \in meet]
  BY DEF Begin
<1>2. u \in meet /\ t \in meet
  OBVIOUS
<1>3. QED
  BY <1>1, <1>2

LEMMA SharedGrows ==
  ASSUME TypeOK, NEW t \in Tasks, Process(t) \/ Coders(t), NEW u \in Tasks, shared[u]
  PROVE  shared'[u]
<1>1. CASE u # t
  BY <1>1, OthersKept DEF Kept
<1>2. CASE Begin(t)
  BY <1>2 DEF Begin
<1>3. CASE Process(t) /\ ~Begin(t)
  <2>1. CASE ProcessFails(t)
    BY <2>1, FailedStep
  <2>2. CASE ~ProcessFails(t)
    BY <1>3, <2>2 DEF Process, Download, Probe, Split, SplitRefused, Analyze, SpawnCoders,
      EncodeReturns, EncodeFails, Stitch, Fragment, Package, Upload, Cleanup, ghost
  <2>3. QED
    BY <2>1, <2>2
<1>4. CASE Coders(t)
  <2>1. UNCHANGED shared
    BY <1>4, CoderMoves DEF Coders
  <2>2. QED
    BY <2>1
<1>5. QED
  BY <1>1, <1>2, <1>3, <1>4

LEMMA AloneStep ==
  ASSUME TypeOK, Alone, NEW t \in Tasks, Process(t) \/ Coders(t)
  PROVE  Alone'
<1> SUFFICES ASSUME NEW v \in Tasks, NEW u \in Tasks, Active(v)', ~shared'[v], u # v, Active(u)'
             PROVE  FALSE
  BY DEF Alone
<1>1. ~shared[v]
  BY SharedGrows
<1>2. \A w \in Tasks \ {t} : Active(w)' => Active(w)
  BY OthersKept DEF Kept, Active, Running, Straggling
<1>3. CASE Begin(t)
  <2>1. CASE v = t
    BY <1>2, <1>3, <2>1, BeginNotes
  <2>2. CASE u = t
    BY <1>2, <1>3, <2>2, BeginNotes
  <2>3. CASE v # t /\ u # t
    BY <1>1, <1>2, <2>3 DEF Alone
  <2>4. QED
    BY <2>1, <2>2, <2>3
<1>4. CASE ~Begin(t)
  <2>1. Active(t)
    BY <1>4, ActiveStep
  <2>2. Active(v) /\ Active(u)
    BY <1>2, <2>1
  <2>3. QED
    BY <1>1, <2>2 DEF Alone
<1>5. QED
  BY <1>3, <1>4

-----------------------------------------------------------------------------
(* What a step does to the files                                           *)

\* An encoder writes one file, and removes none.
LEMMA CoderKeepsFiles ==
  ASSUME TypeOK, NEW t \in Tasks, NEW i \in Indices,
         CoderBegins(t, i) \/ CoderFindsNothing(t, i) \/ CoderEnds(t, i)
  PROVE  /\ encDir' = encDir
         /\ \A p \in Paths \ {Enc(i)} : fs'[p] = fs[p]
         /\ fs[Enc(i)].exists => fs'[Enc(i)].exists
         /\ CoderBegins(t, i) => fs'[Enc(i)].exists
<1> USE DEF work, dir, ghost
<1>1. Enc(i) \in Paths
  BY PathTypes
<1>2. ASSUME NEW made, NEW w,
             fs' = [fs EXCEPT ![Enc(i)] = [exists |-> TRUE, made |-> made, writers |-> w]]
      PROVE  fs'[Enc(i)].exists /\ \A p \in Paths \ {Enc(i)} : fs'[p] = fs[p]
  <2>1. fs'[Enc(i)] = [exists |-> TRUE, made |-> made, writers |-> w]
    BY <1>1, <1>2, TypeFiles
  <2>2. QED
    BY <1>2, <2>1, TypeFiles
<1>3. CASE CoderBegins(t, i)
  <2>1. \E made, w : fs' = [fs EXCEPT ![Enc(i)] = [exists |-> TRUE, made |-> made, writers |-> w]]
    BY <1>3 DEF CoderBegins
  <2>2. encDir' = encDir
    BY <1>3 DEF CoderBegins
  <2>3. QED
    BY <1>2, <2>1, <2>2
<1>4. CASE CoderFindsNothing(t, i)
  <2>1. fs' = fs /\ encDir' = encDir /\ ~CoderBegins(t, i)
    BY <1>4 DEF CoderFindsNothing, CoderBegins
  <2>2. QED
    BY <2>1
<1>5. CASE CoderEnds(t, i)
  <2>1. encDir' = encDir /\ ~CoderBegins(t, i)
    BY <1>5 DEF CoderEnds, CoderBegins
  <2>2. \/ fs' = fs
        \/ \E made, w : fs' = [fs EXCEPT ![Enc(i)] = [exists |-> TRUE, made |-> made, writers |-> w]]
    BY <1>5 DEF CoderEnds
  <2>3. QED
    BY <1>2, <2>1, <2>2
<1>6. QED
  BY <1>3, <1>4, <1>5

\* Only a cleanup and the end of stitchAndPackage remove files; who may need
\* these is noted.
LEMMA FilesGrow ==
  ASSUME TypeOK, NEW t \in Tasks, Process(t) \/ Coders(t), ~Cleanup(t)
  PROVE  /\ encDir => encDir'
         /\ \/ \A p \in Paths : fs[p].exists => fs'[p].exists
            \/ /\ RobOthers(t, {"stitch", "fragment", "package"})
               /\ \A p \in Paths \ Packaging : fs[p].exists => fs'[p].exists
<1> USE FileTypes DEF work, dir, ghost
<1>1. CASE \/ Begin(t) \/ Probe(t) \/ SplitRefused(t) \/ Analyze(t) \/ SpawnCoders(t)
           \/ EncodeReturns(t) \/ EncodeFails(t) \/ Upload(t)
  <2>1. fs' = fs /\ (encDir => encDir')
    BY <1>1 DEF Begin, Probe, SplitRefused, Analyze, SpawnCoders, EncodeReturns,
                EncodeFails, Upload
  <2>2. QED
    BY <2>1
<1>2. CASE Download(t) \/ Stitch(t) \/ Fragment(t)
  <2>1. encDir' = encDir
    BY <1>2 DEF Download, Stitch, Fragment
  <2>2. PICK x, made : fs' = [fs EXCEPT ![x] = File(made)]
    BY <1>2 DEF Download, Stitch, Fragment
  <2>3. \A p \in Paths : fs'[p] = fs[p] \/ fs'[p] = File(made)
    BY <2>2, TypeFiles
  <2>4. QED
    BY <2>1, <2>3
<1>3. CASE Split(t)
  <2>1. encDir' = encDir
    BY <1>3 DEF Split
  <2>2. PICK n : fs' = [q \in Paths |-> IF q \in {Seg(i) : i \in 1..n}
                                        THEN File(Read({Input(t)})) ELSE fs[q]]
    BY <1>3 DEF Split
  <2>3. \A p \in Paths : fs'[p] = fs[p] \/ fs'[p] = File(Read({Input(t)}))
    BY <2>2
  <2>4. QED
    BY <2>1, <2>3
<1>4. CASE Package(t)
  <2>1. encDir' = encDir
    BY <1>4 DEF Package
  <2>2. PICK made : Unpackaged(t, [fs EXCEPT ![Output] = File(made)])
    BY <1>4 DEF Package
  <2>3. \A p \in Paths : [fs EXCEPT ![Output] = File(made)][p] \in {fs[p], File(made)}
    BY TypeFiles
  <2>4. \A p \in Paths \ Packaging : fs'[p] \in {fs[p], File(made)}
    BY <2>2, <2>3 DEF Unpackaged
  <2>5. RobOthers(t, {"stitch", "fragment", "package"})
    BY <2>2 DEF Unpackaged
  <2>6. QED
    BY <2>1, <2>4, <2>5
<1>5. CASE ProcessFails(t)
  <2>1. encDir' = encDir
    BY <1>5, FailedStep
  <2>2. CASE Unpackaged(t, fs)
    BY <2>1, <2>2 DEF Unpackaged
  <2>3. CASE fs' = fs
    BY <2>1, <2>3
  <2>4. QED
    BY <1>5, <2>2, <2>3, FailedStep
<1>6. CASE Coders(t)
  <2>1. PICK i \in Indices : CoderBegins(t, i) \/ CoderFindsNothing(t, i) \/ CoderEnds(t, i)
    BY <1>6 DEF Coders
  <2>2. /\ encDir' = encDir
        /\ \A p \in Paths \ {Enc(i)} : fs'[p] = fs[p]
        /\ fs[Enc(i)].exists => fs'[Enc(i)].exists
    BY <2>1, CoderKeepsFiles
  <2>3. QED
    BY <2>2
<1>7. QED
  BY <1>1, <1>2, <1>3, <1>4, <1>5, <1>6 DEF Process

\* Nobody takes a file from a running task, unless it is noted.
LEMMA OthersFound ==
  ASSUME TypeOK, NEW t \in Tasks, Process(t) \/ Coders(t),
         NEW u \in Tasks \ {t}, u \notin gone, ~robbed'[u], Found(u)
  PROVE  Found(u)'
<1>1. Kept(u)
  BY OthersKept
<1>2. segs[u] \subseteq Indices /\ pc[u] \in {pc[v] : v \in Tasks}
  BY DEF TypeOK
<1>3. CASE ~Running(u)
  <2>1. pc'[u] \in {"queued", "over"}
    BY <1>1, <1>3 DEF Kept, Running
  <2>2. QED
    BY <2>1 DEF Found
<1>4. CASE Running(u)
  <2>1. ~Cleanup(t)
    <3>1. SUFFICES ASSUME Cleanup(t) PROVE FALSE
      OBVIOUS
    <3>2. RobOthers(t, {pc[v] : v \in Tasks})
      BY <3>1 DEF Cleanup
    <3>3. QED
      BY <1>2, <1>4, <3>2, RobberyNoted
  <2>2. /\ encDir => encDir'
        /\ \A p \in Paths \ Packaging : fs[p].exists => fs'[p].exists
        /\ \/ \A p \in Packaging : fs[p].exists => fs'[p].exists
           \/ RobOthers(t, {"stitch", "fragment", "package"})
    BY <2>1, FilesGrow DEF Paths
  <2>3. RobOthers(t, {"stitch", "fragment", "package"}) =>
          pc[u] \notin {"stitch", "fragment", "package"}
    BY <1>4, RobberyNoted
  <2>4. /\ fs[Input(u)].exists => fs'[Input(u)].exists
        /\ \A i \in Indices : /\ fs[Seg(i)].exists => fs'[Seg(i)].exists
                              /\ fs[Enc(i)].exists => fs'[Enc(i)].exists
        /\ fs[Output].exists => fs'[Output].exists
    BY <2>2, PathTypes, PathsDiffer
  <2>5. pc[u] = "fragment" => (fs[Stitched].exists => fs'[Stitched].exists)
    BY <2>2, <2>3 DEF Packaging
  <2>6. pc[u] = "package" => (fs[Fragmented].exists => fs'[Fragmented].exists)
    BY <2>2, <2>3 DEF Packaging
  <2>7. QED
    BY <1>1, <1>2, <2>2, <2>4, <2>5, <2>6 DEF Found, Kept
<1>5. QED
  BY <1>3, <1>4

-----------------------------------------------------------------------------
(* What a task finds that nobody robbed                                    *)

\* Each step of the task leaves what its next one needs.
LEMMA FoundOwn ==
  ASSUME TypeOK, NEW t \in Tasks, CodersOK(t), Found(t), Process(t)
  PROVE  Found(t)'
<1> USE DEF work, dir, ghost
<1>0. segs[t] \subseteq Indices
  BY DEF TypeOK
<1>1. CASE Begin(t) \/ Upload(t) \/ Cleanup(t)
  <2>1. pc'[t] \in {"download", "cleanup", "over"}
    BY <1>1, GotoMoves DEF Begin, Upload, Cleanup
  <2>2. QED
    BY <2>1 DEF Found
<1>2. CASE SplitRefused(t) \/ EncodeFails(t)
  <2>1. pc'[t] = "cleanup"
    BY <1>2, FailsMoves DEF SplitRefused, EncodeFails
  <2>2. QED
    BY <2>1 DEF Found
<1>3. CASE ProcessFails(t)
  <2>1. pc'[t] = "cleanup"
    BY <1>3, FailedStep, FailsMoves
  <2>2. QED
    BY <2>1 DEF Found
<1>4. CASE Download(t)
  <2>1. pc'[t] = "probe"
    BY <1>4, GotoMoves DEF Download
  <2>2. fs'[Input(t)] = File({t})
    BY <1>4, TypeFiles, PathTypes DEF Download
  <2>3. QED
    BY <2>1, <2>2, FileTypes DEF Found
<1>5. CASE Probe(t)
  <2>1. pc[t] = "probe" /\ pc'[t] = "split"
    BY <1>5, GotoMoves DEF Probe
  <2>2. fs' = fs
    BY <1>5 DEF Probe
  <2>3. QED
    BY <2>1, <2>2 DEF Found
<1>6. CASE Split(t)
  <2>1. pc'[t] = "analyze"
    BY <1>6, GotoMoves DEF Split
  <2>2. PICK n \in 1..Ceil(length[t], SegmentTime(length[t])) :
          /\ fs' = [p \in Paths |-> IF p \in {Seg(i) : i \in 1..n}
                                    THEN File(Read({Input(t)})) ELSE fs[p]]
          /\ segs' = [segs EXCEPT ![t] = 1..n \cup {i \in Indices : fs[Seg(i)].exists}]
    BY <1>6 DEF Split
  <2>3. segs'[t] = 1..n \cup {i \in Indices : fs[Seg(i)].exists} /\ 1 \in 1..n
    BY <2>2 DEF TypeOK
  <2>4. segs'[t] \subseteq Indices
    BY <1>6, TypeStep DEF TypeOK, Next, Process
  <2>5. \A i \in segs'[t] : Seg(i) \in Paths /\ fs'[Seg(i)].exists
    <3>1. ASSUME NEW i \in segs'[t] PROVE Seg(i) \in Paths /\ fs'[Seg(i)].exists
      <4>1. Seg(i) \in Paths
        BY <2>4, PathTypes
      <4>2. CASE i \in 1..n
        BY <2>2, <4>1, <4>2, FileTypes
      <4>3. CASE fs[Seg(i)].exists
        BY <2>2, <4>1, <4>3, FileTypes
      <4>4. QED
        BY <2>3, <4>1, <4>2, <4>3
    <3>2. QED
      BY <3>1
  <2>6. QED
    BY <2>1, <2>3, <2>5 DEF Found
<1>7. CASE Analyze(t)
  <2>1. pc[t] = "analyze" /\ pc'[t] = "spawn"
    BY <1>7, GotoMoves DEF Analyze
  <2>2. UNCHANGED <<fs, segs>>
    BY <1>7 DEF Analyze
  <2>3. QED
    BY <2>1, <2>2 DEF Found
<1>8. CASE SpawnCoders(t)
  <2>1. pc[t] = "spawn" /\ pc'[t] = "encode"
    BY <1>8, GotoMoves DEF SpawnCoders
  <2>2. UNCHANGED <<fs, segs>> /\ encDir'
    BY <1>8 DEF SpawnCoders
  <2>3. \A i \in segs[t] : coder'[t][i] = "waiting"
    BY <1>0, <1>8 DEF SpawnCoders, TypeOK
  <2>4. QED
    BY <2>1, <2>2, <2>3 DEF Found
<1>9. CASE EncodeReturns(t)
  <2>1. pc[t] = "encode" /\ pc'[t] = "stitch"
    BY <1>9, GotoMoves DEF EncodeReturns
  <2>2. UNCHANGED <<fs, segs>> /\ \A i \in segs[t] : coder[t][i] = "done"
    BY <1>9 DEF EncodeReturns
  <2>3. QED
    BY <2>1, <2>2 DEF Found
<1>10. CASE Stitch(t)
  <2>1. pc'[t] = "fragment"
    BY <1>10, GotoMoves DEF Stitch
  <2>2. \E made : fs'[Stitched] = File(made)
    BY <1>10, TypeFiles, PathTypes DEF Stitch
  <2>3. QED
    BY <2>1, <2>2, FileTypes DEF Found
<1>11. CASE Fragment(t)
  <2>1. pc'[t] = "package"
    BY <1>11, GotoMoves DEF Fragment
  <2>2. \E made : fs'[Fragmented] = File(made)
    BY <1>11, TypeFiles, PathTypes DEF Fragment
  <2>3. QED
    BY <2>1, <2>2, FileTypes DEF Found
<1>12. CASE Package(t)
  <2>1. pc'[t] = "upload"
    BY <1>12, GotoMoves DEF Package
  <2>2. \E made : fs'[Output] = File(made)
    BY <1>12, TypeFiles, PathTypes, PathsDiffer DEF Package, Unpackaged
  <2>3. QED
    BY <2>1, <2>2, FileTypes DEF Found
<1>13. QED
  BY <1>1, <1>2, <1>3, <1>4, <1>5, <1>6, <1>7, <1>8, <1>9, <1>10, <1>11, <1>12 DEF Process

\* An encoder of it finds its segment, and fails by a fault only.
LEMMA FoundCoders ==
  ASSUME TypeOK, NEW t \in Tasks, CodersOK(t), Found(t), NEW i \in Indices,
         CoderBegins(t, i) \/ CoderFindsNothing(t, i) \/ CoderEnds(t, i)
  PROVE  Found(t)'
<1> USE DEF work, dir, ghost
<1>0. segs[t] \subseteq Indices
  BY DEF TypeOK
<1>1. /\ pc'[t] = pc[t] /\ segs'[t] = segs[t] /\ segs[t] \subseteq Indices
      /\ coder[t][i] \in {"waiting", "writing"}
      /\ \A k \in Indices \ {i} : coder'[t][k] = coder[t][k]
  BY <1>0, CoderMoves
<1>2. CASE pc[t] # "encode"
  <2>1. pc[t] \in {"cleanup", "over"}
    BY <1>1, <1>2 DEF CodersOK, TypeOK
  <2>2. QED
    BY <1>1, <2>1 DEF Found
<1>3. CASE pc[t] = "encode"
  <2>1. i \in segs[t]
    BY <1>1, <1>3 DEF CodersOK
  <2>2. /\ encDir /\ 1 \in segs[t]
        /\ \A k \in segs[t] : /\ fs[Seg(k)].exists
                              /\ coder[t][k] \in {"writing", "done"} => fs[Enc(k)].exists
                              /\ coder[t][k] = "failed" => faulted[t]
    BY <1>3 DEF Found
  <2>3. ~CoderFindsNothing(t, i)
    BY <2>1, <2>2 DEF CoderFindsNothing, Exist
  <2>4. /\ encDir' = encDir
        /\ \A p \in Paths \ {Enc(i)} : fs'[p] = fs[p]
        /\ fs[Enc(i)].exists => fs'[Enc(i)].exists
        /\ CoderBegins(t, i) => fs'[Enc(i)].exists
    BY CoderKeepsFiles
  <2>5. \A k \in segs[t] : fs'[Seg(k)].exists /\ (fs[Enc(k)].exists => fs'[Enc(k)].exists)
    BY <1>1, <2>2, <2>4, PathTypes, PathsDiffer
  <2>6. CASE CoderBegins(t, i)
    <3>1. coder'[t][i] = "writing" /\ faulted' = faulted
      BY <2>6 DEF CoderBegins, TypeOK
    <3>2. QED
      BY <1>1, <1>3, <2>2, <2>4, <2>5, <2>6, <3>1 DEF Found
  <2>7. CASE CoderEnds(t, i)
    <3>1. PICK ok \in BOOLEAN :
            /\ coder' = [coder EXCEPT ![t][i] = IF ok THEN "done" ELSE "failed"]
            /\ faulted' = [faulted EXCEPT ![t] = @ \/ ~ok]
      BY <2>7 DEF CoderEnds
    <3>2. coder'[t][i] = (IF ok THEN "done" ELSE "failed") /\ coder[t][i] = "writing"
      BY <2>7, <3>1 DEF CoderEnds, TypeOK
    <3>3. (faulted[t] => faulted'[t]) /\ (~ok => faulted'[t])
      BY <3>1 DEF TypeOK
    <3>4. QED
      BY <1>1, <1>3, <2>1, <2>2, <2>4, <2>5, <3>2, <3>3 DEF Found
  <2>8. QED
    BY <2>3, <2>6, <2>7
<1>4. QED
  BY <1>2, <1>3

\* A step that fails where nothing is missing is noted as a fault.
LEMMA FaultNoted ==
  ASSUME TypeOK, NEW t \in Tasks, Found(t), ProcessFails(t)
  PROVE  faulted'[t] \/ t \in NoOutputKey
<1> SUFFICES ASSUME t \notin NoOutputKey PROVE faulted'[t]
  OBVIOUS
<1>1. PICK from, needed :
        /\ StepFails(t, from, needed)
        /\ <<from, needed>> \in {<<"download", {}>>, <<"probe", {Input(t)}>>,
             <<"split", {Input(t)}>>, <<"analyze", {Seg(1)}>>, <<"spawn", {}>>,
             <<"upload", {Output}>>, <<"stitch", {Enc(i) : i \in segs[t]}>>,
             <<"fragment", {Stitched}>>, <<"package", {Fragmented}>>}
  BY DEF ProcessFails
<1>2. pc[t] = from
  BY <1>1, FailsMoves DEF StepFails
<1>3. \A p \in needed : fs[p].exists
  BY <1>1, <1>2 DEF Found
<1>4. Exist(needed)
  BY <1>3 DEF Exist
<1>5. faulted' = [faulted EXCEPT ![t] = TRUE]
  BY <1>1, <1>4 DEF StepFails
<1>6. QED
  BY <1>5 DEF TypeOK

-----------------------------------------------------------------------------
(* What a task makes of its video when it is alone                         *)

\* A step of one task disturbs nobody who is alone: there is nobody alone
\* beside it.
LEMMA OthersPrepared ==
  ASSUME TypeOK, Alone, NEW t \in Tasks, Process(t) \/ Coders(t),
         NEW u \in Tasks \ {t}, u \notin gone, ~shared'[u]
  PROVE  Prepared(u)'
<1>1. ~shared[u]
  BY SharedGrows
<1>2. ~Running(u)
  <2>1. SUFFICES ASSUME Running(u) PROVE FALSE
    OBVIOUS
  <2>2. Active(u)
    BY <2>1 DEF Active
  <2>3. ~Begin(t)
    BY <2>2, BeginNotes
  <2>4. Active(t)
    BY <2>3, ActiveStep
  <2>5. QED
    BY <1>1, <2>2, <2>4 DEF Alone
<1>3. pc'[u] \in {"queued", "over"}
  BY <1>2, OthersKept DEF Kept, Running
<1>4. QED
  BY <1>3 DEF Prepared

\* What is read of a file of one's own is one's own.
LEMMA ReadOwn ==
  ASSUME NEW t \in Tasks, NEW ps, ps # {}, \A p \in ps : fs[p] = File({t})
  PROVE  Read(ps) = {t}
<1>1. \A p \in ps : fs[p].made = {t} /\ fs[p].writers = {}
  BY FileTypes
<1>2. QED
  BY <1>1 DEF Read

\* The task's own steps, up to the encoders: no segment and no output of
\* others is there when it begins, and what else is there is replaced.
LEMMA PrepareOwn ==
  ASSUME TypeOK, FilesOK, NEW t \in Tasks, ~stale'[t], Prepared(t),
         \/ Begin(t) \/ Download(t) \/ Probe(t) \/ Split(t) \/ SplitRefused(t)
         \/ Analyze(t) \/ SpawnCoders(t)
  PROVE  Prepared(t)'
<1> USE DEF work, dir, ghost
<1>0. Output \in Paths /\ \A i \in Indices : Seg(i) \in Paths
  BY PathTypes
<1>1. CASE Begin(t)
  <2>1. pc'[t] = "download"
    BY <1>1, GotoMoves DEF Begin
  <2>2. stale'[t] = (fs[Output].exists \/ \E i \in Indices : fs[Seg(i)].exists) /\ fs' = fs
    BY <1>1 DEF Begin, TypeOK
  <2>3. fs[Output] = Absent /\ \A i \in Indices : fs[Seg(i)] = Absent
    BY <1>0, <2>2 DEF FilesOK
  <2>4. QED
    BY <2>1, <2>2, <2>3 DEF Prepared
<1>2. CASE Download(t)
  <2>1. pc[t] = "download" /\ pc'[t] = "probe"
    BY <1>2, GotoMoves DEF Download
  <2>2. fs' = [fs EXCEPT ![Input(t)] = File({t})]
    BY <1>2 DEF Download
  <2>3. fs'[Input(t)] = File({t}) /\ \A p \in Paths \ {Input(t)} : fs'[p] = fs[p]
    BY <2>2, TypeFiles, PathTypes
  <2>4. fs'[Output] = fs[Output] /\ \A i \in Indices : fs'[Seg(i)] = fs[Seg(i)]
    BY <1>0, <2>3, PathsDiffer
  <2>5. QED
    BY <2>1, <2>3, <2>4 DEF Prepared
<1>3. CASE Probe(t)
  <2>1. pc[t] = "probe" /\ pc'[t] = "split"
    BY <1>3, GotoMoves DEF Probe
  <2>2. fs' = fs
    BY <1>3 DEF Probe
  <2>3. QED
    BY <2>1, <2>2 DEF Prepared
<1>4. CASE Split(t)
  <2>1. pc[t] = "split" /\ pc'[t] = "analyze"
    BY <1>4, GotoMoves DEF Split
  <2>2. PICK n \in 1..Ceil(length[t], SegmentTime(length[t])) :
          /\ fs' = [p \in Paths |-> IF p \in {Seg(i) : i \in 1..n}
                                    THEN File(Read({Input(t)})) ELSE fs[p]]
          /\ segs' = [segs EXCEPT ![t] = 1..n \cup {i \in Indices : fs[Seg(i)].exists}]
    BY <1>4 DEF Split
  <2>3. /\ fs[Input(t)] = File({t}) /\ fs[Output] = Absent
        /\ \A i \in Indices : fs[Seg(i)] = Absent
    BY <2>1 DEF Prepared
  <2>4. segs'[t] = 1..n
    BY <2>2, <2>3, FileTypes DEF TypeOK
  <2>5. 1..n \subseteq Indices
    BY <2>4, TypeStep, <1>4 DEF TypeOK, Next, Process
  <2>6. Read({Input(t)}) = {t}
    BY <2>3, ReadOwn
  <2>7. \A i \in 1..n : fs'[Seg(i)] = File({t})
    BY <1>0, <2>2, <2>5, <2>6
  <2>8. Output \notin {Seg(k) : k \in 1..n}
    BY <2>5, PathsDiffer
  <2>9. fs'[Output] = Absent
    BY <1>0, <2>2, <2>3, <2>8
  <2>10. QED
    BY <2>1, <2>4, <2>7, <2>9 DEF Prepared
<1>5. CASE SplitRefused(t)
  <2>1. pc'[t] = "cleanup"
    BY <1>5, FailsMoves DEF SplitRefused
  <2>2. QED
    BY <2>1 DEF Prepared
<1>6. CASE Analyze(t)
  <2>1. pc[t] = "analyze" /\ pc'[t] = "spawn"
    BY <1>6, GotoMoves DEF Analyze
  <2>2. UNCHANGED <<fs, segs>>
    BY <1>6 DEF Analyze
  <2>3. QED
    BY <2>1, <2>2 DEF Prepared
<1>7. CASE SpawnCoders(t)
  <2>1. pc[t] = "spawn" /\ pc'[t] = "encode"
    BY <1>7, GotoMoves DEF SpawnCoders
  <2>2. UNCHANGED <<fs, segs>>
    BY <1>7 DEF SpawnCoders
  <2>3. segs[t] \subseteq Indices
    BY DEF TypeOK
  <2>4. \A i \in segs[t] : coder'[t][i] = "waiting"
    BY <1>7, <2>3 DEF SpawnCoders, TypeOK
  <2>5. \A i \in segs'[t] : Progress(t, i)'
    BY <2>2, <2>4 DEF Progress
  <2>6. QED
    BY <2>1, <2>2, <2>5 DEF Prepared
<1>8. QED
  BY <1>1, <1>2, <1>3, <1>4, <1>5, <1>6, <1>7

\* From the encoded segments to the uploaded output.
LEMMA PackageOwn ==
  ASSUME TypeOK, NEW t \in Tasks, CodersOK(t), Prepared(t),
         \/ EncodeReturns(t) \/ EncodeFails(t) \/ Stitch(t) \/ Fragment(t) \/ Package(t)
         \/ Upload(t) \/ ProcessFails(t) \/ Cleanup(t)
  PROVE  Prepared(t)'
<1> USE DEF work, dir, ghost
<1>1. CASE EncodeReturns(t)
  <2>1. pc[t] = "encode" /\ pc'[t] = "stitch"
    BY <1>1, GotoMoves DEF EncodeReturns
  <2>2. UNCHANGED <<fs, segs>>
    BY <1>1 DEF EncodeReturns
  <2>3. \A i \in segs[t] : coder[t][i] = "done" /\ Progress(t, i)
    BY <1>1, <2>1 DEF EncodeReturns, Prepared
  <2>4. \A i \in segs[t] : fs[Enc(i)] = File({t})
    BY <2>3 DEF Progress
  <2>5. QED
    BY <2>1, <2>2, <2>4 DEF Prepared
<1>2. CASE EncodeFails(t)
  <2>1. pc'[t] = "cleanup"
    BY <1>2, FailsMoves DEF EncodeFails
  <2>2. QED
    BY <2>1 DEF Prepared
<1>3. CASE Stitch(t)
  <2> DEFINE parts == {Enc(i) : i \in segs[t]}
  <2>1. pc[t] = "stitch" /\ pc'[t] = "fragment"
    BY <1>3, GotoMoves DEF Stitch
  <2>2. parts # {} /\ \A p \in parts : fs[p] = File({t})
    BY <2>1 DEF CodersOK, Prepared
  <2> HIDE DEF parts
  <2>3. Read(parts) = {t}
    BY <2>2, ReadOwn
  <2>4. fs' = [fs EXCEPT ![Stitched] = File(Read(parts))]
    BY <1>3 DEF Stitch, parts
  <2>5. fs'[Stitched] = File({t}) /\ fs'[Output] = fs[Output]
    BY <2>3, <2>4, TypeFiles, PathTypes, PathsDiffer DEF Packaging
  <2>6. QED
    BY <2>1, <2>5 DEF Prepared
<1>4. CASE Fragment(t)
  <2>1. pc[t] = "fragment" /\ pc'[t] = "package"
    BY <1>4, GotoMoves DEF Fragment
  <2>2. Read({Stitched}) = {t}
    BY <2>1, ReadOwn DEF Prepared
  <2>3. fs' = [fs EXCEPT ![Fragmented] = File({t})]
    BY <1>4, <2>2 DEF Fragment
  <2>4. fs'[Fragmented] = File({t}) /\ fs'[Output] = fs[Output]
    BY <2>3, TypeFiles, PathTypes, PathsDiffer DEF Packaging
  <2>5. QED
    BY <2>1, <2>4 DEF Prepared
<1>5. CASE Package(t)
  <2>1. pc[t] = "package" /\ pc'[t] = "upload"
    BY <1>5, GotoMoves DEF Package
  <2>2. Read({Fragmented}) = {t} /\ fs[Output].made = {}
    BY <2>1, ReadOwn DEF Prepared, Absent
  <2>3. PICK kept \in {{}, fs[Output].made} :
          Unpackaged(t, [fs EXCEPT ![Output] = File(kept \cup Read({Fragmented}))])
    BY <1>5 DEF Package
  <2>4. kept \cup Read({Fragmented}) = {t}
    BY <2>2, <2>3
  <2>5. fs'[Output] = File({t})
    BY <2>3, <2>4, TypeFiles, PathTypes, PathsDiffer DEF Unpackaged
  <2>6. QED
    BY <2>1, <2>5 DEF Prepared
<1>6. CASE Upload(t) \/ Cleanup(t)
  <2>1. pc'[t] \in {"cleanup", "over"}
    BY <1>6, GotoMoves DEF Upload, Cleanup
  <2>2. QED
    BY <2>1 DEF Prepared
<1>7. CASE ProcessFails(t)
  <2>1. pc'[t] = "cleanup"
    BY <1>7, FailedStep, FailsMoves
  <2>2. QED
    BY <2>1 DEF Prepared
<1>8. QED
  BY <1>1, <1>2, <1>3, <1>4, <1>5, <1>6, <1>7

\* The task's encoders, while it waits for them and after: nobody else's
\* encoder has the file open.
LEMMA EncodeOwn ==
  ASSUME TypeOK, FilesOK, Alone, NEW t \in Tasks, t \notin gone, ~shared[t],
         CodersOK(t), Prepared(t), NEW i \in Indices,
         CoderBegins(t, i) \/ CoderFindsNothing(t, i) \/ CoderEnds(t, i)
  PROVE  Prepared(t)'
<1> USE DEF work, dir, ghost
<1>0. segs[t] \subseteq Indices
  BY DEF TypeOK
<1>1. /\ pc'[t] = pc[t] /\ segs'[t] = segs[t]
      /\ coder[t][i] \in {"waiting", "writing"}
      /\ \A k \in Indices \ {i} : coder'[t][k] = coder[t][k]
  BY CoderMoves
<1>2. CASE pc[t] # "encode"
  <2>1. pc[t] \in {"cleanup", "over"}
    BY <1>1, <1>2 DEF CodersOK, TypeOK
  <2>2. QED
    BY <1>1, <2>1 DEF Prepared
<1>3. CASE pc[t] = "encode"
  <2>1. i \in segs[t]
    BY <1>1, <1>3 DEF CodersOK
  <2>2. /\ fs[Output] = Absent
        /\ \A k \in segs[t] : fs[Seg(k)] = File({t}) /\ Progress(t, k)
    BY <1>3 DEF Prepared
  <2>3. Output \in Paths /\ \A k \in Indices : Seg(k) \in Paths /\ Enc(k) \in Paths
    BY PathTypes
  <2>4. \A p \in Paths \ {Enc(i)} : fs'[p] = fs[p]
    BY CoderKeepsFiles
  <2>5. fs'[Output] = Absent /\ \A k \in segs[t] : fs'[Seg(k)] = File({t})
    BY <1>0, <2>2, <2>3, <2>4, PathsDiffer
  <2>6. \A k \in segs[t] \ {i} : fs'[Enc(k)] = fs[Enc(k)]
    BY <1>0, <2>3, <2>4, PathsDiffer
  <2>7. ASSUME \A k \in Indices \ {i} : source'[t][k] = source[t][k], Progress(t, i)'
        PROVE  Prepared(t)'
    <3>1. \A k \in segs[t] \ {i} : Progress(t, k)'
      BY <1>0, <1>1, <2>2, <2>6, <2>7 DEF Progress
    <3>2. QED
      BY <1>1, <1>3, <2>5, <2>7, <3>1 DEF Prepared
  <2>8. CASE CoderBegins(t, i)
    <3>1. fs[Enc(i)].writers = {}
      <4>1. SUFFICES ASSUME NEW u \in fs[Enc(i)].writers PROVE FALSE
        OBVIOUS
      <4>2. PICK k \in Indices : Enc(i) = Enc(k) /\ coder[u][k] = "writing"
        BY <2>3 DEF FilesOK
      <4>3. u \in Tasks /\ coder[u][i] = "writing"
        BY <2>3, <4>2, PathsDiffer, TypeFiles DEF Files
      <4>4. Active(u) /\ Active(t)
        BY <1>3, <4>3 DEF Active, Running, Straggling
      <4>5. u = t
        BY <4>3, <4>4 DEF Alone
      <4>6. QED
        BY <2>8, <4>3, <4>5 DEF CoderBegins
    <3>2. fs' = [fs EXCEPT ![Enc(i)] = [exists |-> TRUE, made |-> {}, writers |-> {t}]]
      BY <2>8, <3>1 DEF CoderBegins
    <3>3. fs'[Enc(i)] = [exists |-> TRUE, made |-> {}, writers |-> {t}]
      BY <2>3, <3>2, TypeFiles
    <3>4. Read({Seg(i)}) = {t}
      BY <2>1, <2>2, ReadOwn
    <3>5. source'[t][i] = {t} /\ \A k \in Indices \ {i} : source'[t][k] = source[t][k]
      BY <2>8, <3>4 DEF CoderBegins, TypeOK
    <3>6. coder'[t][i] = "writing"
      BY <2>8 DEF CoderBegins, TypeOK
    <3>7. Progress(t, i)'
      BY <3>3, <3>5, <3>6 DEF Progress
    <3>8. QED
      BY <2>7, <3>5, <3>7
  <2>9. CASE CoderFindsNothing(t, i)
    <3>1. coder'[t][i] = "failed" /\ source' = source
      BY <2>9 DEF CoderFindsNothing, TypeOK
    <3>2. Progress(t, i)'
      BY <3>1 DEF Progress
    <3>3. QED
      BY <2>7, <3>1, <3>2
  <2>10. CASE CoderEnds(t, i)
    <3>1. /\ fs[Enc(i)] = [exists |-> TRUE, made |-> {}, writers |-> {t}]
          /\ source[t][i] = {t} /\ source' = source
      BY <2>1, <2>2, <2>10 DEF CoderEnds, Progress
    <3>2. PICK ok \in BOOLEAN :
       /\ coder' = [coder EXCEPT ![t][i] = IF ok THEN "done" ELSE "failed"]
       /\ fs' = IF t \in fs[Enc(i)].writers
                THEN [fs EXCEPT ![Enc(i)] =
                       [exists |-> TRUE,
                        made |-> @.made \cup (IF ok THEN source[t][i] \cup {t} ELSE {Torn}),
                        writers |-> @.writers \ {t}]]
                ELSE fs
      BY <2>10 DEF CoderEnds
    <3>3. coder'[t][i] = IF ok THEN "done" ELSE "failed"
      BY <3>2 DEF TypeOK
    <3>4. CASE ~ok
      <4>1. Progress(t, i)'
        BY <3>3, <3>4 DEF Progress
      <4>2. QED
        BY <2>7, <3>1, <4>1
    <3>5. CASE ok
      <4>1. fs' = [fs EXCEPT ![Enc(i)] =
                    [exists |-> TRUE, made |-> {} \cup ({t} \cup {t}), writers |-> {t} \ {t}]]
        BY <3>1, <3>2, <3>5
      <4>2. {} \cup ({t} \cup {t}) = {t} /\ {t} \ {t} = {}
        OBVIOUS
      <4>3. fs' = [fs EXCEPT ![Enc(i)] = File({t})]
        BY <4>1, <4>2 DEF File
      <4>4. fs'[Enc(i)] = File({t})
        BY <2>3, <4>3, TypeFiles
      <4>5. Progress(t, i)'
        BY <3>3, <3>5, <4>4 DEF Progress
      <4>6. QED
        BY <2>7, <3>1, <4>5
    <3>6. QED
      BY <3>4, <3>5
  <2>11. QED
    BY <2>8, <2>9, <2>10
<1>4. QED
  BY <1>2, <1>3

-----------------------------------------------------------------------------
(* What the verdicts say                                                   *)

LEMMA OthersJudged ==
  ASSUME TypeOK, NEW t \in Tasks, Process(t) \/ Coders(t), NEW u \in Tasks \ {t}, Judged(u)
  PROVE  Judged(u)'
BY OthersKept DEF Kept, Judged

LEMMA CodersJudged ==
  ASSUME TypeOK, NEW t \in Tasks, NEW i \in Indices, Judged(t),
         CoderBegins(t, i) \/ CoderFindsNothing(t, i) \/ CoderEnds(t, i)
  PROVE  Judged(t)'
<1> USE DEF work, dir, ghost
<1>1. faulted[t] => faulted'[t]
  <2>1. CASE CoderEnds(t, i)
    <3>1. PICK ok \in BOOLEAN : faulted' = [faulted EXCEPT ![t] = @ \/ ~ok]
      BY <2>1 DEF CoderEnds
    <3>2. QED
      BY <3>1 DEF TypeOK
  <2>2. CASE CoderBegins(t, i) \/ CoderFindsNothing(t, i)
    BY <2>2 DEF CoderBegins, CoderFindsNothing
  <2>3. QED
    BY <2>1, <2>2
<1>2. UNCHANGED <<pc, verdict, length, bucket, shared, stale, robbed>>
  BY DEF CoderBegins, CoderFindsNothing, CoderEnds
<1>3. QED
  BY <1>1, <1>2 DEF Judged

LEMMA ProcessJudged ==
  ASSUME TypeOK, NEW t \in Tasks, Process(t), Judged(t),
         ~robbed[t] => Found(t),
         ~shared[t] /\ ~stale[t] => Prepared(t)
  PROVE  Judged(t)'
<1> USE DEF work, dir, ghost
<1>0. /\ shared[t] => shared'[t]
      /\ robbed[t] => robbed'[t]
      /\ ~Begin(t) => stale'[t] = stale[t]
  BY SharedGrows, NotesKept
<1>1. CASE \/ Begin(t) \/ Download(t) \/ Probe(t) \/ Split(t) \/ Analyze(t) \/ SpawnCoders(t)
           \/ EncodeReturns(t) \/ Stitch(t) \/ Fragment(t) \/ Package(t)
  <2>1. pc[t] \notin {"cleanup", "over"}
    BY <1>1, GotoMoves DEF Begin, Download, Probe, Split, Analyze, SpawnCoders,
                           EncodeReturns, Stitch, Fragment, Package
  <2>2. verdict' = verdict
    BY <1>1 DEF Begin, Download, Probe, Split, Analyze, SpawnCoders, EncodeReturns,
                Stitch, Fragment, Package
  <2>3. QED
    BY <2>1, <2>2 DEF Judged
<1>2. CASE SplitRefused(t)
  <2>1. pc'[t] = "cleanup" /\ verdict'[t] = "failed"
    BY <1>2, FailsMoves DEF SplitRefused
  <2>2. length[t] \in Nat /\ SegmentCount(length[t]) = 0 /\ length' = length
    BY <1>2 DEF SplitRefused, TypeOK
  <2>3. length'[t] = 0
    BY <2>2, RefusedIsEmpty
  <2>4. QED
    BY <2>1, <2>3 DEF Judged
<1>3. CASE EncodeFails(t)
  <2>1. pc[t] = "encode" /\ pc'[t] = "cleanup" /\ verdict'[t] = "failed"
    BY <1>3, FailsMoves DEF EncodeFails
  <2>2. PICK i \in segs[t] : coder[t][i] = "failed"
    BY <1>3 DEF EncodeFails
  <2>3. faulted' = faulted
    BY <1>3 DEF EncodeFails
  <2>4. ~robbed[t] => faulted[t]
    BY <2>1, <2>2 DEF Found
  <2>5. QED
    BY <1>0, <2>1, <2>3, <2>4 DEF Judged
<1>4. CASE ProcessFails(t)
  <2>1. pc'[t] = "cleanup" /\ verdict'[t] = "failed"
    BY <1>4, FailedStep, FailsMoves
  <2>2. ~robbed[t] => faulted'[t] \/ t \in NoOutputKey
    BY <1>4, FaultNoted
  <2>3. QED
    BY <1>0, <2>1, <2>2 DEF Judged
<1>5. CASE Upload(t)
  <2>1. pc[t] = "upload" /\ pc'[t] = "cleanup"
    BY <1>5, GotoMoves DEF Upload
  <2>2. verdict'[t] = "ok" /\ bucket'[t] = Read({Output}) /\ UNCHANGED <<shared, stale>>
    BY <1>5 DEF Upload, TypeOK
  <2>3. ~shared[t] /\ ~stale[t] => Read({Output}) = {t}
    BY <2>1, ReadOwn DEF Prepared
  <2>4. QED
    BY <2>1, <2>2, <2>3 DEF Judged
<1>6. CASE Cleanup(t)
  <2>1. pc'[t] = "over"
    BY <1>6, GotoMoves DEF Cleanup
  <2>2. UNCHANGED <<verdict, length, bucket, shared, stale, faulted>>
    BY <1>6 DEF Cleanup
  <2>3. QED
    BY <1>0, <2>1, <2>2 DEF Judged
<1>7. QED
  BY <1>1, <1>2, <1>3, <1>4, <1>5, <1>6 DEF Process

-----------------------------------------------------------------------------
(* The invariant is inductive                                              *)

LEMMA StepInv ==
  ASSUME IInv, NEW t \in Tasks, Process(t) \/ Coders(t)
  PROVE  IInv'
<1>0. TypeOK /\ Clean /\ FilesOK /\ Alone /\ \A u \in Tasks : TaskOK(u)
  BY DEF IInv
<1>1. TypeOK'
  BY <1>0, TypeStep DEF Next
<1>2. Clean'
  BY <1>0, CleanStep
<1>3. FilesOK'
  BY <1>0, FilesOKStep DEF TaskOK
<1>4. Alone'
  BY <1>0, AloneStep
<1>5. ASSUME NEW u \in Tasks \ {t} PROVE TaskOK(u)'
  <2>1. Kept(u)
    BY <1>0, OthersKept
  <2>2. CodersOK(u)'
    BY <1>0, <2>1 DEF TaskOK, Kept, CodersOK
  <2>3. u \notin gone' /\ ~robbed'[u] => Found(u)'
    BY <1>0, <2>1, OthersFound DEF TaskOK, Kept
  <2>4. u \notin gone' /\ ~shared'[u] /\ ~stale'[u] => Prepared(u)'
    BY <1>0, <2>1, OthersPrepared DEF Kept
  <2>5. Judged(u)'
    BY <1>0, OthersJudged DEF TaskOK
  <2>6. QED
    BY <2>2, <2>3, <2>4, <2>5 DEF TaskOK
<1>6. CodersOK(t)'
  BY <1>0, CodersOKStep DEF TaskOK
<1>7. CASE Process(t)
  <2>1. t \notin gone
    <3>1. Begin(t) => t \notin gone
      BY <1>0, GotoMoves DEF Begin
    <3>2. ~Begin(t) => t \notin gone
      BY <1>0, <1>7, RunsOrBegins DEF Running
    <3>3. QED
      BY <3>1, <3>2
  <2>2. /\ robbed[t] => robbed'[t]
        /\ shared[t] => shared'[t]
        /\ ~Begin(t) => stale'[t] = stale[t]
    BY <1>0, <1>7, NotesKept, SharedGrows
  <2>3. ~robbed'[t] => Found(t)'
    BY <1>0, <1>7, <2>1, <2>2, FoundOwn DEF TaskOK
  <2>4. ~shared'[t] /\ ~stale'[t] => Prepared(t)'
    <3>1. SUFFICES ASSUME ~shared'[t], ~stale'[t] PROVE Prepared(t)'
      OBVIOUS
    <3>2. Begin(t) => pc[t] = "queued"
      BY <1>0, GotoMoves DEF Begin
    <3>3. Prepared(t)
      <4>1. CASE Begin(t)
        BY <3>2, <4>1 DEF Prepared
      <4>2. CASE ~Begin(t)
        BY <1>0, <2>1, <2>2, <3>1, <4>2 DEF TaskOK
      <4>3. QED
        BY <4>1, <4>2
    <3>4. QED
      BY <1>0, <1>7, <3>1, <3>3, PrepareOwn, PackageOwn DEF Process, TaskOK
  <2>5. Judged(t)'
    BY <1>0, <1>7, <2>1, ProcessJudged DEF TaskOK
  <2>6. TaskOK(t)'
    BY <1>6, <2>3, <2>4, <2>5 DEF TaskOK
  <2>7. QED
    BY <1>1, <1>2, <1>3, <1>4, <1>5, <2>6 DEF IInv
<1>8. CASE Coders(t)
  <2>1. PICK i \in Indices : CoderBegins(t, i) \/ CoderFindsNothing(t, i) \/ CoderEnds(t, i)
    BY <1>8 DEF Coders
  <2>2. UNCHANGED <<gone, shared, stale, robbed>>
    BY <1>0, <2>1, CoderMoves
  <2>3. t \notin gone /\ ~robbed[t] => Found(t)'
    BY <1>0, <2>1, FoundCoders DEF TaskOK
  <2>4. t \notin gone /\ ~shared[t] /\ ~stale[t] => Prepared(t)'
    BY <1>0, <2>1, EncodeOwn DEF TaskOK
  <2>5. Judged(t)'
    BY <1>0, <2>1, CodersJudged DEF TaskOK
  <2>6. TaskOK(t)'
    BY <1>6, <2>2, <2>3, <2>4, <2>5 DEF TaskOK
  <2>7. QED
    BY <1>1, <1>2, <1>3, <1>4, <1>5, <2>6 DEF IInv
<1>9. QED
  BY <1>7, <1>8

\* An exit moves no file and no task; who was in mid-task is out of it.
LEMMA ExitInv == IInv /\ Exit => IInv'
<1> SUFFICES ASSUME IInv, Exit PROVE IInv'
  OBVIOUS
<1>1. TypeOK'
  BY TypeStep DEF IInv, Next
<1>2. /\ UNCHANGED <<pc, verdict, length, segs, coder, source, fs, encDir, bucket,
                     shared, stale, robbed, faulted>>
      /\ littered' = TRUE /\ gone \subseteq gone'
  BY DEF Exit, work, dir
<1>3. Clean'
  BY <1>2 DEF Clean
<1>4. FilesOK'
  BY <1>2 DEF IInv, FilesOK
<1>5. Alone'
  <2>1. \A t \in Tasks : Active(t)' => Active(t)
    BY <1>2 DEF Active, Running, Straggling
  <2>2. QED
    BY <1>2, <2>1 DEF IInv, Alone
<1>6. ASSUME NEW t \in Tasks PROVE TaskOK(t)'
  <2>1. TaskOK(t)
    BY DEF IInv
  <2>2. CodersOK(t)' /\ Judged(t)'
    BY <1>2, <2>1 DEF TaskOK, CodersOK, Judged
  <2>3. Found(t) => Found(t)'
    BY <1>2 DEF Found
  <2>4. Prepared(t) => Prepared(t)'
    BY <1>2 DEF Prepared, Progress
  <2>5. QED
    BY <1>2, <2>1, <2>2, <2>3, <2>4 DEF TaskOK
<1>7. QED
  BY <1>1, <1>3, <1>4, <1>5, <1>6 DEF IInv

LEMMA NextInv == IInv /\ [Next]_vars => IInv'
<1> SUFFICES ASSUME IInv, [Next]_vars PROVE IInv'
  OBVIOUS
<1>1. CASE UNCHANGED vars
  <2> USE <1>1 DEF vars, work, dir, ghost
  <2>1. TypeOK'
    BY TypeStep DEF IInv
  <2>2. Clean' /\ FilesOK' /\ Alone'
    BY DEF IInv, Clean, FilesOK, Alone, Active, Running, Straggling
  <2>3. ASSUME NEW t \in Tasks PROVE TaskOK(t)'
    <3>1. TaskOK(t)
      BY DEF IInv
    <3>2. CodersOK(t)' /\ Judged(t)'
      BY <3>1 DEF TaskOK, CodersOK, Judged
    <3>3. Found(t) => Found(t)'
      BY DEF Found
    <3>4. Prepared(t) => Prepared(t)'
      BY DEF Prepared, Progress
    <3>5. QED
      BY <3>1, <3>2, <3>3, <3>4 DEF TaskOK
  <2>4. QED
    BY <2>1, <2>2, <2>3 DEF IInv
<1>2. QED
  BY <1>1, StepInv, ExitInv DEF Next, AllOver

\* The inductive invariant: what TempDir holds, who is there, and what each
\* task has made of its video.
THEOREM PipelineInvariant == Spec => []IInv
BY InitInv, NextInv, PTL DEF Spec

-----------------------------------------------------------------------------
(* The safety properties                                                   *)

\* A task that had TempDir to itself, and found no segments and no output of
\* others there, uploads its own video, complete and encoded with its own
\* settings: whatever else earlier processes left, and whether it is the
\* first of its process or not.
THEOREM OutputsOwn == Spec => []OwnOutput
<1>1. IInv => OwnOutput
  BY DEF IInv, TaskOK, Judged, OwnOutput
<1>2. QED
  BY <1>1, PipelineInvariant, PTL

\* A task nobody's removal took files from fails only by a fault of one of
\* its own steps or for its input, beside any number of others and whatever
\* was left in TempDir.
THEOREM FailuresFaults == Spec => []FailsOnlyByFault
<1>1. IInv => FailsOnlyByFault
  BY DEF IInv, TaskOK, Judged, FailsOnlyByFault
<1>2. QED
  BY <1>1, PipelineInvariant, PTL

\* Files stay behind in an idle TempDir only after an exit in mid-task or a
\* removal that failed, and until the next removal that is complete.
THEOREM IdleClean == Spec => []CleanWhenIdle
<1>1. IInv => CleanWhenIdle
  BY FileTypes DEF IInv, Clean, Active, CleanWhenIdle
<1>2. QED
  BY <1>1, PipelineInvariant, PTL

-----------------------------------------------------------------------------
(* Every task uses encodeSegments as EncodeCall allows                     *)

Call(t) == [Encode(t)!CallNext]_(Encode(t)!callVars)

\* Who keeps his step and his encoders keeps his side of the call.
LEMMA CallStutters ==
  ASSUME NEW t \in Tasks, pc'[t] = pc[t], coder'[t] = coder[t]
  PROVE  Call(t)
BY DEF Call, Encode!callVars, Outcome

\* One encoder moves: the call begins, ends or refuses one.
LEMMA CodersCall ==
  ASSUME TypeOK, NEW t \in Tasks, CodersOK(t), Coders(t)
  PROVE  Call(t)
<1>1. PICK i \in Indices : CoderBegins(t, i) \/ CoderFindsNothing(t, i) \/ CoderEnds(t, i)
  BY DEF Coders
<1>2. /\ pc'[t] = pc[t]
      /\ coder[t][i] \in {"waiting", "writing"}
      /\ coder'[t][i] \in {"writing", "done", "failed"}
      /\ coder'[t] = [coder[t] EXCEPT ![i] = coder'[t][i]]
      /\ \A k \in Indices \ {i} : coder'[t][k] = coder[t][k]
  BY <1>1, CoderMoves
<1>3. Outcome(t)' = Outcome(t)
  <2>1. CASE pc[t] = "encode"
    BY <1>2, <2>1 DEF Outcome
  <2>2. CASE pc[t] # "encode"
    <3>1. pc[t] \in {"cleanup", "over"}
      BY <1>2, <2>2 DEF CodersOK, TypeOK
    <3>2. PICK k \in Indices : coder[t][k] = "failed"
      BY <1>2, <3>1 DEF CodersOK
    <3>3. coder'[t][k] = "failed"
      BY <1>2, <3>2
    <3>4. Outcome(t) = "error"
      BY <3>1, <3>2 DEF Outcome
    <3>5. Outcome(t)' = "error"
      BY <1>2, <3>1, <3>3 DEF Outcome
    <3>6. QED
      BY <3>4, <3>5
  <2>3. QED
    BY <2>1, <2>2
<1>4. CASE CoderBegins(t, i)
  <2>1. coder[t][i] = "waiting" /\ coder'[t] = [coder[t] EXCEPT ![i] = "writing"]
        /\ Cardinality(Encoding(t)) < MaxParallel
    BY <1>4 DEF CoderBegins, TypeOK
  <2>2. Encode(t)!Begin(i)
    BY <1>3, <2>1 DEF Encode!Begin, Encode!Writing, Encode!Step, Encode!Cardinality,
                      Cardinality, Encoding
  <2>3. QED
    BY <2>2 DEF Call, Encode!CallNext
<1>5. CASE CoderFindsNothing(t, i)
  <2>1. coder[t][i] = "waiting" /\ coder'[t] = [coder[t] EXCEPT ![i] = "failed"]
    BY <1>5 DEF CoderFindsNothing, TypeOK
  <2>2. Encode(t)!FailAtOnce(i)
    BY <1>3, <2>1 DEF Encode!FailAtOnce, Encode!Step
  <2>3. QED
    BY <2>2 DEF Call, Encode!CallNext
<1>6. CASE CoderEnds(t, i)
  <2>1. PICK ok \in BOOLEAN : coder' = [coder EXCEPT ![t][i] = IF ok THEN "done" ELSE "failed"]
    BY <1>6 DEF CoderEnds
  <2>2. coder[t][i] = "writing" /\ coder'[t][i] \in {"done", "failed"}
    BY <1>6, <2>1 DEF CoderEnds, TypeOK
  <2>3. Encode(t)!End(i)
    BY <1>2, <1>3, <2>2 DEF Encode!End, Encode!Step
  <2>4. QED
    BY <2>3 DEF Call, Encode!CallNext
<1>7. QED
  BY <1>1, <1>4, <1>5, <1>6

\* The steps of a task that leave the encoders alone.
LEMMA QuietOutcome ==
  ASSUME TypeOK, NEW t \in Tasks, CodersOK(t), coder' = coder,
         pc[t] # "encode", pc'[t] # "encode",
         pc'[t] \in {"cleanup", "over"} => CodersOK(t)',
         pc[t] \in {"cleanup", "over"} => pc'[t] \in {"cleanup", "over"}
  PROVE  Call(t)
<1>1. pc[t] \notin {"cleanup", "over"} => \A i \in Indices : coder[t][i] \in {"none", "done"}
  BY DEF CodersOK, TypeOK
<1>2. Outcome(t)' = Outcome(t)
  <2>1. CASE \A i \in Indices : coder[t][i] = "none"
    BY <2>1 DEF Outcome
  <2>2. CASE \E i \in Indices : coder[t][i] # "none"
    <3>1. CASE pc[t] \in {"cleanup", "over"}
      BY <2>2, <3>1 DEF Outcome
    <3>2. CASE pc[t] \notin {"cleanup", "over"}
      BY <1>1, <2>2, <3>2 DEF Outcome
    <3>3. QED
      BY <3>1, <3>2
  <2>3. QED
    BY <2>1, <2>2
<1>3. QED
  BY <1>2 DEF Call, Encode!callVars

LEMMA ProcessCall ==
  ASSUME TypeOK, NEW t \in Tasks, CodersOK(t), Process(t)
  PROVE  Call(t)
<1> USE DEF work, dir, ghost
<1>1. CASE SpawnCoders(t)
  <2>1. pc[t] = "spawn" /\ pc'[t] = "encode"
    BY <1>1, GotoMoves DEF SpawnCoders
  <2>2. segs[t] # {} /\ segs[t] \in SUBSET Indices /\ \A i \in Indices : coder[t][i] = "none"
    BY <2>1 DEF CodersOK, TypeOK
  <2>3. coder'[t] = [i \in Indices |-> IF i \in segs[t] THEN "waiting" ELSE "none"]
    BY <1>1 DEF SpawnCoders, TypeOK
  <2>4. Outcome(t) = "idle" /\ Outcome(t)' = "running"
    BY <2>1, <2>2 DEF Outcome
  <2>5. Encode(t)!Call(segs[t])
    BY <2>2, <2>3, <2>4 DEF Encode!Call
  <2>6. QED
    BY <2>2, <2>5 DEF Call, Encode!CallNext
<1>2. CASE EncodeReturns(t)
  <2>1. pc[t] = "encode" /\ pc'[t] = "stitch" /\ coder' = coder
    BY <1>2, GotoMoves DEF EncodeReturns
  <2>2. segs[t] # {} /\ segs[t] \subseteq Indices
        /\ \A i \in Indices : coder[t][i] = "none" <=> i \notin segs[t]
    BY <2>1 DEF CodersOK, TypeOK
  <2>3. \A i \in segs[t] : coder[t][i] = "done"
    BY <1>2 DEF EncodeReturns
  <2>4. \A i \in Indices : coder[t][i] \in {"none", "done"}
    BY <2>2, <2>3
  <2>5. Outcome(t) = "running" /\ Outcome(t)' = "ok"
    BY <2>1, <2>2, <2>3 DEF Outcome
  <2>6. Encode(t)!ReturnOk
    BY <2>1, <2>4, <2>5 DEF Encode!ReturnOk, Encode!Return
  <2>7. QED
    BY <2>6 DEF Call, Encode!CallNext
<1>3. CASE EncodeFails(t)
  <2>1. pc[t] = "encode" /\ pc'[t] = "cleanup" /\ coder' = coder
    BY <1>3, FailsMoves DEF EncodeFails
  <2>2. \E i \in Indices : coder[t][i] = "failed"
    BY <1>3 DEF EncodeFails, TypeOK
  <2>3. Outcome(t) = "running" /\ Outcome(t)' = "error"
    BY <2>1, <2>2 DEF Outcome
  <2>4. Encode(t)!ReturnError
    BY <2>1, <2>2, <2>3 DEF Encode!ReturnError, Encode!Return
  <2>5. QED
    BY <2>4 DEF Call, Encode!CallNext
<1>4. CASE ~(SpawnCoders(t) \/ EncodeReturns(t) \/ EncodeFails(t))
  <2>1. coder' = coder
    <3>1. CASE ProcessFails(t)
      BY <3>1, FailedStep
    <3>2. CASE ~ProcessFails(t)
      BY <1>4, <3>2 DEF Process, Begin, Download, Probe, Split, SplitRefused, Analyze,
        Stitch, Fragment, Package, Upload, Cleanup
    <3>3. QED
      BY <3>1, <3>2
  <2>2. pc[t] # "encode" /\ pc'[t] # "encode"
        /\ (pc[t] \in {"cleanup", "over"} => pc'[t] \in {"cleanup", "over"})
    <3>1. CASE ProcessFails(t)
      BY <3>1, FailedStep, FailsMoves
    <3>2. CASE SplitRefused(t)
      BY <3>2, FailsMoves DEF SplitRefused
    <3>3. CASE ~ProcessFails(t) /\ ~SplitRefused(t)
      <4>1. <<pc[t], pc'[t]>> \in {<<"queued", "download">>, <<"download", "probe">>,
              <<"probe", "split">>, <<"split", "analyze">>, <<"analyze", "spawn">>,
              <<"stitch", "fragment">>, <<"fragment", "package">>, <<"package", "upload">>,
              <<"upload", "cleanup">>, <<"cleanup", "over">>}
        <5>1. PICK step \in {<<"queued", "download">>, <<"download", "probe">>,
              <<"probe", "split">>, <<"split", "analyze">>, <<"analyze", "spawn">>,
              <<"stitch", "fragment">>, <<"fragment", "package">>, <<"package", "upload">>,
              <<"upload", "cleanup">>, <<"cleanup", "over">>} : Goto(t, step[1], step[2])
          BY <1>4, <3>3 DEF Process, Begin, Download, Probe, Split, Analyze,
                            Stitch, Fragment, Package, Upload, Cleanup
        <5>2. QED
          BY <5>1, GotoMoves
      <4>2. QED
        BY <4>1
    <3>4. QED
      BY <3>1, <3>2, <3>3
  <2>3. CodersOK(t)'
    BY CodersOKStep
  <2>4. QED
    BY <2>1, <2>2, <2>3, QuietOutcome
<1>5. QED
  BY <1>1, <1>2, <1>3, <1>4

\* Every step of the pipeline is, for each of its tasks, one that EncodeCall
\* allows: the refinement whose other half is SegmentEncoder's.
THEOREM TasksCallEncoder == Spec => TasksUseCall
<1>1. Init => \A t \in Tasks : Encode(t)!CallInit
  BY DEF Init, Encode!CallInit, Outcome
<1>2. IInv /\ [Next]_vars => [\A t \in Tasks : Call(t)]_vars
  <2> SUFFICES ASSUME IInv, Next, NEW u \in Tasks PROVE UNCHANGED vars \/ Call(u)
    OBVIOUS
  <2>1. ASSUME NEW t \in Tasks, Process(t) \/ Coders(t) PROVE Call(u)
    <3>1. CASE u = t
      BY <2>1, <3>1, ProcessCall, CodersCall DEF IInv, TaskOK
    <3>2. CASE u # t
      BY <2>1, <3>2, OthersKept, CallStutters DEF IInv, Kept
    <3>3. QED
      BY <3>1, <3>2
  <2>2. CASE Exit
    BY <2>2, CallStutters DEF Exit, work
  <2>3. QED
    BY <2>1, <2>2 DEF Next, AllOver
<1>3. IInv /\ [Next]_vars =>
        [\A t \in Tasks : [Encode(t)!CallNext]_(Encode(t)!callVars)]_vars
  BY <1>2 DEF Call
<1>4. QED
  BY <1>1, <1>3, PipelineInvariant, PTL DEF Spec, TasksUseCall

=============================================================================
