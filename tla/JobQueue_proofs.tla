--------------------------- MODULE JobQueue_proofs ---------------------------
(***************************************************************************)
(* Proofs about JobQueue, for any jobs, callers and faults: what PeekJob   *)
(* and DequeueJob hand out, and what they leave in the list.               *)
(***************************************************************************)
EXTENDS JobQueue, Integers, SequenceTheorems, WellFoundedInduction, TLAPS

Statuses == {"queued", "in_progress", "malformed"}
Entries == [job : Jobs, status : Statuses]
Calls ==
  [at : {"idle", "counted", "trying", "marking", "unlocking", "updating", "working"},
   count : Nat, seen : Seq(Entries), idx : Nat, job : Jobs \cup {NoJob}]

\* What a caller has in hand: an entry it read as queued, or a job.
CallOK(x) ==
  /\ x \in Calls
  /\ x.at \in {"trying", "marking", "unlocking"} =>
       x.idx \in 1..Len(x.seen) /\ x.seen[x.idx] = Entry(x.job, "queued")
  /\ x.at \in {"updating", "working"} => x.job \in Jobs

Types ==
  /\ queue \in Seq(Entries) /\ pushed \in Seq(Jobs)
  /\ \A i, k \in 1..Len(pushed) : pushed[i] = pushed[k] => i = k
  /\ popped \in Nat /\ popped + Len(queue) = Len(pushed)
  /\ locked \subseteq Jobs /\ lapsed \subseteq Jobs
  /\ status \in [Jobs -> {"none", "queued", "in_progress", "completed", "failed"}]
  /\ given \in [Jobs -> 0..2] /\ raced \in BOOLEAN
  /\ call \in [Callers -> Calls] /\ \A c \in Callers : CallOK(call[c])

\* Without a race the list is what was pushed and not popped, in order, ...
InOrder == \A i \in 1..Len(queue) : queue[i].job = pushed[popped + i]

\* ... and a PeekJob that may still write by index has read the same jobs
\* at the same indices.
InStep ==
  \A c \in Callers : call[c].at \in {"trying", "marking"} =>
    /\ Len(call[c].seen) <= Len(queue)
    /\ \A i \in 1..Len(call[c].seen) : call[c].seen[i].job = queue[i].job

\* Who updates a hash has popped its job; who was given one, there was one.
Accounted ==
  /\ \A c \in Callers : call[c].at = "updating" => call[c].job \in Popped
  /\ \A j \in Jobs : given[j] # 0 => j \in ToSet(pushed)

\* The key lock:<j> has one holder, unless it expired under somebody.
Holds(c, j) == call[c].at \in {"marking", "unlocking"} /\ call[c].job = j
OneHolder(j) ==
  \A c \in Callers : Holds(c, j) => j \in locked /\ \A d \in Callers : Holds(d, j) => d = c

\* A caller may still try an entry of j that it read as queued.
Wants(c, j) ==
  /\ call[c].at = "trying"
  /\ \E i \in call[c].idx .. Len(call[c].seen) : call[c].seen[i] = Entry(j, "queued")

\* A job that was handed out by PeekJob: nobody is about to mark it, the lock
\* keeps out whoever read its entry before, the mark whoever reads it now.
GivenOnce(j) ==
  given[j] # 0 =>
    /\ given[j] = 1
    /\ \A c \in Callers : ~Holds(c, j) /\ (Wants(c, j) => j \in locked)
    /\ \A i \in 1..Len(queue) : queue[i].job = j => queue[i].status = "in_progress"

IInv ==
  /\ Types
  /\ ~raced => InOrder /\ InStep /\ Accounted
  /\ \A j \in Jobs \ lapsed : OneHolder(j)
  /\ ~raced => \A j \in Jobs \ (lapsed \cup Popped) : GivenOnce(j)

-----------------------------------------------------------------------------
(* Minima, entries and calls                                               *)

LEMMA MinOfNats ==
  ASSUME NEW S \in SUBSET Nat, S # {}
  PROVE  Min(S) \in S /\ \A x \in S : Min(S) <= x
<1> DEFINE R == {ss \in Nat \X Nat : ss[1] < ss[2]}
<1>1. R = OpToRel(<, Nat)
  BY Zenon DEF OpToRel
<1>2. IsWellFoundedOn(R, Nat)
  BY <1>1, NatLessThanWellFounded, Zenon
<1>3. PICK m \in S : \A y \in S : <<y, m>> \notin R
  BY <1>2, WFMin
<1>4. \A y \in S : m <= y
  <2>1. ASSUME NEW y \in S, y < m PROVE FALSE
    <3>1. <<y, m>> \in Nat \X Nat /\ <<y, m>>[1] < <<y, m>>[2]
      BY <2>1
    <3>2. QED
      BY <1>3, <3>1
  <2>2. QED
    BY <2>1
<1>5. QED
  BY <1>4 DEF Min

LEMMA EntryIs ==
  /\ \A j, st : Entry(j, st).job = j /\ Entry(j, st).status = st
  /\ \A j \in Jobs : \A st \in Statuses : Entry(j, st) \in Entries
  /\ \A e \in Entries : /\ e.job \in Jobs /\ e.status \in Statuses
                        /\ e = Entry(e.job, e.status)
BY DEF Entry, Entries, Statuses

LEMMA IdleOK == CallOK(Idle) /\ Idle.at = "idle"
BY EmptySeq DEF CallOK, Calls, Idle

LEMMA WorkingOK ==
  ASSUME NEW j \in Jobs
  PROVE  CallOK(Working(j)) /\ Working(j).at = "working" /\ Working(j).job = j
BY EmptySeq DEF CallOK, Calls, Idle, Working

\* The loop goes on at an entry read as queued, not before `from'.
LEMMA ScanFinds ==
  ASSUME NEW seen \in Seq(Entries), NEW from \in Nat \ {0}, NEW x, x = Scan(seen, from)
  PROVE  /\ CallOK(x)
         /\ \/ x = Idle
            \/ x.at = "trying" /\ x.seen = seen /\ x.idx \in from .. Len(seen)
<1> DEFINE open == {i \in from .. Len(seen) : seen[i].status \notin {"malformed", "in_progress"}}
           m == Min(open)
<1>0. Len(seen) \in Nat
  BY LenProperties
<1>1. CASE open = {}
  <2>1. x = Idle
    BY <1>1 DEF Scan
  <2>2. QED
    BY <2>1, IdleOK
<1>2. CASE open # {}
  <2>1. open \in SUBSET Nat
    BY <1>0
  <2>2. m \in open
    BY <1>2, <2>1, MinOfNats
  <2>3. x = [at |-> "trying", count |-> 0, seen |-> seen, idx |-> m, job |-> seen[m].job]
    BY <1>2 DEF Scan
  <2>4. m \in from .. Len(seen) /\ m \in 1 .. Len(seen) /\ seen[m].status \notin {"malformed", "in_progress"}
    BY <1>0, <2>2
  <2> HIDE DEF m, open
  <2>5. seen[m] \in Entries
    BY <2>4, ElementOfSeq
  <2>6. seen[m] = Entry(seen[m].job, "queued") /\ seen[m].job \in Jobs
    BY <2>4, <2>5, EntryIs DEF Statuses
  <2>7. CallOK(x)
    BY <2>3, <2>4, <2>6 DEF CallOK, Calls
  <2>8. QED
    BY <2>3, <2>4, <2>7
<1>3. QED
  BY <1>1, <1>2

-----------------------------------------------------------------------------
(* How a step changes the call of one caller                               *)

LEMMA CallMoves ==
  ASSUME Types, NEW c \in Callers, NEW x, call' = [call EXCEPT ![c] = x], CallOK(x)
  PROVE  /\ call'[c] = x /\ \A d \in Callers \ {c} : call'[d] = call[d]
         /\ call' \in [Callers -> Calls] /\ \A d \in Callers : CallOK(call'[d])
<1>1. call'[c] = x /\ \A d \in Callers \ {c} : call'[d] = call[d]
  BY DEF Types
<1>2. call' \in [Callers -> Calls]
  BY DEF Types, CallOK
<1>3. \A d \in Callers : CallOK(call'[d])
  BY <1>1 DEF Types
<1>4. QED
  BY <1>1, <1>2, <1>3

\* The jobs of the list stay where they are; what the caller has read is in step.
LEMMA InStepKept ==
  ASSUME Types, InStep, NEW c \in Callers, NEW x, call' = [call EXCEPT ![c] = x], CallOK(x),
         Len(queue') \in Nat, Len(queue) <= Len(queue'),
         \A i \in 1..Len(queue) : queue'[i].job = queue[i].job,
         x.at \in {"trying", "marking"} =>
           Len(x.seen) <= Len(queue) /\ \A i \in 1..Len(x.seen) : x.seen[i].job = queue[i].job
  PROVE  InStep'
<1> SUFFICES ASSUME NEW d \in Callers, call'[d].at \in {"trying", "marking"}
             PROVE  /\ Len(call'[d].seen) <= Len(queue')
                    /\ \A i \in 1..Len(call'[d].seen) : call'[d].seen[i].job = queue'[i].job
  BY DEF InStep
<1>1. Len(call'[d].seen) \in Nat /\ Len(queue) \in Nat
  <2>1. call'[d].seen \in Seq(Entries)
    BY CallMoves DEF Calls
  <2>2. QED
    BY <2>1, LenProperties DEF Types
<1>2. /\ Len(call'[d].seen) <= Len(queue)
      /\ \A i \in 1..Len(call'[d].seen) : call'[d].seen[i].job = queue[i].job
  BY CallMoves DEF InStep
<1>3. QED
  BY <1>1, <1>2

\* The caller takes no key, and the key of j stays.
LEMMA HolderKept ==
  ASSUME Types, NEW j, OneHolder(j), NEW c \in Callers, NEW x,
         call' = [call EXCEPT ![c] = x], CallOK(x),
         x.at \in {"marking", "unlocking"} =>
           call[c].at \in {"marking", "unlocking"} /\ x.job = call[c].job,
         j \in locked => j \in locked'
  PROVE  OneHolder(j)'
<1>1. \A d \in Callers : Holds(d, j)' => Holds(d, j)
  BY CallMoves DEF Holds
<1>2. QED
  BY <1>1 DEF OneHolder

\* The caller neither comes to hold j nor to want it unlocked; the list gets no
\* open entry of j.
LEMMA GivenKept ==
  ASSUME Types, NEW j, GivenOnce(j), NEW c \in Callers, NEW x,
         call' = [call EXCEPT ![c] = x], CallOK(x), given'[j] = given[j],
         given[j] # 0 =>
           /\ j \in locked => j \in locked'
           /\ Holds(c, j)' => Holds(c, j)
           /\ Wants(c, j)' => Wants(c, j) \/ j \in locked'
           /\ \A i \in 1..Len(queue') : queue'[i].job = j => queue'[i].status = "in_progress"
  PROVE  GivenOnce(j)'
<1> SUFFICES ASSUME given[j] # 0
             PROVE  /\ given'[j] = 1
                    /\ \A d \in Callers : ~Holds(d, j)' /\ (Wants(d, j)' => j \in locked')
                    /\ \A i \in 1..Len(queue') :
                         queue'[i].job = j => queue'[i].status = "in_progress"
  BY DEF GivenOnce
<1>1. \A d \in Callers \ {c} : (Holds(d, j)' <=> Holds(d, j)) /\ (Wants(d, j)' <=> Wants(d, j))
  BY CallMoves DEF Holds, Wants
<1>2. QED
  BY <1>1 DEF GivenOnce

-----------------------------------------------------------------------------
(* The list                                                                *)

LEMMA PrefixIs ==
  ASSUME NEW p \in Seq(Jobs), NEW n \in 0..Len(p)
  PROVE  /\ ToSet(SubSeq(p, 1, n)) = {p[i] : i \in 1..n}
         /\ ToSet(p) = {p[i] : i \in 1..Len(p)}
<1>1. Len(p) \in Nat /\ DOMAIN p = 1..Len(p) /\ \A i \in 1..Len(p) : p[i] \in Jobs
  BY LenProperties, ElementOfSeq
<1> DEFINE s == SubSeq(p, 1, n)
<1>2. s \in Seq(Jobs) /\ Len(s) = n /\ \A i \in 1..n : s[i] = p[i]
  <2>1. n \in Int /\ \A i \in 1..n : p[i] \in Jobs
    BY <1>1
  <2>2. QED
    BY <1>1, <2>1, SubSeqProperties
<1>3. DOMAIN s = 1..n
  BY <1>2, LenProperties
<1>4. ToSet(s) = {p[i] : i \in 1..n}
  BY <1>2, <1>3 DEF ToSet
<1>5. QED
  BY <1>1, <1>4 DEF ToSet

LEMMA PoppedIs ==
  ASSUME Types
  PROVE  /\ Popped = {pushed[i] : i \in 1..popped}
         /\ popped <= Len(pushed) /\ Len(pushed) \in Nat /\ Len(queue) \in Nat
         /\ ToSet(pushed) = {pushed[i] : i \in 1..Len(pushed)}
         /\ Popped \subseteq ToSet(pushed) /\ Popped \subseteq Jobs
<1>1. Len(pushed) \in Nat /\ Len(queue) \in Nat /\ popped \in 0..Len(pushed)
  BY LenProperties DEF Types
<1>2. \A i \in 1..Len(pushed) : pushed[i] \in Jobs
  BY ElementOfSeq DEF Types
<1>3. /\ Popped = {pushed[i] : i \in 1..popped}
      /\ ToSet(pushed) = {pushed[i] : i \in 1..Len(pushed)}
  BY <1>1, PrefixIs DEF Types, Popped
<1>4. QED
  BY <1>1, <1>2, <1>3 DEF Types

\* In a list kept in order no job has two entries, and every job was pushed.
LEMMA InOrderIs ==
  ASSUME Types, InOrder
  PROVE  /\ \A i, k \in 1..Len(queue) : queue[i].job = queue[k].job => i = k
         /\ \A i \in 1..Len(queue) : queue[i].job \in ToSet(pushed)
<1>1. \A i \in 1..Len(queue) : popped + i \in 1..Len(pushed) /\ queue[i].job = pushed[popped + i]
  BY PoppedIs DEF Types, InOrder
<1>2. QED
  BY <1>1, PoppedIs DEF Types

\* LSET of the entry a caller is about to mark.
LEMMA MarkIs ==
  ASSUME Types, NEW c \in Callers, call[c].at = "marking", call[c].idx <= Len(queue), Mark(c)
  PROVE  LET i == call[c].idx IN
         /\ queue' \in Seq(Entries) /\ Len(queue') = Len(queue) /\ i \in 1..Len(queue)
         /\ queue'[i] = Entry(call[c].job, "in_progress") /\ call[c].job \in Jobs
         /\ \A k \in 1..Len(queue) \ {i} : queue'[k] = queue[k]
         /\ InStep => queue[i].job = call[c].job
<1> DEFINE i == call[c].idx
           e == Entry(call[c].job, "in_progress")
<1>1. /\ CallOK(call[c]) /\ call[c].seen \in Seq(Entries) /\ i \in 1..Len(call[c].seen)
      /\ call[c].seen[i] = Entry(call[c].job, "queued")
  BY DEF Types, CallOK, Calls
<1>2. call[c].seen[i] \in Entries /\ Len(call[c].seen) \in Nat
  BY <1>1, ElementOfSeq, LenProperties
<1>3. call[c].job \in Jobs /\ e \in Entries /\ call[c].seen[i].job = call[c].job
  BY <1>1, <1>2, EntryIs DEF Statuses
<1>4. i \in 1..Len(queue)
  BY <1>1, <1>2, PoppedIs
<1>5. queue' = [queue EXCEPT ![i] = e]
  BY DEF Mark
<1>6. InStep => queue[i].job = call[c].job
  BY <1>1, <1>3 DEF InStep
<1> HIDE DEF i, e
<1>7. /\ queue' \in Seq(Entries) /\ Len(queue') = Len(queue)
      /\ \A k \in 1..Len(queue) : queue'[k] = IF k = i THEN e ELSE queue[k]
  BY <1>3, <1>4, <1>5, ExceptSeq DEF Types
<1>8. QED
  BY <1>3, <1>4, <1>6, <1>7 DEF i, e

-----------------------------------------------------------------------------
(* PeekJob reads                                                           *)

\* What all steps of one caller have in common that leave lists, hashes and
\* counts alone: the call becomes x, keys may come.
LEMMA ReadStep ==
  ASSUME IInv, NEW c \in Callers, NEW x, call' = [call EXCEPT ![c] = x], CallOK(x),
         UNCHANGED <<queue, pushed, popped, given, lapsed, raced>>,
         locked \subseteq locked', locked' \subseteq Jobs,
         status' \in [Jobs -> {"none", "queued", "in_progress", "completed", "failed"}],
         x.at \in {"idle", "counted", "trying", "working", "unlocking"},
         x.at = "unlocking" => call[c].at = "marking" /\ x.job = call[c].job,
         InStep /\ x.at = "trying" =>
           Len(x.seen) <= Len(queue) /\ \A i \in 1..Len(x.seen) : x.seen[i].job = queue[i].job,
         \A j \in Jobs : GivenOnce(j) /\ given[j] # 0 /\ Wants(c, j)' => Wants(c, j)
  PROVE  IInv'
<1> USE DEF IInv
<1>1. Types'
  BY CallMoves DEF Types
<1>2. Popped' = Popped /\ Len(queue) \in Nat
  BY PoppedIs DEF Popped
<1>3. ~raced' => InOrder' /\ InStep' /\ Accounted'
  <2> SUFFICES ASSUME ~raced PROVE InOrder' /\ InStep' /\ Accounted'
    OBVIOUS
  <2>1. InOrder'
    BY DEF InOrder
  <2>2. InStep'
    <3>1. InStep /\ Types
      OBVIOUS
    <3>2. /\ Len(queue') \in Nat /\ Len(queue) <= Len(queue')
          /\ \A i \in 1..Len(queue) : queue'[i].job = queue[i].job
      BY <1>2
    <3>3. x.at \in {"trying", "marking"} =>
            Len(x.seen) <= Len(queue) /\ \A i \in 1..Len(x.seen) : x.seen[i].job = queue[i].job
      BY <3>1
    <3> HIDE DEF IInv
    <3>4. QED
      BY <3>1, <3>2, <3>3, InStepKept
  <2>3. Accounted'
    BY <1>2, CallMoves DEF Accounted
  <2>4. QED
    BY <2>1, <2>2, <2>3
<1>4. \A j \in Jobs \ lapsed' : OneHolder(j)'
  BY HolderKept
<1>5. ASSUME ~raced', NEW j \in Jobs \ (lapsed' \cup Popped') PROVE GivenOnce(j)'
  <2>1. GivenOnce(j)
    BY <1>2, <1>5
  <2>2. Holds(c, j)' => Holds(c, j)
    BY CallMoves DEF Holds
  <2>3. \A i \in 1..Len(queue) : given[j] # 0 /\ queue[i].job = j => queue[i].status = "in_progress"
    BY <2>1 DEF GivenOnce
  <2>4. QED
    BY <2>1, <2>2, <2>3, GivenKept
<1>6. QED
  BY <1>1, <1>3, <1>4, <1>5

\* The loop goes on: with what was read, behind the entry it was at.
LEMMA ContinueIs ==
  ASSUME Types, NEW c \in Callers, call[c].at = "trying", Continue(c)
  PROVE  \E x : /\ call' = [call EXCEPT ![c] = x] /\ CallOK(x)
                /\ \/ x = Idle
                   \/ /\ x.at = "trying" /\ x.seen = call[c].seen
                      /\ x.idx \in call[c].idx + 1 .. Len(call[c].seen)
<1>1. call[c].seen \in Seq(Entries) /\ call[c].idx + 1 \in Nat \ {0}
  BY DEF Types, Calls
<1> DEFINE x == Scan(call[c].seen, call[c].idx + 1)
<1>2. call' = [call EXCEPT ![c] = x]
  BY DEF Continue, Goto
<1>3. /\ CallOK(x)
      /\ x = Idle \/ (x.at = "trying" /\ x.seen = call[c].seen
                        /\ x.idx \in call[c].idx + 1 .. Len(call[c].seen))
  BY <1>1, ScanFinds
<1> HIDE DEF x
<1>4. QED
  BY <1>2, <1>3

LEMMA ContinueStep ==
  ASSUME IInv, NEW c \in Callers, PeekRefused(c) \/ PeekLockError(c)
  PROVE  IInv'
<1>0. Types /\ call[c].at = "trying" /\ Continue(c)
  BY DEF IInv, PeekRefused, PeekLockError
<1>1. PICK x : /\ call' = [call EXCEPT ![c] = x] /\ CallOK(x)
               /\ \/ x = Idle
                  \/ /\ x.at = "trying" /\ x.seen = call[c].seen
                     /\ x.idx \in call[c].idx + 1 .. Len(call[c].seen)
  BY <1>0, ContinueIs
<1>2. call'[c] = x
  BY <1>0, <1>1, CallMoves
<1>3. /\ call[c].idx \in Nat /\ Len(call[c].seen) \in Nat
      /\ CallOK(call[c]) /\ call[c].job \in Jobs
  <2>1. call[c] \in Calls /\ CallOK(call[c])
    BY <1>0 DEF Types
  <2>2. call[c].seen \in Seq(Entries) /\ call[c].idx \in Nat
    BY <2>1 DEF Calls
  <2>3. call[c].seen[call[c].idx] \in Entries /\ Len(call[c].seen) \in Nat
    BY <1>0, <2>1, <2>2, ElementOfSeq, LenProperties DEF CallOK
  <2>4. call[c].job \in Jobs
    BY <1>0, <2>1, <2>3, EntryIs DEF CallOK
  <2>5. QED
    BY <2>1, <2>2, <2>3, <2>4
<1>4. \A j : Wants(c, j)' => Wants(c, j)
  BY <1>0, <1>1, <1>2, <1>3, IdleOK DEF Wants
<1>5. UNCHANGED <<queue, pushed, popped, given, lapsed, raced, status>>
  BY DEF PeekRefused, PeekLockError, redis, history
<1>6. locked \subseteq locked' /\ locked' \subseteq Jobs
  BY <1>0, <1>3 DEF PeekRefused, PeekLockError, redis, Types
<1>7. x.at \in {"idle", "trying"}
  BY <1>1, IdleOK
<1>8. InStep /\ x.at = "trying" =>
        Len(x.seen) <= Len(queue) /\ \A i \in 1..Len(x.seen) : x.seen[i].job = queue[i].job
  BY <1>0, <1>1, IdleOK DEF InStep
<1>9. status' \in [Jobs -> {"none", "queued", "in_progress", "completed", "failed"}]
  BY <1>0, <1>5 DEF Types
<1>10. QED
  BY <1>1, <1>4, <1>5, <1>6, <1>7, <1>8, <1>9, ReadStep

\* LLEN and LRANGE: what is read is what is there.
LEMMA PeekReadStep ==
  ASSUME IInv, NEW c \in Callers, PeekCount(c) \/ PeekRead(c) \/ PeekReadFails(c)
  PROVE  IInv'
<1>0. /\ Types /\ UNCHANGED <<queue, pushed, popped, given, lapsed, raced, locked, status>>
      /\ queue \in Seq(Entries) /\ Len(queue) \in Nat /\ locked \subseteq Jobs
      /\ status' \in [Jobs -> {"none", "queued", "in_progress", "completed", "failed"}]
  BY PoppedIs DEF IInv, PeekCount, PeekRead, PeekReadFails, redis, history, Types
<1>1. ASSUME NEW x, call' = [call EXCEPT ![c] = x], CallOK(x), x.at \in {"idle", "counted"}
      PROVE  IInv'
  <2>1. \A j : ~Wants(c, j)'
    BY <1>0, <1>1, CallMoves DEF Wants
  <2>2. QED
    BY <1>0, <1>1, <2>1, ReadStep
<1>2. CASE PeekCount(c)
  <2> DEFINE x == [Idle EXCEPT !.at = "counted", !.count = Len(queue)]
  <2>1. call' = [call EXCEPT ![c] = x]
    BY <1>2 DEF PeekCount, Goto
  <2>2. CallOK(x) /\ x.at = "counted"
    BY <1>0, EmptySeq DEF CallOK, Calls, Idle
  <2> HIDE DEF x
  <2>3. QED
    BY <1>1, <2>1, <2>2
<1>3. CASE PeekReadFails(c)
  BY <1>1, <1>3, IdleOK DEF PeekReadFails, Goto
<1>4. CASE PeekRead(c)
  <2> DEFINE n == Min({call[c].count, Len(queue)})
             seen == SubSeq(queue, 1, n)
             x == Scan(seen, 1)
  <2>1. n \in Nat /\ n <= Len(queue)
    <3>1. call[c].count \in Nat
      BY <1>0 DEF Types, Calls
    <3>2. {call[c].count, Len(queue)} \in SUBSET Nat
      BY <1>0, <3>1
    <3> HIDE DEF n
    <3>3. n \in {call[c].count, Len(queue)} /\ \A k \in {call[c].count, Len(queue)} : n <= k
      BY <3>2, MinOfNats DEF n
    <3>4. QED
      BY <3>2, <3>3
  <2> HIDE DEF n
  <2>2. seen \in Seq(Entries) /\ Len(seen) = n /\ \A i \in 1..n : seen[i] = queue[i]
    <3>1. \A i \in 1..n : queue[i] \in Entries
      BY <1>0, <2>1, ElementOfSeq
    <3>2. QED
      BY <2>1, <3>1, SubSeqProperties
  <2>3. call' = [call EXCEPT ![c] = x]
    BY <1>4 DEF PeekRead, Goto, n
  <2> HIDE DEF seen
  <2>4. CallOK(x) /\ (x = Idle \/ (x.at = "trying" /\ x.seen = seen /\ x.idx \in 1..Len(seen)))
    BY <2>2, ScanFinds
  <2> HIDE DEF x
  <2>5. x.at \in {"idle", "trying"}
    BY <2>4, IdleOK
  <2>6. x.at = "trying" =>
          Len(x.seen) <= Len(queue) /\ \A i \in 1..Len(x.seen) : x.seen[i].job = queue[i].job
    BY <2>1, <2>2, <2>4, IdleOK
  <2>7. \A j \in Jobs : GivenOnce(j) /\ given[j] # 0 => ~Wants(c, j)'
    <3> SUFFICES ASSUME NEW j \in Jobs, GivenOnce(j), given[j] # 0, Wants(c, j)'
                 PROVE  FALSE
      OBVIOUS
    <3>1. call'[c] = x
      BY <1>0, <2>3, <2>4, CallMoves
    <3>2. x.seen = seen /\ x.idx \in 1..n
      BY <2>2, <2>4, <3>1, IdleOK DEF Wants
    <3>3. PICK i \in 1..n : queue[i] = Entry(j, "queued")
      BY <2>1, <2>2, <3>1, <3>2 DEF Wants
    <3>4. queue[i].job = j /\ queue[i].status = "queued" /\ i \in 1..Len(queue)
      BY <1>0, <2>1, <3>3, EntryIs
    <3>5. QED
      BY <3>4 DEF GivenOnce
  <2>8. QED
    BY <1>0, <2>3, <2>4, <2>5, <2>6, <2>7, ReadStep
<1>5. QED
  BY <1>2, <1>3, <1>4

-----------------------------------------------------------------------------
(* PeekJob takes the key, marks the entry, gives the key back              *)

LEMMA InHand ==
  ASSUME Types, NEW c \in Callers, call[c].at \in {"trying", "marking", "unlocking"}
  PROVE  /\ CallOK(call[c]) /\ call[c].job \in Jobs
         /\ call[c].seen \in Seq(Entries) /\ Len(call[c].seen) \in Nat
         /\ call[c].idx \in 1..Len(call[c].seen)
         /\ call[c].seen[call[c].idx] = Entry(call[c].job, "queued")
<1>1. CallOK(call[c]) /\ call[c].seen \in Seq(Entries)
  BY DEF Types, Calls
<1>2. /\ call[c].idx \in 1..Len(call[c].seen)
      /\ call[c].seen[call[c].idx] = Entry(call[c].job, "queued")
  BY <1>1 DEF CallOK
<1>3. call[c].seen[call[c].idx] \in Entries /\ Len(call[c].seen) \in Nat
  BY <1>1, <1>2, ElementOfSeq, LenProperties
<1>4. call[c].job \in Jobs
  BY <1>2, <1>3, EntryIs
<1>5. QED
  BY <1>1, <1>2, <1>3, <1>4

LEMMA PeekLockStep ==
  ASSUME IInv, NEW c \in Callers, PeekLock(c)
  PROVE  IInv'
<1> DEFINE x == [call[c] EXCEPT !.at = "marking"]
           k == call[c].job
<1>1. Types /\ call[c].at = "trying" /\ k \notin locked
  BY DEF IInv, PeekLock
<1>2. /\ call' = [call EXCEPT ![c] = x] /\ locked' = locked \cup {k}
      /\ UNCHANGED <<queue, status, pushed, popped, given, lapsed, raced>>
  BY DEF PeekLock, Goto, history
<1>3. /\ call[c] \in Calls /\ k \in Jobs /\ call[c].idx \in 1..Len(call[c].seen)
      /\ Len(call[c].seen) \in Nat
      /\ call[c].seen[call[c].idx] = Entry(k, "queued")
  BY <1>1, InHand DEF CallOK
<1>4. /\ CallOK(x) /\ x.at = "marking" /\ x.seen = call[c].seen /\ x.job = k
  BY <1>3 DEF CallOK, Calls
<1>5. call'[c] = x /\ \A d \in Callers \ {c} : call'[d] = call[d]
  BY <1>1, <1>2, <1>4, CallMoves
<1>6. Wants(c, k)
  BY <1>1, <1>3 DEF Wants
<1> HIDE DEF x
<1>7. Types'
  BY <1>1, <1>2, <1>3, <1>4, CallMoves DEF Types
<1>8. Popped' = Popped /\ Len(queue) \in Nat
  BY <1>1, <1>2, PoppedIs DEF Popped
<1>9. ASSUME ~raced' PROVE InOrder' /\ InStep' /\ Accounted'
  <2>1. InOrder /\ InStep /\ Accounted
    BY <1>2, <1>9 DEF IInv
  <2>2. InOrder' /\ Accounted'
    BY <1>2, <1>4, <1>5, <1>8, <2>1 DEF InOrder, Accounted
  <2>3. x.at \in {"trying", "marking"} =>
          Len(x.seen) <= Len(queue) /\ \A i \in 1..Len(x.seen) : x.seen[i].job = queue[i].job
    BY <1>1, <1>4, <2>1 DEF InStep
  <2>4. /\ Len(queue') \in Nat /\ Len(queue) <= Len(queue')
        /\ \A i \in 1..Len(queue) : queue'[i].job = queue[i].job
    BY <1>2, <1>8
  <2>5. InStep'
    BY <1>1, <1>2, <1>4, <2>1, <2>3, <2>4, InStepKept
  <2>6. QED
    BY <2>2, <2>5
<1>10. ASSUME NEW j \in Jobs \ lapsed' PROVE OneHolder(j)'
  <2>1. OneHolder(j)
    BY <1>2, <1>10 DEF IInv
  <2>2. CASE j = k
    <3>1. \A d \in Callers : ~Holds(d, j)
      BY <1>1, <2>1, <2>2 DEF OneHolder
    <3>2. \A d \in Callers \ {c} : ~Holds(d, j)'
      BY <1>5, <3>1 DEF Holds
    <3>3. j \in locked'
      BY <1>2, <2>2
    <3>4. QED
      BY <3>2, <3>3 DEF OneHolder
  <2>3. CASE j # k
    <3>1. \A d \in Callers : Holds(d, j)' => Holds(d, j)
      BY <1>4, <1>5, <2>3 DEF Holds
    <3>2. QED
      BY <1>2, <2>1, <3>1 DEF OneHolder
  <2>4. QED
    BY <2>2, <2>3
<1>11. ASSUME ~raced', NEW j \in Jobs \ (lapsed' \cup Popped') PROVE GivenOnce(j)'
  <2>1. GivenOnce(j)
    BY <1>2, <1>8, <1>11 DEF IInv
  <2>2. given[j] # 0 => j # k
    BY <1>1, <1>6, <2>1 DEF GivenOnce
  <2>3. ~Wants(c, j)'
    BY <1>4, <1>5 DEF Wants
  <2>4. given[j] # 0 => (Holds(c, j)' => Holds(c, j))
    BY <1>4, <1>5, <2>2 DEF Holds
  <2>5. /\ j \in locked => j \in locked'
        /\ given'[j] = given[j]
        /\ given[j] # 0 =>
             \A i \in 1..Len(queue') : queue'[i].job = j => queue'[i].status = "in_progress"
    BY <1>2, <2>1 DEF GivenOnce
  <2>6. QED
    BY <1>1, <1>2, <1>4, <2>1, <2>3, <2>4, <2>5, GivenKept
<1>12. QED
  BY <1>7, <1>9, <1>10, <1>11 DEF IInv

\* LSET was executed: the entry of the job is marked, none changed its job.
LEMMA MarkKeeps ==
  ASSUME IInv, NEW c \in Callers, call[c].at = "marking", call[c].idx <= Len(queue), Mark(c),
         UNCHANGED <<pushed, popped>>
  PROVE  /\ queue' \in Seq(Entries) /\ Len(queue') = Len(queue) /\ Len(queue) \in Nat
         /\ call[c].job \in Jobs
         /\ ~raced => /\ InOrder' /\ call[c].job \in ToSet(pushed)
                      /\ \A i \in 1..Len(queue) : queue'[i].job = queue[i].job
                      /\ \A i \in 1..Len(queue) :
                           IF queue[i].job = call[c].job THEN queue'[i].status = "in_progress"
                                                          ELSE queue'[i] = queue[i]
<1> DEFINE i == call[c].idx
           k == call[c].job
<1>1. Types /\ Len(queue) \in Nat
  BY PoppedIs DEF IInv
<1>2. /\ queue' \in Seq(Entries) /\ Len(queue') = Len(queue) /\ i \in 1..Len(queue)
      /\ queue'[i] = Entry(k, "in_progress") /\ k \in Jobs
      /\ \A n \in 1..Len(queue) \ {i} : queue'[n] = queue[n]
      /\ InStep => queue[i].job = k
  BY <1>1, MarkIs
<1>3. queue'[i].job = k /\ queue'[i].status = "in_progress"
  BY <1>2, EntryIs
<1> HIDE DEF i, k
<1>4. ASSUME ~raced
      PROVE  /\ InOrder' /\ k \in ToSet(pushed)
             /\ \A n \in 1..Len(queue) : queue'[n].job = queue[n].job
             /\ \A n \in 1..Len(queue) :
                  IF queue[n].job = k THEN queue'[n].status = "in_progress"
                                      ELSE queue'[n] = queue[n]
  <2>1. InOrder /\ InStep
    BY <1>4 DEF IInv
  <2>2. queue[i].job = k
    BY <1>2, <2>1
  <2>3. \A n \in 1..Len(queue) : queue'[n].job = queue[n].job
    BY <1>2, <1>3, <2>2
  <2>4. InOrder'
    BY <1>2, <2>1, <2>3 DEF InOrder
  <2>5. k \in ToSet(pushed) /\ \A n \in 1..Len(queue) : queue[n].job = k => n = i
    BY <1>1, <1>2, <2>1, <2>2, InOrderIs
  <2>6. ASSUME NEW n \in 1..Len(queue)
        PROVE  IF queue[n].job = k THEN queue'[n].status = "in_progress" ELSE queue'[n] = queue[n]
    <3>1. CASE queue[n].job = k
      BY <1>3, <2>5, <3>1
    <3>2. CASE queue[n].job # k
      BY <1>2, <2>2, <3>2
    <3>3. QED
      BY <3>1, <3>2
  <2>7. QED
    BY <2>3, <2>4, <2>5, <2>6
<1>5. QED
  BY <1>1, <1>2, <1>4 DEF k

LEMMA PeekMarkStep ==
  ASSUME IInv, NEW c \in Callers, PeekMark(c)
  PROVE  IInv'
<1> DEFINE k == call[c].job
<1>1. Types /\ call[c].at = "marking" /\ call[c].idx <= Len(queue) /\ Mark(c)
  BY DEF IInv, PeekMark
<1>2. /\ call' = [call EXCEPT ![c] = Working(k)]
      /\ given' = [given EXCEPT ![k] = IF @ = 0 THEN 1 ELSE 2]
      /\ UNCHANGED <<locked, status, pushed, popped, lapsed, raced>>
  BY DEF PeekMark, Goto, Give
<1>3. /\ queue' \in Seq(Entries) /\ Len(queue') = Len(queue) /\ Len(queue) \in Nat
      /\ k \in Jobs
      /\ ~raced => /\ InOrder' /\ k \in ToSet(pushed)
                   /\ \A i \in 1..Len(queue) : queue'[i].job = queue[i].job
                   /\ \A i \in 1..Len(queue) :
                        IF queue[i].job = k THEN queue'[i].status = "in_progress"
                                            ELSE queue'[i] = queue[i]
  BY <1>1, <1>2, MarkKeeps
<1>4. Holds(c, k)
  BY <1>1 DEF Holds
<1> HIDE DEF k
<1>5. CallOK(Working(k)) /\ Working(k).at = "working"
  BY <1>3, WorkingOK
<1>6. call'[c] = Working(k) /\ \A d \in Callers \ {c} : call'[d] = call[d]
  BY <1>1, <1>2, <1>5, CallMoves
<1>7. given' \in [Jobs -> 0..2] /\ \A j \in Jobs \ {k} : given'[j] = given[j]
  BY <1>1, <1>2, <1>3 DEF Types
<1>8. Types'
  BY <1>1, <1>2, <1>3, <1>5, <1>7, CallMoves DEF Types
<1>9. Popped' = Popped
  BY <1>2 DEF Popped
<1>10. ASSUME ~raced' PROVE InOrder' /\ InStep' /\ Accounted'
  <2>1. ~raced /\ InStep /\ Accounted
    BY <1>2, <1>10 DEF IInv
  <2>2. InOrder' /\ k \in ToSet(pushed) /\ \A i \in 1..Len(queue) : queue'[i].job = queue[i].job
    BY <1>3, <2>1
  <2>3. Accounted'
    BY <1>2, <1>5, <1>6, <1>7, <1>9, <2>1, <2>2 DEF Accounted
  <2>4. Len(queue') \in Nat /\ Len(queue) <= Len(queue')
    BY <1>3
  <2>5. InStep'
    BY <1>1, <1>2, <1>5, <2>1, <2>2, <2>4, InStepKept
  <2>6. QED
    BY <2>2, <2>3, <2>5
<1>11. ASSUME NEW j \in Jobs \ lapsed' PROVE OneHolder(j)'
  <2>1. OneHolder(j)
    BY <1>2, <1>11 DEF IInv
  <2>2. QED
    BY <1>1, <1>2, <1>5, <2>1, HolderKept
<1>12. ASSUME ~raced', NEW j \in Jobs \ (lapsed' \cup Popped') PROVE GivenOnce(j)'
  <2>1. ~raced /\ GivenOnce(j) /\ OneHolder(j)
    BY <1>2, <1>9, <1>12 DEF IInv
  <2>2. ~Holds(c, j)' /\ ~Wants(c, j)'
    BY <1>5, <1>6 DEF Holds, Wants
  <2>3. \A i \in 1..Len(queue) : queue'[i].job = queue[i].job
    BY <1>3, <2>1
  <2>4. CASE j # k
    <3>1. given'[j] = given[j]
      BY <1>7, <2>4
    <3>2. given[j] # 0 =>
            \A i \in 1..Len(queue') : queue'[i].job = j => queue'[i].status = "in_progress"
      BY <1>3, <2>1, <2>3, <2>4 DEF GivenOnce
    <3>3. j \in locked => j \in locked'
      BY <1>2
    <3>4. QED
      BY <1>1, <1>2, <1>5, <2>1, <2>2, <3>1, <3>2, <3>3, GivenKept
  <2>5. CASE j = k
    <3>1. given[j] = 0
      BY <1>4, <2>1, <2>5 DEF GivenOnce
    <3>2. given'[j] = 1
      BY <1>1, <1>2, <1>3, <2>5, <3>1 DEF Types
    <3>3. j \in locked /\ \A d \in Callers \ {c} : ~Holds(d, j)
      BY <1>4, <2>1, <2>5 DEF OneHolder
    <3>4. \A d \in Callers : ~Holds(d, j)'
      BY <1>6, <2>2, <3>3 DEF Holds
    <3>5. \A i \in 1..Len(queue') : queue'[i].job = j => queue'[i].status = "in_progress"
      BY <1>3, <2>1, <2>3, <2>5
    <3>6. j \in locked'
      BY <1>2, <3>3
    <3>7. QED
      BY <3>2, <3>4, <3>5, <3>6 DEF GivenOnce
  <2>6. QED
    BY <2>4, <2>5
<1>13. QED
  BY <1>8, <1>10, <1>11, <1>12 DEF IInv

\* LSET fails, perhaps after it was executed; the caller still has the key.
LEMMA PeekMarkFailsStep ==
  ASSUME IInv, NEW c \in Callers, PeekMarkFails(c)
  PROVE  IInv'
<1> DEFINE k == call[c].job
           x == [call[c] EXCEPT !.at = "unlocking"]
<1>1. Types /\ call[c].at = "marking"
  BY DEF IInv, PeekMarkFails
<1>2. /\ call' = [call EXCEPT ![c] = x]
      /\ UNCHANGED <<locked, status, pushed, popped, given, lapsed, raced>>
  BY DEF PeekMarkFails, Goto, history
<1>3. CallOK(x) /\ x.at = "unlocking" /\ x.job = k
  BY <1>1, InHand DEF CallOK, Calls
<1> HIDE DEF x
<1>4. call'[c] = x /\ \A d \in Callers \ {c} : call'[d] = call[d]
  BY <1>1, <1>2, <1>3, CallMoves
<1>5. \A j : ~Wants(c, j)'
  BY <1>3, <1>4 DEF Wants
<1>6. CASE UNCHANGED queue
  <2>1. locked \subseteq locked' /\ locked' \subseteq Jobs
        /\ status' \in [Jobs -> {"none", "queued", "in_progress", "completed", "failed"}]
    BY <1>1, <1>2 DEF Types
  <2>2. QED
    BY <1>1, <1>2, <1>3, <1>5, <1>6, <2>1, ReadStep
<1>7. CASE call[c].idx <= Len(queue) /\ Mark(c)
  <2>1. /\ queue' \in Seq(Entries) /\ Len(queue') = Len(queue) /\ Len(queue) \in Nat
        /\ k \in Jobs
        /\ ~raced => /\ InOrder'
                     /\ \A i \in 1..Len(queue) : queue'[i].job = queue[i].job
                     /\ \A i \in 1..Len(queue) :
                          IF queue[i].job = k THEN queue'[i].status = "in_progress"
                                              ELSE queue'[i] = queue[i]
    BY <1>1, <1>2, <1>7, MarkKeeps
  <2>2. Holds(c, k)
    BY <1>1 DEF Holds
  <2> HIDE DEF k
  <2>3. Types'
    BY <1>1, <1>2, <1>3, <2>1, CallMoves DEF Types
  <2>4. Popped' = Popped
    BY <1>2 DEF Popped
  <2>5. ASSUME ~raced' PROVE InOrder' /\ InStep' /\ Accounted'
    <3>1. ~raced /\ InStep /\ Accounted
      BY <1>2, <2>5 DEF IInv
    <3>2. InOrder' /\ \A i \in 1..Len(queue) : queue'[i].job = queue[i].job
      BY <2>1, <3>1
    <3>3. Accounted'
      BY <1>2, <1>3, <1>4, <2>4, <3>1 DEF Accounted
    <3>4. Len(queue') \in Nat /\ Len(queue) <= Len(queue')
      BY <2>1
    <3>5. InStep'
      BY <1>1, <1>2, <1>3, <3>1, <3>2, <3>4, InStepKept
    <3>6. QED
      BY <3>2, <3>3, <3>5
  <2>6. ASSUME NEW j \in Jobs \ lapsed' PROVE OneHolder(j)'
    <3>1. OneHolder(j)
      BY <1>2, <2>6 DEF IInv
    <3>2. x.at \in {"marking", "unlocking"} =>
            call[c].at \in {"marking", "unlocking"} /\ x.job = call[c].job
      BY <1>1, <1>3 DEF k
    <3>3. j \in locked => j \in locked'
      BY <1>2
    <3>4. QED
      BY <1>1, <1>2, <1>3, <3>1, <3>2, <3>3, HolderKept
  <2>7. ASSUME ~raced', NEW j \in Jobs \ (lapsed' \cup Popped') PROVE GivenOnce(j)'
    <3>1. ~raced /\ GivenOnce(j)
      BY <1>2, <2>4, <2>7 DEF IInv
    <3>2. given[j] # 0 => j # k
      BY <2>2, <3>1 DEF GivenOnce
    <3>3. given[j] # 0 =>
            \A i \in 1..Len(queue') : queue'[i].job = j => queue'[i].status = "in_progress"
      BY <2>1, <3>1, <3>2 DEF GivenOnce
    <3>4. Holds(c, j)' => Holds(c, j)
      BY <1>1, <1>3, <1>4 DEF Holds, k
    <3>5. (j \in locked => j \in locked') /\ given'[j] = given[j]
      BY <1>2
    <3>6. QED
      BY <1>1, <1>2, <1>3, <1>5, <3>1, <3>3, <3>4, <3>5, GivenKept
  <2>8. QED
    BY <2>3, <2>5, <2>6, <2>7 DEF IInv
<1>8. QED
  BY <1>6, <1>7 DEF PeekMarkFails

LEMMA PeekUnlockStep ==
  ASSUME IInv, NEW c \in Callers, PeekUnlock(c)
  PROVE  IInv'
<1> DEFINE k == call[c].job
<1>1. Types /\ call[c].at = "unlocking" /\ Holds(c, k)
  BY DEF IInv, PeekUnlock, Holds
<1>2. /\ call' = [call EXCEPT ![c] = Idle] /\ (locked' = locked \ {k} \/ locked' = locked)
      /\ UNCHANGED <<queue, status, pushed, popped, given, lapsed, raced>>
  BY DEF PeekUnlock, Goto, history
<1>3. call'[c] = Idle /\ \A d \in Callers \ {c} : call'[d] = call[d]
  BY <1>1, <1>2, IdleOK, CallMoves
<1> HIDE DEF k
<1>4. Types'
  BY <1>1, <1>2, IdleOK, CallMoves DEF Types
<1>5. Popped' = Popped /\ Len(queue) \in Nat
  BY <1>1, <1>2, PoppedIs DEF Popped
<1>6. ASSUME ~raced' PROVE InOrder' /\ InStep' /\ Accounted'
  <2>1. InOrder /\ InStep /\ Accounted
    BY <1>2, <1>6 DEF IInv
  <2>2. InOrder' /\ Accounted'
    BY <1>2, <1>3, <1>5, <2>1, IdleOK DEF InOrder, Accounted
  <2>3. InStep'
    BY <1>2, <1>3, <2>1, IdleOK DEF InStep
  <2>4. QED
    BY <2>2, <2>3
<1>7. ASSUME NEW j \in Jobs \ lapsed' PROVE OneHolder(j)'
  <2>1. OneHolder(j)
    BY <1>2, <1>7 DEF IInv
  <2>2. \A d \in Callers : Holds(d, j)' => Holds(d, j) /\ d # c
    BY <1>3, IdleOK DEF Holds
  <2>3. \A d \in Callers : Holds(d, j)' => j # k
    BY <1>1, <2>1, <2>2 DEF OneHolder
  <2>4. QED
    BY <1>2, <2>1, <2>2, <2>3 DEF OneHolder
<1>8. ASSUME ~raced', NEW j \in Jobs \ (lapsed' \cup Popped') PROVE GivenOnce(j)'
  <2>1. GivenOnce(j)
    BY <1>2, <1>5, <1>8 DEF IInv
  <2>2. ~Wants(c, j)' /\ ~Holds(c, j)'
    BY <1>3, IdleOK DEF Wants, Holds
  <2>3. given[j] # 0 => j # k
    BY <1>1, <2>1 DEF GivenOnce
  <2>4. /\ given'[j] = given[j]
        /\ given[j] # 0 => (j \in locked => j \in locked')
        /\ given[j] # 0 =>
             \A i \in 1..Len(queue') : queue'[i].job = j => queue'[i].status = "in_progress"
    BY <1>2, <2>1, <2>3 DEF GivenOnce
  <2>5. QED
    BY <1>1, <1>2, IdleOK, <2>1, <2>2, <2>4, GivenKept
<1>9. QED
  BY <1>4, <1>6, <1>7, <1>8 DEF IInv

-----------------------------------------------------------------------------
(* DequeueJob and the callers' reports                                     *)

LEMMA DequeuePopStep ==
  ASSUME IInv, NEW c \in Callers, DequeuePop(c)
  PROVE  IInv'
<1>1. /\ Types /\ queue # <<>> /\ queue' = Tail(queue) /\ popped' = popped + 1
      /\ raced' = (raced \/ \E d \in Callers : call[d].at \in {"trying", "marking"})
      /\ UNCHANGED <<locked, status, pushed, given, lapsed>>
  BY DEF IInv, DequeuePop
<1>2. /\ queue' \in Seq(Entries) /\ Len(queue') = Len(queue) - 1 /\ Len(queue) \in Nat \ {0}
      /\ \A i \in 1..Len(queue') : queue'[i] = queue[i + 1]
      /\ Head(queue) \in Entries /\ Head(queue) = queue[1]
  <2>1. queue \in Seq(Entries)
    BY <1>1 DEF Types
  <2>2. QED
    BY <1>1, <2>1, HeadTailProperties, EmptySeq
<1>3. Head(queue).job \in Jobs
  BY <1>2, EntryIs
<1>4. PICK x : /\ call' = [call EXCEPT ![c] = x] /\ CallOK(x)
               /\ x.at \in {"updating", "idle"}
               /\ x.at = "updating" => x.job = Head(queue).job
  <2> DEFINE y == [Idle EXCEPT !.at = "updating", !.job = Head(queue).job]
  <2>1. CallOK(y) /\ y.at = "updating" /\ y.job = Head(queue).job
    BY <1>3, EmptySeq DEF CallOK, Calls, Idle
  <2>2. call' = [call EXCEPT ![c] = y] \/ call' = [call EXCEPT ![c] = Idle]
    BY DEF DequeuePop, Goto
  <2> HIDE DEF y
  <2>3. QED
    BY <2>1, <2>2, IdleOK
<1>5. call'[c] = x /\ \A d \in Callers \ {c} : call'[d] = call[d]
  BY <1>1, <1>4, CallMoves
<1>6. Types'
  <2>1. popped' + Len(queue') = Len(pushed') /\ popped' \in Nat /\ raced' \in BOOLEAN
    BY <1>1, <1>2 DEF Types
  <2>2. QED
    BY <1>1, <1>2, <1>4, <2>1, CallMoves DEF Types
<1>7. Popped' = Popped \cup {pushed[popped + 1]}
  <2>1. Popped' = {pushed'[i] : i \in 1..popped'}
    <3>1. pushed' \in Seq(Jobs) /\ popped' \in 0..Len(pushed')
      BY <1>1, <1>2, <1>6 DEF Types
    <3>2. QED
      BY <3>1, PrefixIs DEF Popped
  <2>2. Popped = {pushed[i] : i \in 1..popped} /\ popped \in Nat
    BY <1>1, PoppedIs DEF Types
  <2>3. 1..popped' = 1..popped \cup {popped + 1}
    BY <1>1, <2>2
  <2>4. QED
    BY <1>1, <2>1, <2>2, <2>3
<1>8. ASSUME ~raced' PROVE InOrder' /\ InStep' /\ Accounted'
  <2>1. InOrder /\ Accounted /\ \A d \in Callers : call[d].at \notin {"trying", "marking"}
    BY <1>1, <1>8 DEF IInv
  <2>2. InOrder'
    <3>1. popped \in Nat
      BY <1>1 DEF Types
    <3>2. \A i \in 1..Len(queue') : queue'[i].job = pushed[popped + (i + 1)]
      BY <1>2, <2>1 DEF InOrder
    <3>3. QED
      BY <1>1, <1>2, <3>1, <3>2 DEF InOrder
  <2>3. InStep'
    BY <1>4, <1>5, <2>1 DEF InStep
  <2>4. Head(queue).job = pushed[popped + 1]
    BY <1>2, <2>1 DEF InOrder
  <2>5. Accounted'
    BY <1>1, <1>4, <1>5, <1>7, <2>1, <2>4 DEF Accounted
  <2>6. QED
    BY <2>2, <2>3, <2>5
<1>9. ASSUME NEW j \in Jobs \ lapsed' PROVE OneHolder(j)'
  <2>1. OneHolder(j) /\ (j \in locked => j \in locked')
    BY <1>1, <1>9 DEF IInv
  <2>2. x.at \in {"marking", "unlocking"} =>
          call[c].at \in {"marking", "unlocking"} /\ x.job = call[c].job
    BY <1>4
  <2>3. QED
    BY <1>1, <1>4, <2>1, <2>2, HolderKept
<1>10. ASSUME ~raced', NEW j \in Jobs \ (lapsed' \cup Popped') PROVE GivenOnce(j)'
  <2>1. GivenOnce(j)
    BY <1>1, <1>7, <1>10 DEF IInv
  <2>2. ~Wants(c, j)' /\ ~Holds(c, j)'
    BY <1>4, <1>5 DEF Wants, Holds
  <2>3. /\ given'[j] = given[j] /\ (j \in locked => j \in locked')
        /\ given[j] # 0 =>
             \A i \in 1..Len(queue') : queue'[i].job = j => queue'[i].status = "in_progress"
    BY <1>1, <1>2, <2>1 DEF GivenOnce
  <2>4. QED
    BY <1>1, <1>4, <2>1, <2>2, <2>3, GivenKept
<1>11. QED
  BY <1>6, <1>8, <1>9, <1>10 DEF IInv

\* What is given by DequeueJob was popped, unless a race moved the list.
LEMMA DequeueUpdateStep ==
  ASSUME IInv, NEW c \in Callers, DequeueUpdate(c)
  PROVE  IInv'
<1> DEFINE k == call[c].job
<1>1. /\ Types /\ call[c].at = "updating"
      /\ status' = [status EXCEPT ![k] = "in_progress"]
      /\ given' = [given EXCEPT ![k] = IF @ = 0 THEN 1 ELSE 2]
      /\ call' = [call EXCEPT ![c] = Working(k)]
      /\ UNCHANGED <<queue, locked, pushed, popped, lapsed, raced>>
  BY DEF IInv, DequeueUpdate, UpdateStatus, Give, Goto
<1>2. k \in Jobs
  BY <1>1 DEF Types, CallOK
<1>3. ~raced => k \in Popped
  BY <1>1 DEF IInv, Accounted
<1> HIDE DEF k
<1>4. CallOK(Working(k)) /\ Working(k).at = "working"
  BY <1>2, WorkingOK
<1>5. call'[c] = Working(k) /\ \A d \in Callers \ {c} : call'[d] = call[d]
  BY <1>1, <1>4, CallMoves
<1>6. given' \in [Jobs -> 0..2] /\ \A j \in Jobs \ {k} : given'[j] = given[j]
  BY <1>1, <1>2 DEF Types
<1>7. Types'
  <2>1. status' \in [Jobs -> {"none", "queued", "in_progress", "completed", "failed"}]
    BY <1>1, <1>2 DEF Types
  <2>2. QED
    BY <1>1, <1>4, <1>6, <2>1, CallMoves DEF Types
<1>8. Popped' = Popped /\ Popped \subseteq ToSet(pushed)
  BY <1>1, PoppedIs DEF Popped
<1>9. ASSUME ~raced' PROVE InOrder' /\ InStep' /\ Accounted'
  <2>1. InOrder /\ InStep /\ Accounted /\ k \in Popped
    BY <1>1, <1>3, <1>9 DEF IInv
  <2>2. InOrder'
    BY <1>1, <2>1 DEF InOrder
  <2>3. InStep'
    BY <1>1, <1>4, <1>5, <2>1 DEF InStep
  <2>4. Accounted'
    BY <1>1, <1>4, <1>5, <1>6, <1>8, <2>1 DEF Accounted
  <2>5. QED
    BY <2>2, <2>3, <2>4
<1>10. ASSUME NEW j \in Jobs \ lapsed' PROVE OneHolder(j)'
  <2>1. OneHolder(j) /\ (j \in locked => j \in locked')
    BY <1>1, <1>10 DEF IInv
  <2>2. QED
    BY <1>1, <1>4, <2>1, HolderKept
<1>11. ASSUME ~raced', NEW j \in Jobs \ (lapsed' \cup Popped') PROVE GivenOnce(j)'
  <2>1. GivenOnce(j) /\ j # k
    BY <1>1, <1>3, <1>8, <1>11 DEF IInv
  <2>2. ~Wants(c, j)' /\ ~Holds(c, j)'
    BY <1>4, <1>5 DEF Wants, Holds
  <2>3. /\ given'[j] = given[j] /\ (j \in locked => j \in locked')
        /\ given[j] # 0 =>
             \A i \in 1..Len(queue') : queue'[i].job = j => queue'[i].status = "in_progress"
    BY <1>1, <1>6, <2>1 DEF GivenOnce
  <2>4. QED
    BY <1>1, <1>4, <2>1, <2>2, <2>3, GivenKept
<1>12. QED
  BY <1>7, <1>9, <1>10, <1>11 DEF IInv

\* A caller is through with a job, or never got it.
LEMMA WorksEndStep ==
  ASSUME IInv, NEW c \in Callers, DequeueUpdateFails(c) \/ Report(c) \/ ReportFails(c)
  PROVE  IInv'
<1>1. /\ Types /\ call' = [call EXCEPT ![c] = Idle]
      /\ UNCHANGED <<queue, locked, pushed, popped, given, lapsed, raced>>
  BY DEF IInv, DequeueUpdateFails, Report, ReportFails, Goto, redis, history
<1>2. status' \in [Jobs -> {"none", "queued", "in_progress", "completed", "failed"}]
  <2>1. CASE Report(c)
    <3>1. PICK st \in {"completed", "failed"} : status' = [status EXCEPT ![call[c].job] = st]
      BY <2>1 DEF Report, UpdateStatus
    <3>2. QED
      BY <1>1, <3>1 DEF Types
  <2>2. CASE ~Report(c)
    BY <1>1, <2>2 DEF DequeueUpdateFails, ReportFails, redis, Types
  <2>3. QED
    BY <2>1, <2>2
<1>3. call'[c] = Idle
  BY <1>1, IdleOK, CallMoves
<1>4. \A j : ~Wants(c, j)'
  BY <1>3, IdleOK DEF Wants
<1>5. locked \subseteq locked' /\ locked' \subseteq Jobs
  BY <1>1 DEF Types
<1>6. QED
  BY <1>1, <1>2, <1>4, <1>5, IdleOK, ReadStep

-----------------------------------------------------------------------------
(* Pushes and expiries                                                     *)

LEMMA PushStep ==
  ASSUME IInv, NEW k \in Jobs, Push(k)
  PROVE  IInv'
<1>1. /\ Types /\ k \notin ToSet(pushed)
      /\ pushed' = Append(pushed, k)
      /\ UNCHANGED <<locked, status, call, popped, given, lapsed, raced>>
  BY DEF IInv, Push
<1>0. PICK st \in Statuses : queue' = Append(queue, Entry(k, st))
  BY DEF Push, Statuses
<1>2. /\ Len(queue) \in Nat /\ Len(pushed) \in Nat /\ popped \in Nat /\ popped <= Len(pushed)
      /\ popped + Len(queue) = Len(pushed)
      /\ ToSet(pushed) = {pushed[i] : i \in 1..Len(pushed)}
  BY <1>1, PoppedIs DEF Types
<1>3. /\ queue' \in Seq(Entries) /\ Len(queue') = Len(queue) + 1
      /\ \A i \in 1..Len(queue) : queue'[i] = queue[i]
      /\ queue'[Len(queue) + 1] = Entry(k, st)
  <2>1. queue \in Seq(Entries) /\ Entry(k, st) \in Entries
    BY <1>1, EntryIs DEF Types
  <2>2. QED
    BY <1>0, <1>2, <2>1, AppendProperties
<1>4. /\ pushed' \in Seq(Jobs) /\ Len(pushed') = Len(pushed) + 1
      /\ \A i \in 1..Len(pushed) : pushed'[i] = pushed[i]
      /\ pushed'[Len(pushed) + 1] = k
  <2>1. pushed \in Seq(Jobs)
    BY <1>1 DEF Types
  <2>2. QED
    BY <1>1, <1>2, <2>1, AppendProperties
<1>5. Types'
  <2>1. \A i \in 1..Len(pushed) : pushed[i] # k
    BY <1>1, <1>2
  <2>2. \A i, n \in 1..Len(pushed') : pushed'[i] = pushed'[n] => i = n
    BY <1>1, <1>2, <1>4, <2>1 DEF Types
  <2>3. popped' + Len(queue') = Len(pushed')
    BY <1>1, <1>2, <1>3, <1>4
  <2>4. QED
    BY <1>1, <1>3, <1>4, <2>2, <2>3 DEF Types
<1>6. Popped' = Popped /\ ToSet(pushed') = ToSet(pushed) \cup {k}
  <2>1. Popped' = {pushed'[i] : i \in 1..popped} /\ Popped = {pushed[i] : i \in 1..popped}
        /\ ToSet(pushed') = {pushed'[i] : i \in 1..Len(pushed')}
    <3>1. pushed' \in Seq(Jobs) /\ popped \in 0..Len(pushed')
      BY <1>1, <1>2, <1>4
    <3>2. QED
      BY <1>1, <3>1, PoppedIs, PrefixIs DEF Popped
  <2>2. \A i \in 1..popped : pushed'[i] = pushed[i]
    BY <1>2, <1>4
  <2>3. 1..Len(pushed') = 1..Len(pushed) \cup {Len(pushed) + 1}
    BY <1>2, <1>4
  <2>4. QED
    BY <1>2, <1>4, <2>1, <2>2, <2>3
<1>7. ASSUME ~raced' PROVE InOrder' /\ InStep' /\ Accounted'
  <2>1. InOrder /\ InStep /\ Accounted
    BY <1>1, <1>7 DEF IInv
  <2>2. InOrder'
    <3> SUFFICES ASSUME NEW i \in 1..Len(queue') PROVE queue'[i].job = pushed'[popped + i]
      BY <1>1 DEF InOrder
    <3>1. CASE i <= Len(queue)
      <4>1. i \in 1..Len(queue) /\ popped + i \in 1..Len(pushed)
        BY <1>1, <1>2, <1>3, <3>1 DEF Types
      <4>2. QED
        BY <1>3, <1>4, <2>1, <4>1 DEF InOrder
    <3>2. CASE i = Len(queue) + 1
      <4>1. popped + i = Len(pushed) + 1
        BY <1>2, <3>2
      <4>2. QED
        BY <1>3, <1>4, <3>2, <4>1, EntryIs
    <3>3. QED
      BY <1>2, <1>3, <3>1, <3>2
  <2>3. InStep'
    <3> SUFFICES ASSUME NEW d \in Callers, call[d].at \in {"trying", "marking"}
                 PROVE  /\ Len(call[d].seen) <= Len(queue')
                        /\ \A i \in 1..Len(call[d].seen) : call[d].seen[i].job = queue'[i].job
      BY <1>1 DEF InStep
    <3>1. /\ Len(call[d].seen) <= Len(queue) /\ Len(call[d].seen) \in Nat
          /\ \A i \in 1..Len(call[d].seen) : call[d].seen[i].job = queue[i].job
      BY <1>1, <2>1, InHand DEF InStep
    <3>2. QED
      BY <1>2, <1>3, <3>1
  <2>4. Accounted'
    BY <1>1, <1>6, <2>1 DEF Accounted
  <2>5. QED
    BY <2>2, <2>3, <2>4
<1>8. ASSUME NEW j \in Jobs \ lapsed' PROVE OneHolder(j)'
  BY <1>1, <1>8 DEF IInv, OneHolder, Holds
<1>9. ASSUME ~raced', NEW j \in Jobs \ (lapsed' \cup Popped') PROVE GivenOnce(j)'
  <2>1. GivenOnce(j) /\ Accounted
    BY <1>1, <1>6, <1>9 DEF IInv
  <2>2. SUFFICES ASSUME given[j] # 0
                 PROVE  \A i \in 1..Len(queue') : queue'[i].job = j => queue'[i].status = "in_progress"
    BY <1>1, <2>1 DEF GivenOnce, Holds, Wants
  <2>3. j # k
    BY <1>1, <2>1, <2>2 DEF Accounted
  <2>4. \A i \in 1..Len(queue') : i \in 1..Len(queue) \/ i = Len(queue) + 1
    BY <1>2, <1>3
  <2>5. QED
    BY <1>3, <2>1, <2>2, <2>3, <2>4, EntryIs DEF GivenOnce
<1>10. QED
  BY <1>5, <1>7, <1>8, <1>9 DEF IInv

\* The key of a job that nobody is at work on may go, the others are noted.
LEMMA ExpiryStep ==
  ASSUME IInv, NEW k \in Jobs, LockExpires(k)
  PROVE  IInv'
<1>1. /\ Types /\ locked' = locked \ {k} /\ lapsed \subseteq lapsed' /\ lapsed' \subseteq Jobs
      /\ k \in lapsed' \/ \A d \in Callers : ~AtWorkOn(d, k)
      /\ UNCHANGED <<queue, status, call, pushed, popped, given, raced>>
  BY DEF IInv, LockExpires, Types
<1>2. Types'
  BY <1>1 DEF Types
<1>3. Popped' = Popped
  BY <1>1 DEF Popped
<1>4. ~raced' => InOrder' /\ InStep' /\ Accounted'
  BY <1>1, <1>3 DEF IInv, InOrder, InStep, Accounted
<1>5. \A d \in Callers : Holds(d, k) \/ Wants(d, k) => AtWorkOn(d, k)
  BY EntryIs DEF Holds, Wants, AtWorkOn
<1>6. ASSUME NEW j \in Jobs \ lapsed' PROVE OneHolder(j)'
  <2>1. OneHolder(j) /\ (j = k => \A d \in Callers : ~Holds(d, j))
    BY <1>1, <1>5, <1>6 DEF IInv
  <2>2. QED
    BY <1>1, <2>1 DEF OneHolder, Holds
<1>7. ASSUME ~raced', NEW j \in Jobs \ (lapsed' \cup Popped') PROVE GivenOnce(j)'
  <2>1. GivenOnce(j) /\ (j = k => \A d \in Callers : ~Wants(d, j))
    BY <1>1, <1>3, <1>5, <1>7 DEF IInv
  <2>2. QED
    BY <1>1, <2>1 DEF GivenOnce, Holds, Wants
<1>8. QED
  BY <1>2, <1>4, <1>6, <1>7 DEF IInv

-----------------------------------------------------------------------------
(* The invariant is inductive                                              *)

LEMMA InitInv == Init => IInv
<1> SUFFICES ASSUME Init PROVE IInv
  OBVIOUS
<1>1. /\ queue = <<>> /\ pushed = <<>> /\ popped = 0 /\ locked = {} /\ lapsed = {}
      /\ given = [j \in Jobs |-> 0] /\ call = [c \in Callers |-> Idle] /\ ~raced
      /\ Len(<<>>) = 0
  BY EmptySeq DEF Init
<1>2. Types
  <2>1. queue \in Seq(Entries) /\ pushed \in Seq(Jobs)
    BY <1>1, EmptySeq
  <2>2. call \in [Callers -> Calls] /\ \A c \in Callers : CallOK(call[c])
    BY <1>1, IdleOK DEF CallOK
  <2>3. status \in [Jobs -> {"none", "queued", "in_progress", "completed", "failed"}]
    BY DEF Init
  <2>4. \A i, k \in 1..Len(pushed) : pushed[i] = pushed[k] => i = k
    BY <1>1
  <2>5. popped \in Nat /\ popped + Len(queue) = Len(pushed)
    BY <1>1
  <2>6. raced \in BOOLEAN
    BY DEF Init
  <2>7. QED
    BY <1>1, <2>1, <2>2, <2>3, <2>4, <2>5, <2>6 DEF Types
<1>3. InOrder /\ InStep /\ Accounted
  BY <1>1, IdleOK DEF InOrder, InStep, Accounted
<1>4. \A j \in Jobs : OneHolder(j) /\ GivenOnce(j)
  BY <1>1, IdleOK DEF OneHolder, GivenOnce, Holds
<1>5. QED
  BY <1>2, <1>3, <1>4 DEF IInv

LEMMA NextInv == IInv /\ [Next]_vars => IInv'
<1> SUFFICES ASSUME IInv, [Next]_vars PROVE IInv'
  OBVIOUS
<1>1. ASSUME NEW c \in Callers, PeekJob(c) PROVE IInv'
  BY <1>1, PeekReadStep, PeekLockStep, ContinueStep, PeekMarkStep, PeekMarkFailsStep,
     PeekUnlockStep DEF PeekJob
<1>2. ASSUME NEW c \in Callers, DequeuePop(c) \/ Works(c) PROVE IInv'
  BY <1>2, DequeuePopStep, DequeueUpdateStep, WorksEndStep DEF Works
<1>3. ASSUME NEW j \in Jobs, Push(j) \/ LockExpires(j) PROVE IInv'
  BY <1>3, PushStep, ExpiryStep
<1>4. CASE UNCHANGED vars
  <2> USE <1>4 DEF vars, redis, history
  <2>1. Types' /\ Popped' = Popped
    BY DEF IInv, Types, Popped
  <2>2. (InOrder <=> InOrder') /\ (InStep <=> InStep')
    BY DEF InOrder, InStep
  <2>3. Accounted <=> Accounted'
    BY <2>1 DEF Accounted
  <2>4. \A j \in Jobs : (OneHolder(j) <=> OneHolder(j)') /\ (GivenOnce(j) <=> GivenOnce(j)')
    BY DEF OneHolder, GivenOnce, Holds, Wants
  <2>5. QED
    BY <2>1, <2>2, <2>3, <2>4 DEF IInv
<1>5. QED
  BY <1>1, <1>2, <1>3, <1>4 DEF Next

\* The inductive invariant of the list: order, indices, keys and counts.
THEOREM QueueInvariant == Spec => []IInv
BY InitInv, NextInv, PTL DEF Spec

-----------------------------------------------------------------------------
(* The safety properties                                                   *)

\* Type correctness; the list is always what was pushed less what was popped
\* in number, and what PeekJob tries was read as queued.
THEOREM TypeCorrect == Spec => []TypeOK
<1>1. ASSUME IInv PROVE TypeOK
  <2>1. Types
    BY <1>1 DEF IInv
  <2>2. \A i \in 1..Len(queue) : queue[i].job \in Jobs /\ queue[i].status \in Statuses
    BY <2>1, ElementOfSeq, EntryIs DEF Types
  <2>3. ASSUME NEW c \in Callers
        PROVE  /\ call[c].at \in {"idle", "counted", "trying", "marking", "unlocking",
                                  "updating", "working"}
               /\ call[c].at \in {"trying", "marking", "unlocking"} =>
                    call[c].seen[call[c].idx] = Entry(call[c].job, "queued")
    BY <2>1 DEF Types, CallOK, Calls
  <2>4. QED
    BY <2>1, <2>2, <2>3 DEF Types, TypeOK, Statuses
<1>2. QED
  BY <1>1, QueueInvariant, PTL

\* Unless a pop came between a PeekJob's LRANGE and its LSET, the list keeps
\* every job that was pushed and not popped, once and in order, although
\* entries are written back by index.
THEOREM ListsKept == Spec => []ListKept
<1>1. ASSUME IInv, ~raced
      PROVE  [i \in 1..Len(queue) |-> queue[i].job] = SubSeq(pushed, popped + 1, Len(pushed))
  <2>1. /\ Types /\ InOrder /\ Len(queue) \in Nat /\ Len(pushed) \in Nat /\ popped \in Nat
        /\ popped + Len(queue) = Len(pushed)
    BY <1>1, PoppedIs DEF IInv, Types
  <2> DEFINE s == [i \in 1..Len(queue) |-> queue[i].job]
             r == SubSeq(pushed, popped + 1, Len(pushed))
  <2>2. /\ r \in Seq(Jobs) /\ Len(r) = Len(queue)
        /\ \A i \in 1..Len(queue) : r[i] = pushed[popped + i]
    <3>1. \A i \in popped + 1 .. Len(pushed) : pushed[i] \in Jobs
      BY <2>1, ElementOfSeq DEF Types
    <3>2. popped + 1 \in Int /\ Len(pushed) \in Int
      BY <2>1
    <3>3. /\ r \in Seq(Jobs)
          /\ Len(r) = IF popped + 1 <= Len(pushed) THEN Len(pushed) - (popped + 1) + 1 ELSE 0
          /\ \A i \in 1 .. Len(pushed) - (popped + 1) + 1 : r[i] = pushed[popped + 1 + i - 1]
      BY <3>1, <3>2, SubSeqProperties
    <3>4. Len(pushed) - (popped + 1) + 1 = Len(queue)
      BY <2>1
    <3>5. \A i \in 1..Len(queue) : popped + 1 + i - 1 = popped + i
      BY <2>1
    <3> HIDE DEF r
    <3>6. QED
      BY <2>1, <3>3, <3>4, <3>5
  <2> HIDE DEF r
  <2>3. r \in [1..Len(queue) -> Jobs]
    BY <2>2, LenProperties
  <2>4. \A i \in 1..Len(queue) : s[i] = r[i]
    BY <2>1, <2>2 DEF InOrder
  <2>5. s = r
    BY <2>3, <2>4
  <2>6. QED
    BY <2>5 DEF r
<1>2. IInv => ListKept
  BY <1>1 DEF ListKept
<1>3. QED
  BY <1>2, QueueInvariant, PTL

\* A job is handed out twice only if its key expired under a PeekJob at work
\* on it, if it was dequeued although it had been peeked, or after a race.
THEOREM JobsHandedOutOnce == Spec => []HandedOutOnce
<1>1. ASSUME IInv, NEW j \in Jobs, given[j] = 2 PROVE j \in lapsed \cup Popped \/ raced
  BY <1>1 DEF IInv, GivenOnce
<1>2. IInv => HandedOutOnce
  BY <1>1 DEF HandedOutOnce
<1>3. QED
  BY <1>2, QueueInvariant, PTL

=============================================================================
