-------------------------- MODULE UploadPool_proofs --------------------------
(***************************************************************************)
(* Proofs about UploadPool, for any number of uploaders, files, attempts   *)
(* and any set of faults.                                                  *)
(***************************************************************************)
EXTENDS UploadPool, TLAPS

-----------------------------------------------------------------------------
(* Type correctness                                                        *)

LEMMA WalkFile ==
  ASSUME NEW i \in 1..Len(Walk)
  PROVE  Walk[i] \in Files
BY DEF Files

\* What an uploader that is busy is busy with.
LEMMA Busy ==
  ASSUME TypeOK, NEW u \in Uploaders
  PROVE  /\ uploader[u].doing = "putting" =>
              \E f \in Files, k \in 1..MaxRetries : uploader[u] = Putting(f, k)
         /\ uploader[u].doing = "failing" => \E f \in Files : uploader[u] = Failing(f)
BY DEF TypeOK, Idle, Gone, Putting, Failing

Kinds ==
  {Idle, Gone} \cup {Putting(f, k) : f \in Files, k \in 1..MaxRetries}
               \cup {Failing(f) : f \in Files}

LEMMA BecomesType ==
  ASSUME TypeOK, NEW u \in Uploaders, NEW what \in Kinds, Becomes(u, what)
  PROVE  uploader' \in [Uploaders -> Kinds]
BY DEF TypeOK, Becomes, Kinds

LEMMA UploaderType ==
  ASSUME TypeOK, NEW u \in Uploaders,
         \/ HandOver(u) \/ OpenFails(u) \/ PutSucceeds(u)
         \/ PutFails(u) \/ UploaderReports(u) \/ UploaderDone(u)
  PROVE  TypeOK'
<1> USE UploadAssumption
<1>1. CASE HandOver(u)
  <2>1. next \in 1..Len(Walk) /\ Len(Walk) \in Nat
    BY <1>1 DEF HandOver, TypeOK
  <2>2. Putting(Walk[next], 1) \in Kinds
    BY <2>1, WalkFile DEF Kinds
  <2>3. uploader' \in [Uploaders -> Kinds]
    BY <1>1, <2>2, BecomesType DEF HandOver
  <2>4. next' \in 1..(Len(Walk) + 1)
    BY <1>1, <2>1 DEF HandOver
  <2>5. QED
    BY <1>1, <2>3, <2>4 DEF HandOver, TypeOK, Kinds
<1>2. CASE OpenFails(u)
  <2>1. PICK f \in Files, k \in 1..MaxRetries : uploader[u] = Putting(f, k)
    BY <1>2, Busy DEF OpenFails
  <2>2. Failing(uploader[u].file) \in Kinds
    BY <2>1 DEF Kinds, Putting
  <2>3. QED
    BY <1>2, <2>2, BecomesType DEF OpenFails, TypeOK, Kinds
<1>3. CASE PutSucceeds(u)
  <2>1. PICK f \in Files, k \in 1..MaxRetries : uploader[u] = Putting(f, k)
    BY <1>3, Busy DEF PutSucceeds
  <2>2. uploader[u].file \in Files
    BY <2>1 DEF Putting
  <2>3. QED
    BY <1>3, <2>2, BecomesType DEF PutSucceeds, TypeOK, Kinds
<1>4. CASE PutFails(u)
  <2>1. PICK f \in Files, k \in 1..MaxRetries : uploader[u] = Putting(f, k)
    BY <1>4, Busy DEF PutFails
  <2>2. uploader[u].file = f /\ uploader[u].attempt = k
    BY <2>1 DEF Putting
  <2>3. (IF k < MaxRetries THEN Putting(f, k + 1) ELSE Failing(f)) \in Kinds
    BY DEF Kinds
  <2>4. QED
    BY <1>4, <2>2, <2>3, BecomesType DEF PutFails, TypeOK, Kinds
<1>5. CASE UploaderReports(u)
  BY <1>5, BecomesType DEF UploaderReports, TypeOK, Kinds
<1>6. CASE UploaderDone(u)
  BY <1>6, BecomesType DEF UploaderDone, TypeOK, Kinds
<1>7. QED
  BY <1>1, <1>2, <1>3, <1>4, <1>5, <1>6

LEMMA TypeStep == TypeOK /\ [Next]_vars => TypeOK'
<1> SUFFICES ASSUME TypeOK, [Next]_vars PROVE TypeOK'
  OBVIOUS
<1> USE UploadAssumption
<1>1. ASSUME NEW u \in Uploaders,
             \/ HandOver(u) \/ OpenFails(u) \/ PutSucceeds(u)
             \/ PutFails(u) \/ UploaderReports(u) \/ UploaderDone(u)
      PROVE  TypeOK'
  BY <1>1, UploaderType
<1>2. CASE WalkFails \/ WalkDone \/ WalkerReports
  BY <1>2 DEF WalkFails, WalkDone, WalkerReports, TypeOK
<1>3. CASE CloseResults \/ Return \/ Cancel
  <2>1. outcome' \in {"none", "ok", "error"}
    <3>1. CASE UNCHANGED outcome
      BY <3>1 DEF TypeOK
    <3>2. CASE Return
      <4>1. outcome' = "error" \/ outcome' = "ok"
        BY <3>2, Zenon DEF Return
      <4>2. QED
        BY <4>1
    <3>3. QED
      BY <1>3, <3>1, <3>2 DEF CloseResults, Cancel
  <2>2. cancelled' \in BOOLEAN
    <3>1. CASE UNCHANGED cancelled
      BY <3>1 DEF TypeOK
    <3>2. CASE Cancel
      BY <3>2, Zenon DEF Cancel
    <3>3. QED
      BY <1>3, <3>1, <3>2 DEF CloseResults, Return
  <2>3. results' \in {"open", "closed"}
    BY <1>3 DEF CloseResults, Return, Cancel, TypeOK
  <2>4. UNCHANGED <<walker, next, uploader, stored, errors>>
    BY <1>3 DEF CloseResults, Return, Cancel
  <2>5. QED
    BY <2>1, <2>2, <2>3, <2>4 DEF TypeOK
<1>4. CASE UNCHANGED vars
  BY <1>4 DEF vars, TypeOK
<1>5. QED
  BY <1>1, <1>2, <1>3, <1>4 DEF Next, Finished

LEMMA InitType == Init => TypeOK
<1> SUFFICES ASSUME Init PROVE TypeOK
  OBVIOUS
<1>1. Len(Walk) \in Nat
  BY UploadAssumption
<1>2. next \in 1..(Len(Walk) + 1)
  BY <1>1 DEF Init
<1>3. uploader \in [Uploaders -> Kinds]
  <2>1. Idle \in Kinds
    BY DEF Kinds
  <2>2. QED
    BY <2>1 DEF Init
<1>a. stored \in SUBSET Files /\ cancelled \in BOOLEAN /\ errors \in Nat
  BY DEF Init
<1>b. walker \in {"walking", "erring", "closed"} /\ results \in {"open", "closed"}
      /\ outcome \in {"none", "ok", "error"}
  BY DEF Init
<1>4. QED
  BY <1>2, <1>3, <1>a, <1>b DEF TypeOK, Kinds

\* Every variable of the call keeps its type.
THEOREM TypeCorrect == Spec => []TypeOK
<1>1. QED
  BY InitType, TypeStep, PTL DEF Spec

-----------------------------------------------------------------------------
(* No goroutine is left behind                                             *)

\* The walker and the uploaders end in this order, results is closed then.
Closing ==
  /\ \A u \in Uploaders : uploader[u] = Gone => walker = "closed"
  /\ NothingLeftBehind

LEMMA KindsDiffer ==
  /\ Idle # Gone
  /\ \A f : Failing(f) # Gone /\ \A k : Putting(f, k) # Gone
BY DEF Idle, Gone, Failing, Putting

LEMMA ClosingStep == TypeOK /\ Closing /\ [Next]_vars => Closing'
<1> SUFFICES ASSUME TypeOK, Closing, [Next]_vars PROVE Closing'
  OBVIOUS
<1> USE UploadAssumption, KindsDiffer DEF Closing, NothingLeftBehind, TypeOK, Becomes
<1>1. ASSUME NEW u \in Uploaders, uploader[u] # Gone, NEW what,
             Becomes(u, what), what # Gone \/ walker = "closed",
             UNCHANGED <<walker, results>>
      PROVE  Closing'
  BY <1>1
<1>2. ASSUME NEW u \in Uploaders, HandOver(u) PROVE Closing'
  BY <1>1, <1>2 DEF HandOver
<1>3. ASSUME NEW u \in Uploaders, OpenFails(u) PROVE Closing'
  BY <1>1, <1>3 DEF OpenFails, Gone
<1>4. ASSUME NEW u \in Uploaders, PutSucceeds(u) PROVE Closing'
  BY <1>1, <1>4 DEF PutSucceeds, Gone
<1>5. ASSUME NEW u \in Uploaders, PutFails(u) PROVE Closing'
  <2> DEFINE f == uploader[u].file
             k == uploader[u].attempt
             what == IF k < MaxRetries THEN Putting(f, k + 1) ELSE Failing(f)
  <2>1. what # Gone
    OBVIOUS
  <2>2. uploader[u] # Gone
    BY <1>5 DEF PutFails, Gone
  <2>3. Becomes(u, what) /\ UNCHANGED <<walker, results>>
    BY <1>5 DEF PutFails
  <2> HIDE DEF what
  <2>4. QED
    BY <1>1, <2>1, <2>2, <2>3
<1>6. ASSUME NEW u \in Uploaders, UploaderReports(u) PROVE Closing'
  BY <1>1, <1>6 DEF UploaderReports, Gone
<1>7. ASSUME NEW u \in Uploaders, UploaderDone(u) PROVE Closing'
  BY <1>1, <1>7 DEF UploaderDone
<1>8. CASE WalkFails \/ WalkDone \/ WalkerReports
  BY <1>8 DEF WalkFails, WalkDone, WalkerReports
<1>9. CASE CloseResults \/ Return \/ Cancel
  <2>1. PICK u \in Uploaders : TRUE
    OBVIOUS
  <2>2. QED
    BY <1>9, <2>1 DEF CloseResults, Return, Cancel
<1>10. CASE UNCHANGED vars
  BY <1>10 DEF vars
<1>11. QED
  BY <1>2, <1>3, <1>4, <1>5, <1>6, <1>7, <1>8, <1>9, <1>10 DEF Next, Finished

LEMMA InitClosing == Init => Closing
BY KindsDiffer DEF Init, Closing, NothingLeftBehind

\* results is closed when walker and uploaders are done, and not before: none
\* of them sends on a closed channel or outlives the call.
THEOREM GoroutinesEnd == Spec => []NothingLeftBehind
<1>1. Closing => NothingLeftBehind
  BY DEF Closing
<1>2. QED
  BY <1>1, InitClosing, ClosingStep, TypeCorrect, PTL DEF Spec

-----------------------------------------------------------------------------
(* Success means that every file is stored                                 *)

Carries(u, f) ==
  uploader[u] = Failing(f) \/ \E k \in 1..MaxRetries : uploader[u] = Putting(f, k)

\* As long as no error was reported, each file the walk has passed is stored or
\* in an uploader's hands, and the walk was not broken off.
Underway ==
  errors = 0 /\ ~cancelled =>
    /\ \A i \in 1..(next - 1) : Walk[i] \in stored \/ \E u \in Uploaders : Carries(u, Walk[i])
    /\ walker = "closed" => next = Len(Walk) + 1

\* The call goes by the errors it has counted.
Counted ==
  /\ outcome # "none" => results = "closed"
  /\ outcome = "ok" => errors = 0

Success == TypeOK /\ Closing /\ Underway /\ Counted

LEMMA Carried ==
  ASSUME NEW u, NEW f, Carries(u, f)
  PROVE  uploader[u].doing \in {"putting", "failing"} /\ uploader[u].file = f
<1>1. CASE uploader[u] = Failing(f)
  BY <1>1 DEF Failing
<1>2. CASE \E k \in 1..MaxRetries : uploader[u] = Putting(f, k)
  BY <1>2 DEF Putting
<1>3. QED
  BY <1>1, <1>2 DEF Carries

\* What an uploader still carries after a step of another one.
LEMMA OthersCarry ==
  ASSUME TypeOK, NEW u \in Uploaders, NEW v \in Uploaders, NEW f, NEW what,
         Becomes(u, what), Carries(v, f), v # u
  PROVE  Carries(v, f)'
BY DEF TypeOK, Becomes, Carries

\* A step of u that hands its file on or stores it.
LEMMA UnderwayKept ==
  ASSUME TypeOK, Underway, NEW u \in Uploaders, NEW what, Becomes(u, what),
         UNCHANGED <<walker, next>>, stored \subseteq stored',
         errors' = 0 /\ ~cancelled' => errors = 0 /\ ~cancelled,
         errors' = 0 /\ ~cancelled' =>
           \A f \in Files : Carries(u, f) => f \in stored' \/ Carries(u, f)'
  PROVE  Underway'
<1> SUFFICES ASSUME errors' = 0, ~cancelled'
             PROVE  /\ \A i \in 1..(next' - 1) : Walk[i] \in stored' \/ \E v \in Uploaders : Carries(v, Walk[i])'
                    /\ walker' = "closed" => next' = Len(Walk) + 1
  BY DEF Underway
<1>1. errors = 0 /\ ~cancelled
  OBVIOUS
<1>2. walker' = "closed" => next' = Len(Walk) + 1
  BY <1>1 DEF Underway
<1>3. ASSUME NEW i \in 1..(next' - 1)
      PROVE  Walk[i] \in stored' \/ \E v \in Uploaders : Carries(v, Walk[i])'
  <2>1. i \in 1..(next - 1) /\ Walk[i] \in Files
    <3>1. i \in 1..Len(Walk)
      BY UploadAssumption DEF TypeOK
    <3>2. QED
      BY <3>1, WalkFile
  <2>2. CASE Walk[i] \in stored
    BY <2>2
  <2>3. CASE \E v \in Uploaders : Carries(v, Walk[i])
    <3>1. PICK v \in Uploaders : Carries(v, Walk[i])
      BY <2>3
    <3>2. CASE v = u
      BY <3>1, <3>2, <2>1
    <3>3. CASE v # u
      BY <3>1, <3>3, OthersCarry
    <3>4. QED
      BY <3>2, <3>3
  <2>4. QED
    BY <1>1, <2>1, <2>2, <2>3 DEF Underway
<1>4. QED
  BY <1>2, <1>3

LEMMA UploaderUnderway ==
  ASSUME TypeOK, Underway, NEW u \in Uploaders,
         \/ HandOver(u) \/ OpenFails(u) \/ PutSucceeds(u)
         \/ PutFails(u) \/ UploaderReports(u) \/ UploaderDone(u)
  PROVE  Underway'
<1>1. CASE HandOver(u)
  <2> SUFFICES ASSUME errors' = 0, ~cancelled'
               PROVE  /\ \A i \in 1..(next' - 1) : Walk[i] \in stored' \/ \E v \in Uploaders : Carries(v, Walk[i])'
                      /\ walker' # "closed"
    BY DEF Underway
  <2>1. errors = 0 /\ ~cancelled /\ walker' # "closed"
    BY <1>1 DEF HandOver
  <2>2. ASSUME NEW i \in 1..(next' - 1)
        PROVE  Walk[i] \in stored' \/ \E v \in Uploaders : Carries(v, Walk[i])'
    <3>1. CASE i = next
      <4>1. uploader'[u] = Putting(Walk[next], 1)
        BY <1>1 DEF HandOver, Becomes, TypeOK
      <4>2. 1 \in 1..MaxRetries
        BY UploadAssumption
      <4>3. QED
        BY <3>1, <4>1, <4>2 DEF Carries
    <3>2. CASE i # next
      <4>1. i \in 1..(next - 1)
        BY <1>1, <3>2 DEF HandOver, TypeOK
      <4>2. CASE Walk[i] \in stored
        BY <1>1, <4>2 DEF HandOver
      <4>3. CASE \E v \in Uploaders : Carries(v, Walk[i])
        <5>1. PICK v \in Uploaders : Carries(v, Walk[i])
          BY <4>3
        <5>2. v # u
          BY <1>1, <5>1, Carried DEF HandOver, Idle
        <5>3. QED
          BY <1>1, <5>1, <5>2, OthersCarry DEF HandOver
      <4>4. QED
        BY <2>1, <4>1, <4>2, <4>3 DEF Underway
    <3>3. QED
      BY <3>1, <3>2
  <2>3. QED
    BY <2>1, <2>2
<1>2. CASE OpenFails(u)
  <2>1. uploader'[u] = Failing(uploader[u].file)
    BY <1>2 DEF OpenFails, Becomes, TypeOK
  <2>2. \A f : Carries(u, f) => Carries(u, f)'
    BY <2>1, Carried DEF Carries
  <2>3. QED
    BY <1>2, <2>2, UnderwayKept DEF OpenFails
<1>3. CASE PutSucceeds(u)
  <2>1. \A f : Carries(u, f) => f \in stored'
    BY <1>3, Carried DEF PutSucceeds
  <2>2. QED
    BY <1>3, <2>1, UnderwayKept DEF PutSucceeds
<1>4. CASE PutFails(u)
  <2>1. PICK f \in Files, k \in 1..MaxRetries : uploader[u] = Putting(f, k)
    BY <1>4, Busy DEF PutFails
  <2>2. uploader[u].file = f /\ uploader[u].attempt = k
    BY <2>1 DEF Putting
  <2>3. PICK what : /\ Becomes(u, what)
                    /\ what = IF k < MaxRetries THEN Putting(f, k + 1) ELSE Failing(f)
    BY <1>4, <2>2 DEF PutFails
  <2>4. uploader'[u] = what
    BY <2>3 DEF Becomes, TypeOK
  <2>5. Carries(u, f)'
    <3>1. CASE k < MaxRetries
      <4>1. k + 1 \in 1..MaxRetries
        BY <3>1, UploadAssumption
      <4>2. QED
        BY <2>3, <2>4, <3>1, <4>1 DEF Carries
    <3>2. CASE ~(k < MaxRetries)
      BY <2>3, <2>4, <3>2 DEF Carries
    <3>3. QED
      BY <3>1, <3>2
  <2>6. \A g : Carries(u, g) => g = f
    BY <2>2, Carried
  <2>7. stored \subseteq stored' /\ UNCHANGED <<walker, next, cancelled, errors>>
    BY <1>4 DEF PutFails
  <2>8. QED
    BY <2>3, <2>5, <2>6, <2>7, UnderwayKept
<1>5. CASE UploaderReports(u)
  <2>1. ~(errors' = 0 /\ ~cancelled')
    BY <1>5 DEF UploaderReports, TypeOK
  <2>2. QED
    BY <2>1 DEF Underway
<1>6. CASE UploaderDone(u)
  <2>1. \A f : ~Carries(u, f)
    BY <1>6, Carried DEF UploaderDone, Idle
  <2>2. QED
    BY <1>6, <2>1, UnderwayKept DEF UploaderDone
<1>7. QED
  BY <1>1, <1>2, <1>3, <1>4, <1>5, <1>6

LEMMA UnderwayStep == TypeOK /\ Underway /\ [Next]_vars => Underway'
<1> SUFFICES ASSUME TypeOK, Underway, [Next]_vars PROVE Underway'
  OBVIOUS
<1>1. ASSUME NEW u \in Uploaders,
             \/ HandOver(u) \/ OpenFails(u) \/ PutSucceeds(u)
             \/ PutFails(u) \/ UploaderReports(u) \/ UploaderDone(u)
      PROVE  Underway'
  BY <1>1, UploaderUnderway
<1>2. CASE WalkFails
  BY <1>2 DEF WalkFails, Underway, Carries
<1>3. CASE WalkDone
  <2>1. next = Len(Walk) + 1
    BY <1>3, UploadAssumption DEF WalkDone, TypeOK
  <2>2. QED
    BY <1>3, <2>1 DEF WalkDone, Underway, Carries
<1>4. CASE WalkerReports
  <2>1. ~(errors' = 0 /\ ~cancelled')
    BY <1>4 DEF WalkerReports, TypeOK
  <2>2. QED
    BY <2>1 DEF Underway
<1>5. CASE CloseResults \/ Return
  BY <1>5 DEF CloseResults, Return, Underway, Carries
<1>6. CASE Cancel
  BY <1>6 DEF Cancel, Underway
<1>7. CASE UNCHANGED vars
  BY <1>7 DEF vars, Underway, Carries
<1>8. QED
  BY <1>1, <1>2, <1>3, <1>4, <1>5, <1>6, <1>7 DEF Next, Finished

\* Nobody reports an error any more when the call has returned.
LEMMA CountedStep == TypeOK /\ Closing /\ Counted /\ [Next]_vars => Counted'
<1> SUFFICES ASSUME TypeOK, Closing, Counted, [Next]_vars PROVE Counted'
  OBVIOUS
<1> USE DEF Counted
<1>1. ASSUME NEW u \in Uploaders, UploaderReports(u) PROVE Counted'
  <2>1. results # "closed"
    BY <1>1 DEF UploaderReports, Closing, NothingLeftBehind, Gone
  <2>2. outcome = "none"
    BY <2>1
  <2>3. QED
    BY <1>1, <2>2 DEF UploaderReports
<1>2. CASE WalkerReports
  <2>1. results # "closed"
    BY <1>2 DEF WalkerReports, Closing, NothingLeftBehind
  <2>2. outcome = "none"
    BY <2>1
  <2>3. QED
    BY <1>2, <2>2 DEF WalkerReports
<1>3. CASE CloseResults
  BY <1>3 DEF CloseResults
<1>4. CASE Return
  BY <1>4 DEF Return, TypeOK
<1>5. ASSUME UNCHANGED <<errors, results, outcome>> PROVE Counted'
  BY <1>5
<1>6. ASSUME NEW u \in Uploaders,
             HandOver(u) \/ OpenFails(u) \/ PutSucceeds(u) \/ PutFails(u) \/ UploaderDone(u)
      PROVE  Counted'
  BY <1>5, <1>6 DEF HandOver, OpenFails, PutSucceeds, PutFails, UploaderDone
<1>7. CASE WalkFails \/ WalkDone \/ Cancel \/ UNCHANGED vars
  BY <1>5, <1>7 DEF WalkFails, WalkDone, Cancel, vars
<1>8. QED
  BY <1>1, <1>2, <1>3, <1>4, <1>6, <1>7 DEF Next, Finished

LEMMA InitSuccess == Init => Success
<1> SUFFICES ASSUME Init PROVE Success
  OBVIOUS
<1>1. Underway
  BY DEF Init, Underway
<1>2. QED
  BY <1>1, InitType, InitClosing DEF Init, Counted, Success

LEMMA SuccessStep == Success /\ [Next]_vars => Success'
BY TypeStep, ClosingStep, UnderwayStep, CountedStep DEF Success

LEMMA AllStored == Success => SuccessMeansStored
<1> SUFFICES ASSUME Success, outcome = "ok", ~cancelled PROVE stored = Files
  BY DEF SuccessMeansStored
<1>1. errors = 0 /\ walker = "closed" /\ \A u \in Uploaders : uploader[u] = Gone
  BY DEF Success, Counted, Closing, NothingLeftBehind
<1>2. \A u \in Uploaders : \A f : ~Carries(u, f)
  BY <1>1, KindsDiffer DEF Carries
<1>3. \A i \in 1..Len(Walk) : Walk[i] \in stored
  BY <1>1, <1>2, UploadAssumption DEF Success, Underway
<1>4. QED
  BY <1>3 DEF Success, TypeOK, Files

\* A call that returns nil on a context that was not cancelled has stored every
\* file of the directory: no error is lost on its way to the caller.
THEOREM SuccessStored == Spec => []SuccessMeansStored
<1>1. QED
  BY InitSuccess, SuccessStep, AllStored, PTL DEF Spec

=============================================================================
