------------------------------ MODULE JobLease ------------------------------
(***************************************************************************)
(* What the lock:<id> keys promise, without goroutines and channels: a     *)
(* claim on a job is made while the job's lease is free, is worked on at   *)
(* most once, ends once, and two claims on one job coexist only after the  *)
(* lease of one of them lapsed.  The lease outlives the claim: nothing     *)
(* gives it back when the work is over, it only runs out.                  *)
(* JobDispatch implements this specification.                              *)
(***************************************************************************)
CONSTANTS Claims, Jobs, JobOfClaim, Free

VARIABLES
  phase,   \* [Claims -> Phases]
  lease,   \* [Jobs -> Claims \cup {Free}]
  lapsed   \* claims whose lease was taken from under them

leaseVars == <<phase, lease, lapsed>>

Phases == {"idle", "owned", "begun", "over", "returned"}

LeaseInit ==
  /\ phase = [c \in Claims |-> "idle"]
  /\ lease = [j \in Jobs |-> Free]
  /\ lapsed = {}

Acquire(c) ==
  /\ phase[c] = "idle" /\ lease[JobOfClaim[c]] = Free
  /\ phase' = [phase EXCEPT ![c] = "owned"]
  /\ lease' = [lease EXCEPT ![JobOfClaim[c]] = c]
  /\ UNCHANGED lapsed

\* The lease is taken for a claim that never learns of it.
Misfire(c) ==
  /\ phase[c] = "idle" /\ lease[JobOfClaim[c]] = Free
  /\ lease' = [lease EXCEPT ![JobOfClaim[c]] = c]
  /\ UNCHANGED <<phase, lapsed>>

Begin(c) ==
  /\ phase[c] = "owned"
  /\ phase' = [phase EXCEPT ![c] = "begun"]
  /\ UNCHANGED <<lease, lapsed>>

\* The claims C end together (a process takes all of its own with it).
End(C) ==
  /\ \A c \in C : phase[c] \in {"owned", "begun"}
  /\ phase' = [c \in Claims |-> IF c \in C THEN "over" ELSE phase[c]]
  /\ UNCHANGED <<lease, lapsed>>

\* A claim returned unused frees the lease, whoever holds it by now.
GiveBack(c) ==
  /\ phase[c] = "owned"
  /\ phase' = [phase EXCEPT ![c] = "returned"]
  /\ lease' = [lease EXCEPT ![JobOfClaim[c]] = Free]
  /\ lapsed' = lapsed \cup ({lease[JobOfClaim[c]]} \ {Free, c})

Lapse(j) ==
  /\ lease[j] # Free
  /\ lapsed' = lapsed \cup {lease[j]}
  /\ lease' = [lease EXCEPT ![j] = Free]
  /\ UNCHANGED phase

LeaseNext ==
  \/ \E c \in Claims : Acquire(c) \/ Misfire(c) \/ Begin(c) \/ GiveBack(c)
  \/ \E C \in SUBSET Claims : End(C)
  \/ \E j \in Jobs : Lapse(j)

LeaseSpec == LeaseInit /\ [][LeaseNext]_leaseVars

=============================================================================
