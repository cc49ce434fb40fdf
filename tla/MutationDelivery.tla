-------------------------- MODULE MutationDelivery --------------------------
(***************************************************************************)
(* How a batch of mutations that is sent again and again is applied once:  *)
(* the board's mutation lock (a chain of promises in each process, and a   *)
(* Redis key with a lease around them), and the claim of every mutation id *)
(* before its change is applied.  An attempt is one delivery of the batch  *)
(* 1..BatchSize; all of them carry the same ids.  An attempt fails with an *)
(* error that makes the client send the batch again, or dies with its      *)
(* process.  What a mutation does to the board is in MutationBatch.        *)
(***************************************************************************)
EXTENDS Integers, Sequences, FiniteSets

CONSTANTS
  Attempts, BatchSize,
  Processes, ProcessOf,  \* where each attempt arrives
  MaxUpsets,             \* bound on errors, stalls, crashes, expiries and evictions
  NoAttempt

ASSUME DeliveryConstants ==
  /\ BatchSize \in Nat \ {0} /\ MaxUpsets \in Nat
  /\ ProcessOf \in [Attempts -> Processes]
  /\ NoAttempt \notin Attempts

Batch == 1..BatchSize

VARIABLES
  step,       \* where each attempt is
  at,         \* the mutation it is at
  claiming,   \* it has claimed that mutation and not yet applied it
  outcome,    \* what the client will be told
  localLocks, \* per process, the attempts in the order of their promises
  lockBy,     \* whose token the Redis key of the lock holds
  keyless,    \* attempts that lost the key: their lease ended, or it was deleted
  seen,       \* mutation ids that are claimed
  applied,    \* how often each mutation has been applied
  dropped,    \* mutations whose claim outlived a failure to apply them
  forgotten,  \* how often a claim was forgotten
  upsets

deliveryVars == <<step, at, claiming, outcome, localLocks, lockBy, keyless, seen,
                  applied, dropped, forgotten, upsets>>

Final == {"done", "failed", "dead"}
InLock == {a \in Attempts : step[a] \in {"work", "leave"}}

(* Types of the state. *)
DeliveryTypeOK ==
  /\ step \in [Attempts -> {"new", "local", "acquire", "work", "leave"} \cup Final]
  /\ at \in [Attempts -> 1..(BatchSize + 1)]
  /\ claiming \in [Attempts -> BOOLEAN]
  /\ outcome \in [Attempts -> {"done", "failed"}]
  /\ localLocks \in [Processes -> Seq(Attempts)]
  /\ lockBy \in Attempts \cup {NoAttempt} /\ keyless \subseteq Attempts
  /\ seen \subseteq Batch /\ dropped \subseteq Batch
  /\ applied \in [Batch -> Nat] /\ forgotten \in [Batch -> Nat]
  /\ upsets \in 0..MaxUpsets

DeliveryInit ==
  /\ step = [a \in Attempts |-> "new"]
  /\ at = [a \in Attempts |-> 1]
  /\ claiming = [a \in Attempts |-> FALSE]
  /\ outcome = [a \in Attempts |-> "done"]
  /\ localLocks = [n \in Processes |-> <<>>]
  /\ lockBy = NoAttempt /\ keyless = {}
  /\ seen = {} /\ dropped = {}
  /\ applied = [m \in Batch |-> 0] /\ forgotten = [m \in Batch |-> 0]
  /\ upsets = 0

Upset == upsets < MaxUpsets /\ upsets' = upsets + 1

-----------------------------------------------------------------------------
(* The lock *)

Deliver(a) ==
  /\ step[a] = "new"
  /\ step' = [step EXCEPT ![a] = "local"]
  /\ localLocks' = [localLocks EXCEPT ![ProcessOf[a]] = Append(@, a)]
  /\ UNCHANGED <<at, claiming, outcome, lockBy, keyless, seen, applied, dropped,
                 forgotten, upsets>>

withLocalLock(a) ==
  /\ step[a] = "local" /\ Head(localLocks[ProcessOf[a]]) = a
  /\ step' = [step EXCEPT ![a] = "acquire"]
  /\ UNCHANGED <<at, claiming, outcome, localLocks, lockBy, keyless, seen, applied,
                 dropped, forgotten, upsets>>

acquireMutationLock(a) ==
  /\ step[a] = "acquire" /\ lockBy = NoAttempt
  /\ lockBy' = a
  /\ step' = [step EXCEPT ![a] = "work"]
  /\ UNCHANGED <<at, claiming, outcome, localLocks, keyless, seen, applied, dropped,
                 forgotten, upsets>>

LeaveChain(a) == localLocks' = [localLocks EXCEPT ![ProcessOf[a]] = Tail(@)]

(* Mutated form of AcquireTimesOut: the promise is not resolved. *)
AcquireTimesOutKeeping(a) ==
  /\ step[a] = "acquire" /\ lockBy # NoAttempt
  /\ step' = [step EXCEPT ![a] = "failed"]
  /\ UNCHANGED <<at, claiming, outcome, localLocks, lockBy, keyless, seen, applied,
                 dropped, forgotten, upsets>>

(* The 503 after BOARD_MUTATION_LOCK_ACQUIRE_TIMEOUT_MS. *)
AcquireTimesOut(a) ==
  /\ step[a] = "acquire" /\ lockBy # NoAttempt
  /\ step' = [step EXCEPT ![a] = "failed"]
  /\ LeaveChain(a)
  /\ UNCHANGED <<at, claiming, outcome, lockBy, keyless, seen, applied, dropped,
                 forgotten, upsets>>

(* The lease ends: the holder is dead, or its renewals were late.  The     *)
(* holder is not told, and its later renewals find another token.          *)
LeaseEnds ==
  /\ lockBy # NoAttempt
  /\ IF step[lockBy] = "dead" THEN UNCHANGED upsets ELSE Upset
  /\ lockBy' = NoAttempt /\ keyless' = keyless \cup {lockBy}
  /\ UNCHANGED <<step, at, claiming, outcome, localLocks, seen, applied, dropped,
                 forgotten>>

(* Mutated form of releaseMutationLock: the token is not compared. *)
ReleaseAnyToken(a) ==
  /\ step[a] = "leave"
  /\ lockBy' = NoAttempt
  /\ LeaveChain(a)
  /\ step' = [step EXCEPT ![a] = outcome[a]]
  /\ UNCHANGED <<at, claiming, outcome, keyless, seen, applied, dropped, forgotten, upsets>>

(* The finally blocks, and the answer. *)
releaseMutationLock(a) ==
  /\ step[a] = "leave"
  /\ lockBy' = IF lockBy = a THEN NoAttempt ELSE lockBy
  /\ LeaveChain(a)
  /\ step' = [step EXCEPT ![a] = outcome[a]]
  /\ UNCHANGED <<at, claiming, outcome, keyless, seen, applied, dropped, forgotten, upsets>>

-----------------------------------------------------------------------------
(* processBatch *)

AtMutation(a) == step[a] = "work" /\ at[a] \in Batch

(* Mutated form of tryMarkSeen: a claim counts once the change is made. *)
MarkSeenLate(a) ==
  /\ AtMutation(a) /\ ~claiming[a]
  /\ IF at[a] \in seen /\ applied[at[a]] > 0
     THEN at' = [at EXCEPT ![a] = @ + 1] /\ UNCHANGED <<claiming, seen>>
     ELSE /\ claiming' = [claiming EXCEPT ![a] = TRUE]
          /\ seen' = seen \cup {at[a]}
          /\ UNCHANGED at
  /\ UNCHANGED <<step, outcome, localLocks, lockBy, keyless, applied, dropped, forgotten,
                 upsets>>

(* Mutated form of tryMarkSeen: the loop runs past the end of the batch. *)
MarkSeenPastEnd(a) ==
  /\ step[a] = "work" /\ ~claiming[a]
  /\ IF at[a] \in seen
     THEN at' = [at EXCEPT ![a] = @ + 1] /\ UNCHANGED <<claiming, seen>>
     ELSE /\ claiming' = [claiming EXCEPT ![a] = TRUE]
          /\ seen' = seen \cup {at[a]}
          /\ UNCHANGED at
  /\ UNCHANGED <<step, outcome, localLocks, lockBy, keyless, applied, dropped, forgotten,
                 upsets>>

(* SET NX of the id; one that is there is answered already_applied. *)
tryMarkSeen(a) ==
  /\ AtMutation(a) /\ ~claiming[a]
  /\ IF at[a] \in seen
     THEN at' = [at EXCEPT ![a] = @ + 1] /\ UNCHANGED <<claiming, seen>>
     ELSE /\ claiming' = [claiming EXCEPT ![a] = TRUE]
          /\ seen' = seen \cup {at[a]}
          /\ UNCHANGED at
  /\ UNCHANGED <<step, outcome, localLocks, lockBy, keyless, applied, dropped, forgotten,
                 upsets>>

ApplyClaimed(a) ==
  /\ AtMutation(a) /\ claiming[a]
  /\ applied' = [applied EXCEPT ![at[a]] = @ + 1]
  /\ claiming' = [claiming EXCEPT ![a] = FALSE]
  /\ at' = [at EXCEPT ![a] = @ + 1]
  /\ UNCHANGED <<step, outcome, localLocks, lockBy, keyless, seen, dropped, forgotten,
                 upsets>>

Fails(a) == /\ step' = [step EXCEPT ![a] = "leave"]
            /\ outcome' = [outcome EXCEPT ![a] = "failed"]

(* applyChangeSet throws, with the change made or not; the claim stays. *)
ApplyFails(a) ==
  /\ AtMutation(a) /\ claiming[a] /\ Upset /\ Fails(a)
  /\ claiming' = [claiming EXCEPT ![a] = FALSE]
  /\ \/ applied' = [applied EXCEPT ![at[a]] = @ + 1] /\ UNCHANGED dropped
     \/ dropped' = dropped \cup {at[a]} /\ UNCHANGED applied
  /\ UNCHANGED <<at, localLocks, lockBy, keyless, seen, forgotten>>

(* After the last mutation: the write to Postgres of a solo board, which   *)
(* may fail, and the write mode's marker.                                  *)
FinishBatch(a) ==
  /\ step[a] = "work" /\ at[a] = BatchSize + 1
  /\ \/ step' = [step EXCEPT ![a] = "leave"] /\ UNCHANGED <<outcome, upsets>>
     \/ Upset /\ Fails(a)
  /\ UNCHANGED <<at, claiming, localLocks, lockBy, keyless, seen, applied, dropped,
                 forgotten>>

-----------------------------------------------------------------------------
(* A process dies with its promises; the key of the lock stays. *)
ProcessDies(n) ==
  LET gone == {a \in Attempts : ProcessOf[a] = n /\ step[a] \notin Final \cup {"new"}} IN
  /\ gone # {} /\ Upset
  /\ step' = [a \in Attempts |-> IF a \in gone THEN "dead" ELSE step[a]]
  /\ claiming' = [a \in Attempts |-> IF a \in gone THEN FALSE ELSE claiming[a]]
  /\ dropped' = dropped \cup {at[a] : a \in {b \in gone : claiming[b]}}
  /\ localLocks' = [localLocks EXCEPT ![n] = <<>>]
  /\ UNCHANGED <<at, outcome, lockBy, keyless, seen, applied, forgotten>>

Forget(gone) ==
  /\ seen' = seen \ gone
  /\ forgotten' = [m \in Batch |-> forgotten[m] + IF m \in gone THEN 1 ELSE 0]

(* SEEN_TTL_SECONDS pass. *)
ClaimExpires(m) ==
  /\ m \in seen /\ Upset /\ Forget({m})
  /\ UNCHANGED <<step, at, claiming, outcome, localLocks, lockBy, keyless, applied, dropped>>

(* The board is taken for idle and evicted: the DEL takes every key that   *)
(* its scan found, claims and the lock of a live holder alike.             *)
BoardEvicted ==
  /\ Upset
  /\ \E gone \in SUBSET seen : Forget(gone)
  /\ \/ lockBy' = NoAttempt /\ keyless' = keyless \cup (Attempts \cap {lockBy})
     \/ UNCHANGED <<lockBy, keyless>>
  /\ UNCHANGED <<step, at, claiming, outcome, localLocks, applied, dropped>>

AttemptRuns(a) ==
  \/ withLocalLock(a) \/ acquireMutationLock(a) \/ AcquireTimesOut(a)
  \/ tryMarkSeen(a) \/ ApplyClaimed(a) \/ FinishBatch(a) \/ releaseMutationLock(a)

DeliveryNext ==
  \/ \E a \in Attempts : Deliver(a) \/ AttemptRuns(a) \/ ApplyFails(a)
  \/ LeaseEnds
  \/ \E n \in Processes : ProcessDies(n)
  \/ \E m \in Batch : ClaimExpires(m)
  \/ BoardEvicted

(* A process that is alive goes on with what it has begun. *)
DeliverySpec == /\ DeliveryInit /\ [][DeliveryNext]_deliveryVars
                /\ WF_deliveryVars(\E a \in Attempts : AttemptRuns(a))

-----------------------------------------------------------------------------
(* Properties. *)

(* A mutation is applied once, however often it is sent and even when two  *)
(* attempts are in the lock at the same time, and once more only after its *)
(* claim was forgotten.                                                    *)
AppliedOnce == \A m \in Batch : applied[m] <= 1 + forgotten[m]

(* When a client is told that its batch is done, every mutation of it was  *)
(* applied, or is being applied by an attempt that claimed it before, or   *)
(* was lost when the attempt that claimed it failed: the claim is not      *)
(* taken back then, and the retry is told already_applied.                 *)
DoneMeansApplied ==
  \A a \in Attempts : step[a] = "done" =>
    \A m \in Batch : \/ applied[m] > 0
                     \/ m \in dropped
                     \/ \E b \in InLock : claiming[b] /\ at[b] = m

(* Retries are safe: nothing is applied twice, and what a client is told   *)
(* is done was not forgotten.                                              *)
DeliveredOnce == AppliedOnce /\ DoneMeansApplied

(* Two attempts are in the lock at the same time only if one lost its key  *)
(* to the end of its lease or to an eviction: an attempt that lost the key *)
(* does not free it for a third.                                           *)
LockSafeForHolders == Cardinality(InLock \ keyless) <= 1

(* Nor does a lost key let two attempts of one process into the lock:      *)
(* there the promises keep the order, whatever fails, times out or is      *)
(* slow.                                                                   *)
ProcessIsSerial ==
  \A a, b \in InLock : ProcessOf[a] = ProcessOf[b] => a = b

(* The lock excludes: across processes within the lease, and inside a      *)
(* process always.                                                         *)
LockExcludes == LockSafeForHolders /\ ProcessIsSerial

(* Every attempt that arrives comes to an end: no waiter of a process'     *)
(* chain is forgotten when the one before it fails or times out.           *)
EveryAttemptEnds ==
  \A a \in Attempts : step[a] = "local" ~> step[a] \in Final

=============================================================================
