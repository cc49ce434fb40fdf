--------------------------- MODULE RealtimeProofs ---------------------------
(***************************************************************************)
(* Mutations that are delivered, what viewers see of a board, and what     *)
(* becomes of the moves of dragged elements, for any number of attempts,   *)
(* processes, viewers, batches, sockets, nodes and moves.                  *)
(*                                                                         *)
(* The mutation lock is exclusive within its lease and in every process; a *)
(* mutation is applied at most once between two times its claim is         *)
(* forgotten; a batch that is answered as done left no mutation behind.    *)
(* ViewersSeeTheBoard speaks of viewers that have their snapshot; it is    *)
(* inductive once it covers the time between reading and sending it, when  *)
(* what the viewer will know is what it received, what is on the wire and  *)
(* what the join holds in its hand.  MovesSafe is inductive once it says   *)
(* that a move is in ONE of its places, and in that one once.              *)
(***************************************************************************)
EXTENDS MutationDelivery, RoomBroadcast, MoveBuffers, FiniteSetTheorems, TLAPS

(* An attempt is in the chain of its process until it ends, and in front   *)
(* of it from when its turn comes.                                         *)
Chain(a) == localLocks[ProcessOf[a]]
ChainInv ==
  /\ \A a \in Attempts : step[a] \in {"local", "acquire", "work", "leave"}
       => \E i \in 1..Len(Chain(a)) : Chain(a)[i] = a
  /\ \A a \in Attempts : step[a] \in {"acquire", "work", "leave"} => Chain(a)[1] = a

(* An attempt in the lock that did not lose the key owns it. *)
LeaseInv == \A a \in InLock \ keyless : lockBy = a

(* A claim lasts until the change is made or known to be lost. *)
Kept(m) == \/ applied[m] > 0
              \/ m \in dropped
              \/ \E b \in InLock : claiming[b] /\ at[b] = m

(* A claim is for the mutation an attempt is at. *)
ClaimInv == \A a \in Attempts : claiming[a] => step[a] = "work" /\ at[a] \in Batch

(* Whoever is past a mutation left it covered. *)
CoverInv ==
  /\ \A m \in seen : Kept(m)
  /\ \A a \in Attempts, m \in Batch : m < at[a] => Kept(m)
  /\ \A a \in Attempts :
       step[a] = "done" \/ (step[a] = "leave" /\ outcome[a] = "done")
         => at[a] = BatchSize + 1

(* Every application was paid for with a claim: those that were forgotten, *)
(* and the one that may be there now.                                      *)
Claimers(m) == {a \in Attempts : claiming[a] /\ at[a] = m}
Claimed(m) == IF m \in seen THEN 1 ELSE 0
CountInv ==
  \A m \in Batch : /\ IsFiniteSet(Claimers(m))
                   /\ applied[m] + Cardinality(Claimers(m)) <= forgotten[m] + Claimed(m)

-----------------------------------------------------------------------------
(* Types and chains. *)

LEMMA DeliveryTypeInit == DeliveryInit => DeliveryTypeOK /\ ChainInv
  BY DeliveryConstants DEF DeliveryInit, DeliveryTypeOK, ChainInv, Batch, Final

LEMMA TailKeeps ==
  \A s \in Seq(Attempts), x \in Attempts :
    s[1] # x /\ (\E i \in 1..Len(s) : s[i] = x)
      => \E j \in 1..Len(Tail(s)) : Tail(s)[j] = x
<1> SUFFICES ASSUME NEW s \in Seq(Attempts), NEW x \in Attempts, s[1] # x,
                    NEW i \in 1..Len(s), s[i] = x
             PROVE  \E j \in 1..Len(Tail(s)) : Tail(s)[j] = x
  OBVIOUS
<1>1. i # 1 /\ i \in Nat /\ Len(s) \in Nat OBVIOUS
<1>2. Len(Tail(s)) = Len(s) - 1 /\ Tail(s)[i - 1] = s[i] BY <1>1
<1> QED BY <1>1, <1>2

(* Whoever leaves is in front, and nobody else of its process is past it.  *)
LEMMA LeavingKeepsChains ==
  ASSUME DeliveryTypeOK, ChainInv, NEW a \in Attempts,
         step[a] \in {"acquire", "leave"}, LeaveChain(a),
         NEW s \in Final, step' = [step EXCEPT ![a] = s]
  PROVE  ChainInv' /\ localLocks' \in [Processes -> Seq(Attempts)]
<1> DEFINE n == ProcessOf[a]
<1> USE DeliveryConstants DEF DeliveryTypeOK
<1>1. n \in Processes /\ localLocks[n] \in Seq(Attempts) OBVIOUS
<1>2. localLocks[n] # <<>> /\ localLocks[n][1] = a BY <1>1 DEF ChainInv, Chain
<1>3. localLocks' = [localLocks EXCEPT ![n] = Tail(localLocks[n])] BY DEF LeaveChain
<1>4. Tail(localLocks[n]) \in Seq(Attempts) BY <1>1, <1>2
<1>5. localLocks' \in [Processes -> Seq(Attempts)] BY <1>1, <1>3, <1>4
<1>6. ASSUME NEW b \in Attempts, step'[b] \in {"local", "acquire", "work", "leave"}
      PROVE  /\ \E i \in 1..Len(Chain(b)') : Chain(b)'[i] = b
             /\ step'[b] \in {"acquire", "work", "leave"} => Chain(b)'[1] = b
  <2>1. b # a /\ step'[b] = step[b] BY <1>6 DEF Final
  <2>2. \E i \in 1..Len(Chain(b)) : Chain(b)[i] = b BY <1>6, <2>1 DEF ChainInv
  <2>3. CASE ProcessOf[b] # n
    BY <1>1, <1>3, <1>6, <2>1, <2>2, <2>3 DEF Chain, ChainInv
  <2>4. CASE ProcessOf[b] = n
    <3>1. step[b] = "local" BY <1>2, <1>6, <2>1, <2>4 DEF Chain, ChainInv
    <3>2. Chain(b)' = Tail(localLocks[n]) BY <1>1, <1>3, <2>4 DEF Chain
    <3>3. PICK i \in 1..Len(localLocks[n]) : localLocks[n][i] = b BY <2>2, <2>4 DEF Chain
    <3>4. localLocks[n][1] # b BY <1>2, <2>1
    <3>5. \E j \in 1..Len(Tail(localLocks[n])) : Tail(localLocks[n])[j] = b
      BY <1>1, <3>3, <3>4, TailKeeps, Zenon
    <3> QED BY <2>1, <3>1, <3>2, <3>5
  <2> QED BY <2>3, <2>4
<1> QED BY <1>5, <1>6 DEF ChainInv

LEMMA ChainStep ==
  ASSUME DeliveryTypeOK, ChainInv, [DeliveryNext]_deliveryVars
  PROVE  ChainInv' /\ localLocks' \in [Processes -> Seq(Attempts)]
<1> USE DeliveryConstants DEF DeliveryTypeOK
<1>1. ASSUME NEW a \in Attempts, Deliver(a)
      PROVE  ChainInv' /\ localLocks' \in [Processes -> Seq(Attempts)]
  <2> DEFINE n == ProcessOf[a]
  <2>1. n \in Processes /\ localLocks[n] \in Seq(Attempts) OBVIOUS
  <2>2. localLocks' = [localLocks EXCEPT ![n] = Append(localLocks[n], a)]
        /\ step' = [step EXCEPT ![a] = "local"]
    BY <1>1 DEF Deliver
  <2>3. Append(localLocks[n], a) \in Seq(Attempts) BY <2>1
  <2>4. localLocks' \in [Processes -> Seq(Attempts)] BY <2>1, <2>2, <2>3
  <2>5. /\ Len(localLocks'[n]) = Len(localLocks[n]) + 1
        /\ localLocks'[n][Len(localLocks[n]) + 1] = a
        /\ \A i \in 1..Len(localLocks[n]) : localLocks'[n][i] = localLocks[n][i]
        /\ Len(localLocks[n]) \in Nat
    BY <2>1, <2>2
  <2>6. \A b \in Attempts : ProcessOf[b] # n => Chain(b)' = Chain(b)
    BY <2>2 DEF Chain
  <2>7. ASSUME NEW b \in Attempts, step'[b] \in {"local", "acquire", "work", "leave"}
        PROVE  /\ \E i \in 1..Len(Chain(b)') : Chain(b)'[i] = b
               /\ step'[b] \in {"acquire", "work", "leave"} => Chain(b)'[1] = b
    <3>1. CASE b = a BY <2>2, <2>5, <3>1 DEF Chain
    <3>2. CASE b # a /\ ProcessOf[b] # n BY <2>2, <2>6, <2>7, <3>2 DEF ChainInv
    <3>3. CASE b # a /\ ProcessOf[b] = n
      <4>1. step'[b] = step[b] BY <2>2, <3>3
      <4>2. PICK i \in 1..Len(localLocks[n]) : localLocks[n][i] = b
        BY <2>7, <3>3, <4>1 DEF ChainInv, Chain
      <4>3. Chain(b)' = localLocks'[n] BY <3>3 DEF Chain
      <4>4. 1 \in 1..Len(localLocks[n]) /\ i \in 1..Len(localLocks'[n]) BY <2>5, <4>2
      <4>5. step[b] \in {"acquire", "work", "leave"} => localLocks[n][1] = b
        BY <3>3 DEF ChainInv, Chain
      <4>6. localLocks'[n][1] = localLocks[n][1] /\ localLocks'[n][i] = b
        BY <2>5, <4>2, <4>4
      <4> QED BY <4>1, <4>3, <4>4, <4>5, <4>6
    <3> QED BY <3>1, <3>2, <3>3
  <2> QED BY <2>4, <2>7 DEF ChainInv
<1>2. ASSUME NEW a \in Attempts, withLocalLock(a)
      PROVE  ChainInv' /\ localLocks' \in [Processes -> Seq(Attempts)]
  <2>1. Chain(a) # <<>> /\ Chain(a) \in Seq(Attempts) BY <1>2 DEF withLocalLock, ChainInv, Chain
  <2>2. Chain(a)[1] = a BY <1>2, <2>1 DEF withLocalLock, Chain
  <2> QED BY <1>2, <2>2 DEF withLocalLock, ChainInv, Chain
<1>3. ASSUME NEW a \in Attempts, AcquireTimesOut(a)
      PROVE  ChainInv' /\ localLocks' \in [Processes -> Seq(Attempts)]
  BY <1>3, LeavingKeepsChains DEF AcquireTimesOut, Final
<1>4. ASSUME NEW a \in Attempts, releaseMutationLock(a)
      PROVE  ChainInv' /\ localLocks' \in [Processes -> Seq(Attempts)]
  <2>1. outcome[a] \in Final BY DEF Final
  <2> QED BY <1>4, <2>1, LeavingKeepsChains DEF releaseMutationLock
<1>5. ASSUME NEW n \in Processes, ProcessDies(n)
      PROVE  ChainInv' /\ localLocks' \in [Processes -> Seq(Attempts)]
  <2>1. localLocks' = [localLocks EXCEPT ![n] = <<>>] BY <1>5 DEF ProcessDies
  <2>2. \A b \in Attempts : step'[b] \in {"local", "acquire", "work", "leave"}
          => ProcessOf[b] # n /\ step'[b] = step[b]
    BY <1>5 DEF ProcessDies, Final
  <2> QED BY <2>1, <2>2 DEF ChainInv, Chain
<1>6. ASSUME NEW a \in Attempts, acquireMutationLock(a) \/ FinishBatch(a) \/ ApplyFails(a)
      PROVE  ChainInv' /\ localLocks' \in [Processes -> Seq(Attempts)]
  <2>1. /\ localLocks' = localLocks
        /\ \/ step[a] = "acquire" /\ step' = [step EXCEPT ![a] = "work"]
           \/ step[a] = "work" /\ step' = [step EXCEPT ![a] = "leave"]
    BY <1>6 DEF acquireMutationLock, FinishBatch, ApplyFails, AtMutation, Fails
  <2> QED BY <2>1 DEF ChainInv, Chain
<1>7. CASE step' = step /\ localLocks' = localLocks
  BY <1>7 DEF ChainInv, Chain
<1>8. ASSUME \/ \E a \in Attempts : tryMarkSeen(a) \/ ApplyClaimed(a)
             \/ LeaseEnds
             \/ \E m \in Batch : ClaimExpires(m)
             \/ BoardEvicted
             \/ UNCHANGED deliveryVars
      PROVE  step' = step /\ localLocks' = localLocks
  BY <1>8 DEF tryMarkSeen, ApplyClaimed, LeaseEnds, ClaimExpires, BoardEvicted, deliveryVars
<1> QED BY <1>1, <1>2, <1>3, <1>4, <1>5, <1>6, <1>7, <1>8 DEF DeliveryNext, AttemptRuns

LEMMA UpsetCounted ==
  ASSUME DeliveryTypeOK, Upset
  PROVE  upsets' \in 0..MaxUpsets
  BY DeliveryConstants DEF DeliveryTypeOK, Upset

LEMMA Applying ==
  ASSUME NEW k \in Batch, applied \in [Batch -> Nat],
         applied' = [applied EXCEPT ![k] = @ + 1]
  PROVE  /\ applied' \in [Batch -> Nat]
         /\ applied'[k] = applied[k] + 1
         /\ \A m \in Batch : applied'[m] >= applied[m]
<1>1. \A m \in Batch : applied[m] \in Nat OBVIOUS
<1>2. \A m \in Batch : applied'[m] = IF m = k THEN applied[m] + 1 ELSE applied[m]
  OBVIOUS
<1> QED BY <1>1, <1>2

LEMMA Advancing ==
  ASSUME DeliveryTypeOK, NEW a \in Attempts, at[a] \in Batch,
         at' = [at EXCEPT ![a] = @ + 1]
  PROVE  at' \in [Attempts -> 1..(BatchSize + 1)]
  BY DeliveryConstants DEF DeliveryTypeOK, Batch

LEMMA DeliveryTypeStep ==
  ASSUME DeliveryTypeOK, ChainInv, ClaimInv, [DeliveryNext]_deliveryVars
  PROVE  DeliveryTypeOK'
<1> DEFINE Others ==
      /\ step' \in [Attempts -> {"new", "local", "acquire", "work", "leave"} \cup Final]
      /\ at' \in [Attempts -> 1..(BatchSize + 1)]
      /\ claiming' \in [Attempts -> BOOLEAN]
      /\ outcome' \in [Attempts -> {"done", "failed"}]
      /\ lockBy' \in Attempts \cup {NoAttempt} /\ keyless' \subseteq Attempts
      /\ seen' \subseteq Batch /\ dropped' \subseteq Batch
      /\ applied' \in [Batch -> Nat] /\ forgotten' \in [Batch -> Nat]
      /\ upsets' \in 0..MaxUpsets
<1>1. localLocks' \in [Processes -> Seq(Attempts)] BY ChainStep
<1>2. Others
  <2> USE DeliveryConstants DEF DeliveryTypeOK, Batch, Final
  <2>1. ASSUME NEW a \in Attempts, Deliver(a) \/ withLocalLock(a) \/ acquireMutationLock(a)
        PROVE  Others
    BY <2>1 DEF Deliver, withLocalLock, acquireMutationLock
  <2>2. ASSUME NEW a \in Attempts, AcquireTimesOut(a) \/ releaseMutationLock(a)
        PROVE  Others
    BY <2>2 DEF AcquireTimesOut, releaseMutationLock
  <2>3. ASSUME NEW a \in Attempts, tryMarkSeen(a) PROVE Others
    <3>1. at[a] \in Batch BY <2>3 DEF tryMarkSeen, AtMutation
    <3>2. CASE at[a] \in seen
      <4>1. at' \in [Attempts -> 1..(BatchSize + 1)]
        BY <2>3, <3>1, <3>2, Advancing DEF tryMarkSeen
      <4> QED BY <2>3, <3>2, <4>1 DEF tryMarkSeen
    <3>3. CASE at[a] \notin seen
      BY <2>3, <3>1, <3>3 DEF tryMarkSeen
    <3> QED BY <3>2, <3>3
  <2>4. ASSUME NEW a \in Attempts, ApplyClaimed(a) PROVE Others
    <3>1. at[a] \in Batch BY <2>4 DEF ApplyClaimed, AtMutation
    <3>2. at' \in [Attempts -> 1..(BatchSize + 1)]
      BY <2>4, <3>1, Advancing DEF ApplyClaimed
    <3>3. applied' \in [Batch -> Nat] BY <2>4, <3>1 DEF ApplyClaimed
    <3> QED BY <2>4, <3>2, <3>3 DEF ApplyClaimed
  <2>5. ASSUME NEW a \in Attempts, ApplyFails(a) PROVE Others
    <3>1. at[a] \in Batch BY <2>5 DEF ApplyFails, AtMutation
    <3>2. applied' \in [Batch -> Nat] /\ dropped' \subseteq Batch
      <4>1. CASE applied' = [applied EXCEPT ![at[a]] = @ + 1] /\ dropped' = dropped
        BY <3>1, <4>1, Applying
      <4>2. CASE dropped' = dropped \cup {at[a]} /\ applied' = applied
        BY <3>1, <4>2
      <4> QED BY <2>5, <4>1, <4>2 DEF ApplyFails
    <3>3. upsets' \in 0..MaxUpsets BY <2>5, UpsetCounted DEF ApplyFails
    <3> QED BY <2>5, <3>2, <3>3 DEF ApplyFails, Fails
  <2>6. ASSUME NEW a \in Attempts, FinishBatch(a) PROVE Others
    <3>1. upsets' \in 0..MaxUpsets BY <2>6, UpsetCounted DEF FinishBatch
    <3> QED BY <2>6, <3>1 DEF FinishBatch, Fails
  <2>7. CASE LeaseEnds
    <3>1. upsets' \in 0..MaxUpsets BY <2>7, UpsetCounted DEF LeaseEnds
    <3> QED BY <2>7, <3>1 DEF LeaseEnds
  <2>8. ASSUME NEW n \in Processes, ProcessDies(n) PROVE Others
    <3>1. upsets' \in 0..MaxUpsets BY <2>8, UpsetCounted DEF ProcessDies
    <3>2. dropped' \subseteq Batch BY <2>8 DEF ProcessDies, ClaimInv
    <3>3. claiming' \in [Attempts -> BOOLEAN] BY <2>8 DEF ProcessDies
    <3>4. step' \in [Attempts -> {"new", "local", "acquire", "work", "leave"} \cup Final]
      BY <2>8 DEF ProcessDies
    <3> QED BY <2>8, <3>1, <3>2, <3>3, <3>4 DEF ProcessDies
  <2>9. ASSUME NEW m \in Batch, ClaimExpires(m) PROVE Others
    <3>1. upsets' \in 0..MaxUpsets BY <2>9, UpsetCounted DEF ClaimExpires
    <3>2. forgotten' \in [Batch -> Nat] BY <2>9 DEF ClaimExpires, Forget
    <3> QED BY <2>9, <3>1, <3>2 DEF ClaimExpires, Forget
  <2>11. CASE BoardEvicted
    <3>1. upsets' \in 0..MaxUpsets BY <2>11, UpsetCounted DEF BoardEvicted
    <3>2. forgotten' \in [Batch -> Nat] /\ seen' \subseteq Batch
      BY <2>11 DEF BoardEvicted, Forget
    <3> QED BY <2>11, <3>1, <3>2 DEF BoardEvicted
  <2>10. CASE UNCHANGED deliveryVars BY <2>10 DEF deliveryVars
  <2> QED BY <2>1, <2>2, <2>3, <2>4, <2>5, <2>6, <2>7, <2>8, <2>9, <2>10, <2>11
          DEF DeliveryNext, AttemptRuns
<1> QED BY <1>1, <1>2 DEF DeliveryTypeOK

-----------------------------------------------------------------------------
(* The lease. *)

LEMMA LeaseStep ==
  ASSUME DeliveryTypeOK, LeaseInv, [DeliveryNext]_deliveryVars
  PROVE  LeaseInv'
<1> USE DeliveryConstants DEF DeliveryTypeOK, LeaseInv, InLock
<1>1. ASSUME NEW a \in Attempts, Deliver(a) \/ withLocalLock(a) \/ AcquireTimesOut(a)
      PROVE  LeaseInv'
  BY <1>1 DEF Deliver, withLocalLock, AcquireTimesOut
<1>2. ASSUME NEW a \in Attempts, acquireMutationLock(a) PROVE LeaseInv'
  BY <1>2 DEF acquireMutationLock
<1>3. ASSUME NEW a \in Attempts, releaseMutationLock(a) PROVE LeaseInv'
  BY <1>3 DEF releaseMutationLock
<1>4. ASSUME NEW a \in Attempts,
             tryMarkSeen(a) \/ ApplyClaimed(a) \/ ApplyFails(a) \/ FinishBatch(a)
      PROVE  LeaseInv'
  BY <1>4 DEF tryMarkSeen, ApplyClaimed, ApplyFails, FinishBatch, AtMutation, Fails
<1>5. CASE LeaseEnds BY <1>5 DEF LeaseEnds
<1>6. ASSUME NEW n \in Processes, ProcessDies(n) PROVE LeaseInv'
  BY <1>6 DEF ProcessDies
<1>7. CASE (\E m \in Batch : ClaimExpires(m)) \/ UNCHANGED deliveryVars
  BY <1>7 DEF ClaimExpires, deliveryVars
<1>8. CASE BoardEvicted BY <1>8 DEF BoardEvicted
<1> QED BY <1>1, <1>2, <1>3, <1>4, <1>5, <1>6, <1>7, <1>8 DEF DeliveryNext, AttemptRuns

LEMMA LeaseGivesExclusion ==
  ASSUME DeliveryTypeOK, LeaseInv
  PROVE  LockSafeForHolders
<1>1. InLock \ keyless \subseteq {lockBy} BY DEF LeaseInv
<1>2. IsFiniteSet({lockBy}) /\ Cardinality({lockBy}) = 1 BY FS_Singleton
<1>3. Cardinality(InLock \ keyless) <= Cardinality({lockBy}) BY <1>1, <1>2, FS_Subset
<1> QED BY <1>2, <1>3 DEF LockSafeForHolders

LEMMA ChainGivesExclusion == ChainInv => ProcessIsSerial
  BY DEF ChainInv, Chain, ProcessIsSerial, InLock

-----------------------------------------------------------------------------
(* What the claims stand for. *)

LEMMA ClaimStep ==
  ASSUME DeliveryTypeOK, ClaimInv, [DeliveryNext]_deliveryVars
  PROVE  ClaimInv'
<1> USE DeliveryConstants DEF DeliveryTypeOK, ClaimInv
<1>1. ASSUME NEW a \in Attempts, Deliver(a) \/ withLocalLock(a) \/ AcquireTimesOut(a)
                                \/ acquireMutationLock(a) \/ releaseMutationLock(a)
      PROVE  ClaimInv'
  BY <1>1 DEF Deliver, withLocalLock, AcquireTimesOut, acquireMutationLock,
              releaseMutationLock
<1>2. ASSUME NEW a \in Attempts, tryMarkSeen(a) \/ ApplyClaimed(a) PROVE ClaimInv'
  BY <1>2 DEF tryMarkSeen, ApplyClaimed, AtMutation
<1>3. ASSUME NEW a \in Attempts, ApplyFails(a) PROVE ClaimInv'
  BY <1>3 DEF ApplyFails, AtMutation, Fails
<1>4. ASSUME NEW a \in Attempts, FinishBatch(a) PROVE ClaimInv'
  <2>1. ~claiming[a] BY <1>4 DEF FinishBatch, Batch
  <2> QED BY <1>4, <2>1 DEF FinishBatch, Fails
<1>5. ASSUME NEW n \in Processes, ProcessDies(n) PROVE ClaimInv'
  BY <1>5 DEF ProcessDies
<1>6. CASE \/ LeaseEnds \/ BoardEvicted \/ (\E m \in Batch : ClaimExpires(m))
           \/ UNCHANGED deliveryVars
  BY <1>6 DEF LeaseEnds, BoardEvicted, ClaimExpires, deliveryVars
<1> QED BY <1>1, <1>2, <1>3, <1>4, <1>5, <1>6 DEF DeliveryNext, AttemptRuns

(* Who claims m goes on claiming it until m is applied or given up. *)
LEMMA CoverStays ==
  ASSUME DeliveryTypeOK, ClaimInv, [DeliveryNext]_deliveryVars,
         NEW m \in Batch, Kept(m)
  PROVE  Kept(m)'
<1> USE DeliveryConstants DEF DeliveryTypeOK
<1>1. CASE applied[m] > 0
  <2>1. ASSUME NEW a \in Attempts, ApplyClaimed(a) \/ ApplyFails(a)
        PROVE  applied'[m] > 0
    <3>1. at[a] \in Batch BY <2>1 DEF ApplyClaimed, ApplyFails, AtMutation
    <3>2. applied' = applied \/ applied' = [applied EXCEPT ![at[a]] = @ + 1]
      BY <2>1 DEF ApplyClaimed, ApplyFails
    <3>3. applied'[m] >= applied[m] /\ applied'[m] \in Nat BY <3>1, <3>2, Applying
    <3> QED BY <1>1, <3>3
  <2>2. ASSUME applied' = applied PROVE applied'[m] > 0 BY <1>1, <2>2
  <2>3. applied'[m] > 0
    BY <2>1, <2>2
    DEF DeliveryNext, AttemptRuns, deliveryVars, Deliver, withLocalLock,
        acquireMutationLock, AcquireTimesOut, tryMarkSeen, FinishBatch,
        releaseMutationLock, LeaseEnds, ProcessDies, ClaimExpires, BoardEvicted
  <2> QED BY <2>3 DEF Kept
<1>2. CASE m \in dropped
  <2>1. dropped \subseteq dropped'
    BY DEF DeliveryNext, AttemptRuns, deliveryVars, Deliver, withLocalLock,
           acquireMutationLock, AcquireTimesOut, tryMarkSeen, ApplyClaimed, ApplyFails,
           FinishBatch, releaseMutationLock, LeaseEnds, ProcessDies, ClaimExpires, BoardEvicted
  <2> QED BY <1>2, <2>1 DEF Kept
<1>3. CASE \E b \in InLock : claiming[b] /\ at[b] = m
  <2>1. PICK b \in Attempts : claiming[b] /\ at[b] = m BY <1>3 DEF InLock
  <2>2. step[b] = "work" BY <2>1 DEF ClaimInv
  <2>3. CASE step'[b] = "work" /\ claiming'[b] /\ at'[b] = m
    BY <2>1, <2>3 DEF Kept, InLock
  <2>4. CASE ApplyClaimed(b) \/ ApplyFails(b)
    <3>1. \/ applied' = [applied EXCEPT ![m] = @ + 1]
          \/ dropped' = dropped \cup {m}
      BY <2>1, <2>4 DEF ApplyClaimed, ApplyFails
    <3>2. applied' = [applied EXCEPT ![m] = @ + 1] => applied'[m] > 0 OBVIOUS
    <3> QED BY <3>1, <3>2 DEF Kept
  <2>5. CASE \E n \in Processes : ProcessDies(n)
    <3>1. PICK n \in Processes : ProcessDies(n) BY <2>5
    <3>2. CASE ProcessOf[b] = n
      <4>1. m \in dropped' BY <2>1, <2>2, <3>1, <3>2 DEF ProcessDies, Final
      <4> QED BY <4>1 DEF Kept
    <3>3. CASE ProcessOf[b] # n
      BY <2>1, <2>2, <2>3, <3>1, <3>3 DEF ProcessDies
    <3> QED BY <3>2, <3>3
  <2>6. ASSUME NEW a \in Attempts, ~ApplyClaimed(b), ~ApplyFails(b),
               Deliver(a) \/ AttemptRuns(a) \/ ApplyFails(a)
        PROVE  step'[b] = "work" /\ claiming'[b] /\ at'[b] = m
    <3>1. CASE a = b
      BY <2>1, <2>2, <2>6, <3>1
      DEF AttemptRuns, Deliver, withLocalLock, acquireMutationLock, AcquireTimesOut,
          tryMarkSeen, FinishBatch, releaseMutationLock, Batch
    <3>2. CASE a # b
      BY <2>1, <2>2, <2>6, <3>2
      DEF AttemptRuns, Deliver, withLocalLock, acquireMutationLock, AcquireTimesOut,
          tryMarkSeen, ApplyClaimed, ApplyFails, FinishBatch, releaseMutationLock, Fails
    <3> QED BY <3>1, <3>2
  <2>7. CASE \/ LeaseEnds \/ BoardEvicted \/ (\E k \in Batch : ClaimExpires(k))
             \/ UNCHANGED deliveryVars
    BY <2>1, <2>2, <2>3, <2>7 DEF LeaseEnds, BoardEvicted, ClaimExpires, deliveryVars
  <2> QED BY <2>3, <2>4, <2>5, <2>6, <2>7 DEF DeliveryNext
<1> QED BY <1>1, <1>2, <1>3 DEF Kept

LEMMA CoverStep ==
  ASSUME DeliveryTypeOK, ClaimInv, CoverInv, [DeliveryNext]_deliveryVars
  PROVE  CoverInv'
<1> DEFINE Behind == \A a \in Attempts, m \in Batch : m < at'[a] => Kept(m)'
           Ended == \A a \in Attempts :
             step'[a] = "done" \/ (step'[a] = "leave" /\ outcome'[a] = "done")
               => at'[a] = BatchSize + 1
           Seen == \A m \in seen' : Kept(m)'
<1> USE DeliveryConstants DEF DeliveryTypeOK
<1>1. \A m \in Batch : Kept(m) => Kept(m)' BY CoverStays
<1>2. ASSUME NEW a \in Attempts, tryMarkSeen(a) PROVE Seen /\ Behind /\ Ended
  <2>1. at[a] \in Batch /\ ~claiming[a] /\ step' = step /\ outcome' = outcome
        /\ step[a] = "work"
    BY <1>2 DEF tryMarkSeen, AtMutation
  <2>2. CASE at[a] \in seen
    <3>1. seen' = seen /\ at' = [at EXCEPT ![a] = @ + 1] BY <1>2, <2>2 DEF tryMarkSeen
    <3>2. Kept(at[a]) BY <2>2 DEF CoverInv
    <3>3. \A m \in Batch : m < at[a] + 1 => Kept(m)
      BY <2>1, <3>2 DEF CoverInv, Batch
    <3>4. Behind BY <1>1, <2>1, <3>1, <3>3 DEF CoverInv
    <3>5. Ended BY <2>1, <3>1 DEF CoverInv
    <3> QED BY <1>1, <3>1, <3>4, <3>5 DEF CoverInv
  <2>3. CASE at[a] \notin seen
    <3>1. seen' = seen \cup {at[a]} /\ at' = at /\ claiming' = [claiming EXCEPT ![a] = TRUE]
      BY <1>2, <2>3 DEF tryMarkSeen
    <3>2. Kept(at[a])' BY <2>1, <3>1 DEF Kept, InLock
    <3> QED BY <1>1, <2>1, <3>1, <3>2 DEF CoverInv
  <2> QED BY <2>2, <2>3
<1>3. ASSUME NEW a \in Attempts, ApplyClaimed(a) PROVE Seen /\ Behind /\ Ended
  <2>1. at[a] \in Batch /\ claiming[a] /\ step[a] = "work" /\ step' = step
        /\ outcome' = outcome /\ seen' = seen /\ at' = [at EXCEPT ![a] = @ + 1]
    BY <1>3 DEF ApplyClaimed, AtMutation
  <2>2. Kept(at[a]) BY <2>1 DEF Kept, InLock
  <2>3. \A m \in Batch : m < at[a] + 1 => Kept(m) BY <2>1, <2>2 DEF CoverInv, Batch
  <2>4. Behind BY <1>1, <2>1, <2>3 DEF CoverInv
  <2>5. Ended BY <2>1 DEF CoverInv
  <2> QED BY <1>1, <2>1, <2>4, <2>5 DEF CoverInv
<1>4. ASSUME seen' \subseteq seen, at' = at, Ended PROVE Seen /\ Behind /\ Ended
  BY <1>1, <1>4 DEF CoverInv
<1>5. ASSUME NEW a \in Attempts, ApplyFails(a) \/ FinishBatch(a)
      PROVE  seen' \subseteq seen /\ at' = at /\ Ended
  <2>1. /\ seen' = seen /\ at' = at /\ step' = [step EXCEPT ![a] = "leave"]
        /\ \/ outcome' = [outcome EXCEPT ![a] = "failed"]
           \/ at[a] = BatchSize + 1 /\ outcome' = outcome
    BY <1>5 DEF ApplyFails, FinishBatch, Fails
  <2> QED BY <2>1 DEF CoverInv
<1>6. ASSUME NEW a \in Attempts, releaseMutationLock(a)
      PROVE  seen' \subseteq seen /\ at' = at /\ Ended
  BY <1>6 DEF releaseMutationLock, CoverInv
<1>7. ASSUME NEW a \in Attempts, Deliver(a) \/ withLocalLock(a) \/ acquireMutationLock(a)
                                 \/ AcquireTimesOut(a)
      PROVE  seen' \subseteq seen /\ at' = at /\ Ended
  BY <1>7 DEF Deliver, withLocalLock, acquireMutationLock, AcquireTimesOut, CoverInv
<1>8. CASE \/ LeaseEnds \/ BoardEvicted \/ (\E m \in Batch : ClaimExpires(m))
           \/ UNCHANGED deliveryVars
  <2>1. seen' \subseteq seen /\ at' = at /\ Ended
    BY <1>8 DEF LeaseEnds, BoardEvicted, ClaimExpires, Forget, deliveryVars, CoverInv
  <2> QED BY <1>4, <2>1 DEF CoverInv
<1>9. ASSUME NEW n \in Processes, ProcessDies(n)
      PROVE  seen' \subseteq seen /\ at' = at /\ Ended
  BY <1>9 DEF ProcessDies, CoverInv
<1>10. Seen /\ Behind /\ Ended => CoverInv' BY DEF CoverInv
<1> HIDE DEF Seen, Behind, Ended
<1> QED BY <1>2, <1>3, <1>4, <1>5, <1>6, <1>7, <1>8, <1>9, <1>10
        DEF DeliveryNext, AttemptRuns

-----------------------------------------------------------------------------
(* How often a mutation is applied. *)

(* Steps that take claimers away and count nothing else in their favour. *)
LEMMA FewerClaimers ==
  ASSUME DeliveryTypeOK, CountInv,
         NEW k \in Batch, Claimers(k)' \subseteq Claimers(k),
         applied'[k] = applied[k], forgotten'[k] + Claimed(k)' >= forgotten[k] + Claimed(k),
         forgotten'[k] \in Nat
  PROVE  /\ IsFiniteSet(Claimers(k)')
         /\ applied'[k] + Cardinality(Claimers(k)') <= forgotten'[k] + Claimed(k)'
<1>1. IsFiniteSet(Claimers(k)) BY DEF CountInv
<1>2. /\ IsFiniteSet(Claimers(k)')
      /\ Cardinality(Claimers(k)') <= Cardinality(Claimers(k))
  BY <1>1, FS_Subset
<1>3. Cardinality(Claimers(k)) \in Nat /\ Cardinality(Claimers(k)') \in Nat
  BY <1>1, <1>2, FS_CardinalityType
<1>4. applied[k] \in Nat /\ forgotten[k] \in Nat /\ Claimed(k) \in Nat /\ Claimed(k)' \in Nat
  BY DEF DeliveryTypeOK, Claimed
<1>5. applied[k] + Cardinality(Claimers(k)) <= forgotten[k] + Claimed(k) BY DEF CountInv
<1> QED BY <1>2, <1>3, <1>4, <1>5

(* A claimer less and an application more. *)
LEMMA ClaimerApplies ==
  ASSUME DeliveryTypeOK, CountInv, NEW a \in Attempts, claiming[a], at[a] \in Batch,
         applied' = [applied EXCEPT ![at[a]] = @ + 1],
         claiming' = [claiming EXCEPT ![a] = FALSE],
         forgotten' = forgotten, seen' = seen,
         \A b \in Attempts : b # a => at'[b] = at[b]
  PROVE  CountInv'
<1>1. ASSUME NEW k \in Batch, k # at[a]
      PROVE  /\ IsFiniteSet(Claimers(k)')
             /\ applied'[k] + Cardinality(Claimers(k)') <= forgotten'[k] + Claimed(k)'
  <2>1. Claimers(k)' \subseteq Claimers(k) BY DEF Claimers, DeliveryTypeOK
  <2>2. applied'[k] = applied[k] BY <1>1 DEF DeliveryTypeOK
  <2>3. forgotten'[k] = forgotten[k] /\ Claimed(k)' = Claimed(k) BY DEF Claimed
  <2>4. forgotten[k] \in Nat /\ Claimed(k) \in Nat BY DEF DeliveryTypeOK, Claimed
  <2> QED BY <2>1, <2>2, <2>3, <2>4, FewerClaimers
<1>2. ASSUME NEW k \in Batch, k = at[a]
      PROVE  /\ IsFiniteSet(Claimers(k)')
             /\ applied'[k] + Cardinality(Claimers(k)') <= forgotten'[k] + Claimed(k)'
  <2> DEFINE C == Claimers(k)
             D == {b \in Attempts : claiming'[b] /\ at'[b] = k}
  <2>1. D = C \ {a} /\ a \in C BY <1>2 DEF Claimers, DeliveryTypeOK
  <2>2. IsFiniteSet(C) BY DEF CountInv
  <2>3. IsFiniteSet(D) /\ Cardinality(D) = Cardinality(C) - 1
    BY <2>1, <2>2, FS_RemoveElement
  <2>4. Cardinality(C) \in Nat BY <2>2, FS_CardinalityType
  <2>5. applied'[k] = applied[k] + 1 /\ applied[k] \in Nat /\ forgotten[k] \in Nat
        /\ Claimed(k) \in Nat
    BY <1>2, Applying DEF DeliveryTypeOK, Claimed
  <2>6. applied[k] + Cardinality(C) <= forgotten[k] + Claimed(k) BY DEF CountInv
  <2>7. applied'[k] + Cardinality(D) <= forgotten[k] + Claimed(k)
    BY <2>3, <2>4, <2>5, <2>6
  <2> QED BY <2>3, <2>7 DEF Claimers, Claimed
<1> QED BY <1>1, <1>2 DEF CountInv

LEMMA CountStep ==
  ASSUME DeliveryTypeOK, ClaimInv, CountInv, [DeliveryNext]_deliveryVars
  PROVE  CountInv'
<1>1. ASSUME NEW a \in Attempts, tryMarkSeen(a) PROVE CountInv'
  <2>1. at[a] \in Batch /\ ~claiming[a] /\ applied' = applied /\ forgotten' = forgotten
    BY <1>1 DEF tryMarkSeen, AtMutation
  <2>2. ASSUME NEW k \in Batch, Claimers(k)' \subseteq Claimers(k), Claimed(k)' = Claimed(k)
        PROVE  /\ IsFiniteSet(Claimers(k)')
               /\ applied'[k] + Cardinality(Claimers(k)') <= forgotten'[k] + Claimed(k)'
    <3>1. forgotten[k] \in Nat /\ Claimed(k) \in Nat BY DEF DeliveryTypeOK, Claimed
    <3> QED BY <2>1, <2>2, <3>1, FewerClaimers
  <2>3. CASE at[a] \in seen
    <3>1. claiming' = claiming /\ seen' = seen /\ at' = [at EXCEPT ![a] = @ + 1]
      BY <1>1, <2>3 DEF tryMarkSeen
    <3>2. \A k \in Batch : Claimers(k)' \subseteq Claimers(k) /\ Claimed(k)' = Claimed(k)
      BY <2>1, <3>1 DEF Claimers, Claimed, DeliveryTypeOK
    <3> QED BY <2>2, <3>2 DEF CountInv
  <2>4. CASE at[a] \notin seen
    <3>1. /\ claiming' = [claiming EXCEPT ![a] = TRUE]
          /\ seen' = seen \cup {at[a]} /\ at' = at
      BY <1>1, <2>4 DEF tryMarkSeen
    <3>2. \A j \in Batch : j # at[a] =>
            Claimers(j)' \subseteq Claimers(j) /\ Claimed(j)' = Claimed(j)
      BY <2>1, <3>1 DEF Claimers, Claimed, DeliveryTypeOK
    <3>3. ASSUME NEW k \in Batch, k = at[a]
          PROVE  /\ IsFiniteSet(Claimers(k)')
                 /\ applied'[k] + Cardinality(Claimers(k)') <= forgotten'[k] + Claimed(k)'
      <4> DEFINE C == Claimers(k)
                 D == {b \in Attempts : claiming'[b] /\ at'[b] = k}
      <4>1. D = C \cup {a} /\ a \notin C BY <2>1, <3>1, <3>3 DEF Claimers, DeliveryTypeOK
      <4>2. IsFiniteSet(C) BY DEF CountInv
      <4>3. IsFiniteSet(D) /\ Cardinality(D) = Cardinality(C) + 1
        BY <4>1, <4>2, FS_AddElement
      <4>4. Cardinality(C) \in Nat BY <4>2, FS_CardinalityType
      <4>5. applied[k] \in Nat /\ forgotten[k] \in Nat BY DEF DeliveryTypeOK
      <4>6. applied[k] + Cardinality(C) <= forgotten[k] + 0
        BY <2>4, <3>3 DEF CountInv, Claimed
      <4>7. applied[k] + Cardinality(D) <= forgotten[k] + 1 BY <4>3, <4>4, <4>5, <4>6
      <4>8. Claimed(k)' = 1 /\ Claimers(k)' = D BY <3>1, <3>3 DEF Claimed, Claimers
      <4> QED BY <2>1, <4>3, <4>7, <4>8
    <3> QED BY <2>2, <3>2, <3>3 DEF CountInv
  <2> QED BY <2>3, <2>4
<1>2. ASSUME NEW a \in Attempts, ApplyClaimed(a) PROVE CountInv'
  BY <1>2, ClaimerApplies DEF ApplyClaimed, AtMutation, DeliveryTypeOK
<1>3. ASSUME \A k \in Batch : Claimers(k)' \subseteq Claimers(k),
             applied' = applied, forgotten' = forgotten, seen' = seen
      PROVE  CountInv'
  <2>1. \A k \in Batch : forgotten[k] \in Nat /\ Claimed(k) \in Nat /\ Claimed(k)' = Claimed(k)
    BY <1>3 DEF DeliveryTypeOK, Claimed
  <2>2. ASSUME NEW k \in Batch
        PROVE  /\ IsFiniteSet(Claimers(k)')
               /\ applied'[k] + Cardinality(Claimers(k)') <= forgotten'[k] + Claimed(k)'
    BY <1>3, <2>1, FewerClaimers
  <2> QED BY <2>2 DEF CountInv
<1>4. ASSUME NEW a \in Attempts, ApplyFails(a) PROVE CountInv'
  <2>1. CASE applied' = [applied EXCEPT ![at[a]] = @ + 1]
    BY <1>4, <2>1, ClaimerApplies DEF ApplyFails, AtMutation
  <2>2. CASE applied' = applied
    <3>1. \A k \in Batch : Claimers(k)' \subseteq Claimers(k)
      BY <1>4 DEF ApplyFails, Claimers, DeliveryTypeOK
    <3> QED BY <1>3, <1>4, <2>2, <3>1 DEF ApplyFails
  <2> QED BY <1>4, <2>1, <2>2 DEF ApplyFails
<1>5. ASSUME NEW n \in Processes, ProcessDies(n) PROVE CountInv'
  <2>1. \A k \in Batch : Claimers(k)' \subseteq Claimers(k)
    BY <1>5 DEF ProcessDies, Claimers
  <2> QED BY <1>3, <1>5, <2>1 DEF ProcessDies
<1>6. ASSUME \/ BoardEvicted \/ \E m \in Batch : ClaimExpires(m)
      PROVE  CountInv'
  <2>1. PICK gone : /\ gone \subseteq seen /\ Forget(gone) /\ applied' = applied
                    /\ claiming' = claiming /\ at' = at
    BY <1>6 DEF BoardEvicted, ClaimExpires
  <2>2. ASSUME NEW k \in Batch
        PROVE  /\ forgotten'[k] + Claimed(k)' >= forgotten[k] + Claimed(k)
               /\ forgotten'[k] \in Nat
    <3>1. CASE k \in gone BY <2>1, <3>1 DEF DeliveryTypeOK, Claimed, Forget
    <3>2. CASE k \notin gone BY <2>1, <3>2 DEF DeliveryTypeOK, Claimed, Forget
    <3> QED BY <3>1, <3>2
  <2>3. \A k \in Batch : Claimers(k)' \subseteq Claimers(k) BY <2>1 DEF Claimers
  <2>4. ASSUME NEW k \in Batch
        PROVE  /\ IsFiniteSet(Claimers(k)')
               /\ applied'[k] + Cardinality(Claimers(k)') <= forgotten'[k] + Claimed(k)'
    BY <2>1, <2>2, <2>3, FewerClaimers
  <2> QED BY <2>4 DEF CountInv
<1>7. ASSUME claiming' = claiming, at' = at PROVE \A k \in Batch : Claimers(k)' \subseteq Claimers(k)
  BY <1>7 DEF Claimers
<1>8. ASSUME NEW a \in Attempts, Deliver(a) \/ withLocalLock(a) \/ acquireMutationLock(a)
                 \/ AcquireTimesOut(a) \/ FinishBatch(a) \/ releaseMutationLock(a)
      PROVE  CountInv'
  BY <1>3, <1>7, <1>8 DEF Deliver, withLocalLock, acquireMutationLock, AcquireTimesOut,
                          FinishBatch, releaseMutationLock
<1>9. CASE LeaseEnds \/ UNCHANGED deliveryVars
  BY <1>3, <1>7, <1>9 DEF LeaseEnds, deliveryVars
<1> QED BY <1>1, <1>2, <1>4, <1>5, <1>6, <1>8, <1>9 DEF DeliveryNext, AttemptRuns

-----------------------------------------------------------------------------
DeliveryInv ==
  DeliveryTypeOK /\ ChainInv /\ LeaseInv /\ ClaimInv /\ CoverInv /\ CountInv

LEMMA DeliveryInvInit == DeliveryInit => DeliveryInv
<1> SUFFICES ASSUME DeliveryInit PROVE DeliveryInv OBVIOUS
<1>1. LeaseInv /\ ClaimInv BY DEF DeliveryInit, LeaseInv, ClaimInv, InLock
<1>2. CoverInv BY DeliveryConstants DEF DeliveryInit, CoverInv, Batch
<1>3. \A m : Claimers(m) = {} BY DEF DeliveryInit, Claimers
<1>4. ASSUME NEW m \in Batch
      PROVE  /\ IsFiniteSet(Claimers(m))
             /\ applied[m] + Cardinality(Claimers(m)) <= forgotten[m] + Claimed(m)
  <2>1. IsFiniteSet(Claimers(m)) /\ Cardinality(Claimers(m)) = 0 BY <1>3, FS_EmptySet
  <2> QED BY <2>1 DEF DeliveryInit, Claimed
<1>5. CountInv BY <1>4 DEF CountInv
<1> QED BY <1>1, <1>2, <1>5, DeliveryTypeInit DEF DeliveryInv

LEMMA DeliveryStep == DeliveryInv /\ [DeliveryNext]_deliveryVars => DeliveryInv'
  BY ChainStep, DeliveryTypeStep, LeaseStep, ClaimStep, CoverStep, CountStep DEF DeliveryInv

(* The inductive invariant of the deliveries. *)
THEOREM DeliveryInvariant == DeliverySpec => []DeliveryInv
  BY DeliveryInvInit, DeliveryStep, PTL DEF DeliverySpec

(* The mutation lock is exclusive among the attempts that still have its   *)
(* key, because the release compares the token, and in one process even    *)
(* when a lease ends or an eviction deletes the key, because of the        *)
(* promises of withLocalLock (mutation-lock-domain.ts).                    *)
THEOREM LockIsExclusive == DeliverySpec => []LockExcludes
<1>1. DeliveryInv => LockExcludes
  BY LeaseGivesExclusion, ChainGivesExclusion DEF DeliveryInv, LockExcludes
<1> QED BY <1>1, DeliveryInvariant, PTL

(* A mutation that is sent any number of times is applied once for every   *)
(* time its claim was taken (processor.ts, tryMarkSeen), and a batch that  *)
(* was answered as done left nothing behind that is not applied, being     *)
(* applied or given up by the attempt that claimed it.                     *)
THEOREM MutationsApplyOnce == DeliverySpec => []DeliveredOnce
<1>1. DeliveryInv => AppliedOnce
  <2> SUFFICES ASSUME DeliveryInv, NEW m \in Batch PROVE applied[m] <= 1 + forgotten[m]
    BY DEF AppliedOnce
  <2>1. /\ IsFiniteSet(Claimers(m))
        /\ applied[m] + Cardinality(Claimers(m)) <= forgotten[m] + Claimed(m)
    BY DEF DeliveryInv, CountInv
  <2>2. Cardinality(Claimers(m)) \in Nat BY <2>1, FS_CardinalityType
  <2>3. applied[m] \in Nat /\ forgotten[m] \in Nat /\ Claimed(m) \in {0, 1}
    BY DEF DeliveryInv, DeliveryTypeOK, Claimed
  <2> QED BY <2>1, <2>2, <2>3
<1>2. DeliveryInv => DoneMeansApplied
  <2> SUFFICES ASSUME DeliveryInv, NEW a \in Attempts, step[a] = "done", NEW m \in Batch
               PROVE  Kept(m)
    BY DEF DoneMeansApplied, Kept
  <2>1. at[a] = BatchSize + 1 BY DEF DeliveryInv, CoverInv
  <2>2. m < at[a] BY <2>1, DeliveryConstants DEF Batch
  <2> QED BY <2>2 DEF DeliveryInv, CoverInv
<1>3. DeliveryInv => DeliveredOnce BY <1>1, <1>2 DEF DeliveredOnce
<1> QED BY <1>3, DeliveryInvariant, PTL

-----------------------------------------------------------------------------
(* What a viewer has, or is about to have. *)
Gets(v) == received[v] \cup wire[v] \cup reading[v]

(* From the moment the snapshot is read, the viewer has every change, or   *)
(* has a reason not to.                                                    *)
Covered ==
  \A v \in Viewers : watching[v] \in {"read", "shown"} =>
    \A c \in board \ silent :
      \/ c \in Gets(v)
      \/ ToBeBroadcast(c)
      \/ c \in LiveMoves /\ v \notin audience[c]

(* A snapshot in hand holds only what the board has, and there is none     *)
(* after it was sent.                                                      *)
ReadingInv ==
  \A v \in Viewers : /\ reading[v] \subseteq board
                     /\ watching[v] = "shown" => reading[v] = {}

(* Who was in the room when a move was broadcast has it. *)
HeardInv ==
  \A v \in Viewers, t \in LiveMoves :
    v \in audience[t] => t \in received[v] \cup wire[v]

(* A delivery past its lock check has left its mark. *)
BatchInv ==
  \A b \in Batches : /\ batch[b] = "applied" => EditOf[b] \in board
                     /\ batch[b] = "refused" => EditOf[b] \in refused

ViewInv ==
  /\ BroadcastTypeOK /\ Covered /\ ReadingInv /\ HeardInv /\ BatchInv
  /\ ShowsWhatHappened

USE DEF Gets, ToBeBroadcast, Room, Things, Edits, Goes

(* The state before the first request. *)
LEMMA ViewInit == BroadcastInit => ViewInv
  BY BroadcastConstants
  DEF BroadcastInit, ViewInv, BroadcastTypeOK, Covered, ReadingInv, HeardInv, BatchInv,
      ShowsWhatHappened

(* A step of a delivery that ends without a broadcast: only its own        *)
(* progress and the change it may have made.                               *)
LEMMA BatchPreserves ==
  ASSUME ViewInv, NEW b \in Batches, BatchStep(b)
  PROVE  ViewInv'
<1>1. BroadcastTypeOK /\ Covered /\ ReadingInv /\ HeardInv /\ BatchInv /\ ShowsWhatHappened
  BY DEF ViewInv
<1>2. EditOf[b] \in Edits
  OBVIOUS
<1>3. ASSUME ReceiveBatch(b) \/ ClaimEdit(b) \/ RefuseEdit(b) \/ ApplyEdit(b)
      PROVE  ViewInv'
  <2>1. UNCHANGED <<silent, buffered, watching, entries, reading, wire, received, audience>>
        /\ board \subseteq board' /\ refused \subseteq refused'
    BY <1>3 DEF ReceiveBatch, ClaimEdit, RefuseEdit, ApplyEdit, viewerVars
  <2>2. BroadcastTypeOK'
    BY <1>1, <1>2, <1>3
    DEF BroadcastTypeOK, ReceiveBatch, ClaimEdit, RefuseEdit, ApplyEdit, viewerVars
  <2>3. \A a \in Batches : batch[a] = "applied" => batch'[a] = "applied"
    BY <1>1, <1>3 DEF BroadcastTypeOK, ReceiveBatch, ClaimEdit, RefuseEdit, ApplyEdit
  <2>4. \A c \in board' \ board : ToBeBroadcast(c)'
    BY <1>1, <1>3 DEF BroadcastTypeOK, ReceiveBatch, ClaimEdit, RefuseEdit, ApplyEdit
  <2>5. Covered'
    BY <1>1, <2>1, <2>3, <2>4 DEF Covered
  <2>6. ReadingInv' /\ HeardInv' /\ ShowsWhatHappened'
    BY <1>1, <2>1 DEF ReadingInv, HeardInv, ShowsWhatHappened
  <2>7. BatchInv'
    BY <1>1, <1>3, <2>1
    DEF BatchInv, BroadcastTypeOK, ReceiveBatch, ClaimEdit, RefuseEdit, ApplyEdit
  <2> QED
    BY <2>2, <2>5, <2>6, <2>7 DEF ViewInv
<1>4. ASSUME BatchFails(b) \/ SenderLeft(b) \/ RestResponds(b)
      PROVE  ViewInv'
  <2>1. /\ Unannounced(b) /\ silent \subseteq silent'
        /\ UNCHANGED <<board, refused, buffered, claimed, watching, entries, reading, wire,
                       received, audience>>
    BY <1>4 DEF BatchFails, SenderLeft, RestResponds, Unannounced, viewerVars
  <2>2. BroadcastTypeOK'
    BY <1>1, <1>2, <2>1 DEF BroadcastTypeOK, Unannounced
  <2>3. \A c \in board \ silent' : ToBeBroadcast(c) => ToBeBroadcast(c)'
    BY <1>1, <2>1 DEF Unannounced, BroadcastTypeOK
  <2>4. Covered'
    BY <1>1, <2>1, <2>3 DEF Covered
  <2>5. ReadingInv' /\ HeardInv' /\ ShowsWhatHappened'
    BY <1>1, <2>1 DEF ReadingInv, HeardInv, ShowsWhatHappened
  <2>6. BatchInv'
    BY <1>1, <2>1 DEF BatchInv, Unannounced, BroadcastTypeOK
  <2> QED
    BY <2>2, <2>4, <2>5, <2>6 DEF ViewInv
<1>5. ASSUME BroadcastBatch(b)
      PROVE  ViewInv'
  <2>1. UNCHANGED <<claimed, board, silent, refused, buffered, watching, entries, reading,
                    received, audience>>
    BY <1>5 DEF BroadcastBatch
  <2>2. BroadcastTypeOK'
    BY <1>1, <1>2, <1>5 DEF BroadcastTypeOK, BroadcastBatch, safeEmitToBoard
  <2>3. \A v \in Viewers : wire[v] \subseteq wire'[v] /\ wire'[v] \subseteq wire[v] \cup {EditOf[b]}
    BY <1>5 DEF BroadcastBatch, safeEmitToBoard
  <2>4. batch[b] = "applied" => \A v \in Viewers : watching[v] # "out" => EditOf[b] \in wire'[v]
    BY <1>5 DEF BroadcastBatch, safeEmitToBoard
  <2>5. \A a \in Batches : a # b => batch'[a] = batch[a]
    BY <1>1, <1>5 DEF BroadcastBatch, BroadcastTypeOK
  <2>6. Covered'
    <3> SUFFICES ASSUME NEW v \in Viewers, watching[v] \in {"read", "shown"},
                        NEW c \in board \ silent
                 PROVE  \/ c \in Gets(v)'
                        \/ ToBeBroadcast(c)'
                        \/ c \in LiveMoves /\ v \notin audience[c]
      BY <2>1 DEF Covered
    <3>1. CASE c \in Gets(v)
      BY <3>1, <2>1, <2>3
    <3>2. CASE c \in LiveMoves /\ v \notin audience[c]
      BY <3>2
    <3>3. CASE ToBeBroadcast(c)
      <4>1. PICK a \in Batches : batch[a] = "applied" /\ EditOf[a] = c
        BY <3>3
      <4> QED
        BY <4>1, <2>4, <2>5
    <3> QED
      BY <1>1, <3>1, <3>2, <3>3 DEF Covered
  <2>7. ReadingInv' /\ HeardInv'
    BY <1>1, <2>1, <2>3 DEF ReadingInv, HeardInv
  <2>8. ShowsWhatHappened'
    <3>1. CASE batch[b] = "repeated"
      BY <1>1, <1>5, <2>1, <3>1 DEF BroadcastBatch, ShowsWhatHappened
    <3>2. CASE batch[b] \in {"applied", "refused"}
      BY <1>1, <2>1, <2>3, <3>2 DEF BatchInv, ShowsWhatHappened
    <3> QED
      BY <1>5, <3>1, <3>2 DEF BroadcastBatch
  <2>9. BatchInv'
    BY <1>1, <1>5, <2>1 DEF BatchInv, BroadcastBatch, BroadcastTypeOK
  <2> QED
    BY <2>2, <2>6, <2>7, <2>8, <2>9 DEF ViewInv
<1> QED
  BY <1>3, <1>4, <1>5 DEF BatchStep

(* A live move goes to the room at once, and to the board later. *)
LEMMA MovePreserves ==
  ASSUME ViewInv, NEW t \in LiveMoves, MoveStep(t)
  PROVE  ViewInv'
<1>1. BroadcastTypeOK /\ Covered /\ ReadingInv /\ HeardInv /\ BatchInv /\ ShowsWhatHappened
  BY DEF ViewInv
<1>2. t \notin Edits
  BY BroadcastConstants
<1>3. ASSUME BroadcastMove(t)
      PROVE  ViewInv'
  <2>1. UNCHANGED <<batch, claimed, board, silent, refused, watching, entries, reading,
                    received>> /\ t \notin board
    BY <1>3 DEF BroadcastMove
  <2>2. BroadcastTypeOK'
    BY <1>1, <1>3 DEF BroadcastTypeOK, BroadcastMove, safeEmitToBoard
  <2>3. \A v \in Viewers : wire[v] \subseteq wire'[v] /\ wire'[v] \subseteq wire[v] \cup {t}
    BY <1>3 DEF BroadcastMove, safeEmitToBoard
  <2>4. \A v \in Viewers : v \in audience'[t] => t \in wire'[v]
    BY <1>1, <1>3 DEF BroadcastMove, safeEmitToBoard, BroadcastTypeOK
  <2>5. \A s \in LiveMoves : s # t => audience'[s] = audience[s]
    BY <1>1, <1>3 DEF BroadcastMove, BroadcastTypeOK
  <2>6. Covered'
    BY <1>1, <2>1, <2>3, <2>5 DEF Covered
  <2>7. HeardInv'
    BY <1>1, <2>1, <2>3, <2>4, <2>5 DEF HeardInv
  <2>8. ReadingInv' /\ BatchInv' /\ ShowsWhatHappened'
    BY <1>1, <1>2, <2>1, <2>3 DEF ReadingInv, BatchInv, ShowsWhatHappened
  <2> QED
    BY <2>2, <2>6, <2>7, <2>8 DEF ViewInv
<1>4. ASSUME FlushMove(t)
      PROVE  ViewInv'
  <2>1. /\ UNCHANGED <<batch, claimed, refused, watching, entries, reading, wire, received,
                       audience>>
        /\ silent \subseteq silent' /\ board \subseteq board' /\ board' \subseteq board \cup {t}
    BY <1>4 DEF FlushMove, viewerVars
  <2>2. BroadcastTypeOK'
    BY <1>1, <1>4 DEF BroadcastTypeOK, FlushMove, viewerVars
  <2>3. Covered'
    BY <1>1, <2>1 DEF Covered, HeardInv
  <2>4. ReadingInv' /\ HeardInv' /\ BatchInv' /\ ShowsWhatHappened'
    BY <1>1, <2>1 DEF ReadingInv, HeardInv, BatchInv, ShowsWhatHappened
  <2> QED
    BY <2>2, <2>3, <2>4 DEF ViewInv
<1> QED
  BY <1>3, <1>4 DEF MoveStep

(* A viewer's own steps change what that viewer has, and nobody else's. *)
LEMMA ViewerPreserves ==
  ASSUME ViewInv, NEW v \in Viewers, ViewerStep(v)
  PROVE  ViewInv'
<1>1. BroadcastTypeOK /\ Covered /\ ReadingInv /\ HeardInv /\ BatchInv /\ ShowsWhatHappened
  BY DEF ViewInv
<1>2. ASSUME UNCHANGED <<batch, claimed, board, silent, refused, buffered>>,
             BroadcastTypeOK',
             \A w \in Viewers \ {v} :
               /\ watching'[w] = watching[w] /\ reading'[w] = reading[w]
               /\ wire'[w] = wire[w] /\ received'[w] = received[w],
             \A w \in Viewers \ {v}, t \in LiveMoves :
               w \in audience'[t] <=> w \in audience[t],
             watching'[v] \in {"read", "shown"} =>
               \A c \in board \ silent :
                 \/ c \in Gets(v)'
                 \/ ToBeBroadcast(c)
                 \/ c \in LiveMoves /\ v \notin audience'[c],
             reading'[v] \subseteq board /\ (watching'[v] = "shown" => reading'[v] = {}),
             \A t \in LiveMoves : v \in audience'[t] => t \in received'[v] \cup wire'[v],
             (received'[v] \cup wire'[v]) \cap Edits \subseteq board \cup refused
      PROVE  ViewInv'
  <2>1. Covered'
    BY <1>1, <1>2 DEF Covered
  <2>2. ReadingInv' /\ HeardInv'
    BY <1>1, <1>2 DEF ReadingInv, HeardInv
  <2>3. BatchInv' /\ ShowsWhatHappened'
    BY <1>1, <1>2 DEF BatchInv, ShowsWhatHappened
  <2> QED
    BY <1>2, <2>1, <2>2, <2>3 DEF ViewInv
<1>3. CASE EnterRoom(v)
  BY BroadcastConstants, <1>1, <1>2, <1>3
  DEF EnterRoom, BroadcastTypeOK, HeardInv, ShowsWhatHappened, ReadingInv
<1>4. CASE getSnapshot(v)
  BY <1>1, <1>2, <1>4
  DEF getSnapshot, BroadcastTypeOK, HeardInv, ShowsWhatHappened, ReadingInv
<1>5. CASE SendSnapshot(v)
  BY <1>1, <1>2, <1>5
  DEF SendSnapshot, BroadcastTypeOK, Covered, HeardInv, ShowsWhatHappened, ReadingInv
<1>6. CASE LeaveRoom(v)
  BY <1>1, <1>2, <1>6
  DEF LeaveRoom, BroadcastTypeOK, HeardInv, ShowsWhatHappened, ReadingInv
<1>7. ASSUME NEW c \in wire[v], DeliverTo(v, c)
      PROVE  ViewInv'
  BY <1>1, <1>2, <1>7
  DEF DeliverTo, BroadcastTypeOK, Covered, HeardInv, ShowsWhatHappened, ReadingInv
<1> QED
  BY <1>3, <1>4, <1>5, <1>6, <1>7 DEF ViewerStep

LEMMA ViewStep == ViewInv /\ [BroadcastNext]_broadcastVars => ViewInv'
<1> SUFFICES ASSUME ViewInv, [BroadcastNext]_broadcastVars PROVE ViewInv'
  OBVIOUS
<1>1. CASE BroadcastNext
  BY <1>1, BatchPreserves, MovePreserves, ViewerPreserves DEF BroadcastNext
<1>2. CASE UNCHANGED broadcastVars
  BY <1>2 DEF broadcastVars, ViewInv, BroadcastTypeOK, Covered, ReadingInv, HeardInv,
              BatchInv, ShowsWhatHappened
<1> QED
  BY <1>1, <1>2

(* The strengthened invariant holds in every reachable state. *)
THEOREM ViewInvariant == BroadcastSpec => []ViewInv
  BY ViewInit, ViewStep, PTL DEF BroadcastSpec

(* The snapshot and the broadcasts together leave no gap and invent        *)
(* nothing, however joins, batches, live moves and departures interleave.  *)
THEOREM ViewersSeeTheBoardHolds == BroadcastSpec => []ViewersSeeTheBoard
<1>1. ViewInv => ViewersSeeTheBoard
  BY DEF ViewInv, Covered, ReadingInv, ViewersSeeTheBoard, MissesNothing, ShowsWhatHappened
<1> QED
  BY <1>1, ViewInvariant, PTL

-----------------------------------------------------------------------------
(* Moves of dragged elements: where a move can be, *)

InEvents(m)   == \E e \in events : e.move = m
InBuffers(m)  == \E n \in DragNodes, k \in Kinds : pending[n][k] = m
InFlushes(m)  == \E f \in flushes : f.move = m
InCleanups(m) == \E s \in Dragging : cleanup[s].move = m

(* and that it is there once. *)
Unique ==
  /\ \A e, g \in events : e.move = g.move => e = g
  /\ \A n, o \in DragNodes, k, l \in Kinds :
       pending[n][k] # 0 /\ pending[n][k] = pending[o][l] => n = o /\ k = l
  /\ \A f, g \in flushes : f.move = g.move => f = g
  /\ \A s, t \in Dragging :
       cleanup[s].move # 0 /\ cleanup[s].move = cleanup[t].move => s = t

(* A move is in one of the places or settled once it was sent, and nowhere *)
(* before.                                                                 *)
AccountOf(m) ==
  /\ InEvents(m) => ~InBuffers(m) /\ ~InFlushes(m) /\ ~InCleanups(m) /\ m \notin settled
  /\ InBuffers(m) => ~InFlushes(m) /\ ~InCleanups(m) /\ m \notin settled
  /\ InFlushes(m) => ~InCleanups(m) /\ m \notin settled
  /\ InCleanups(m) => m \notin settled
  /\ (InEvents(m) \/ InBuffers(m) \/ InFlushes(m) \/ InCleanups(m) \/ m \in settled)
       <=> m <= count

(* A socket that is on the board has left no cleanup behind, and a cleanup *)
(* has no moves until it has seen the room empty.                          *)
NoneCleaning ==
  /\ \A s \in on : cleanup[s] = NoCleanup
  /\ \A s \in Dragging : cleanup[s].step \in {"none", "size"} => cleanup[s].move = 0

MovesInv ==
  /\ BufferTypeOK /\ NoMoveStranded /\ NoneCleaning /\ Unique
  /\ \A m \in Moves : AccountOf(m)

LEMMA BufferTypeInit == BufferInit => BufferTypeOK
  BY BufferConstants DEF BufferInit, BufferTypeOK, NoCleanup, Kinds

LEMMA MovesInit == BufferInit => MovesInv
<1> SUFFICES ASSUME BufferInit PROVE MovesInv OBVIOUS
<1>1. BufferTypeOK BY BufferTypeInit
<1>2. \A n \in DragNodes, k \in Kinds : pending[n][k] = 0 BY DEF BufferInit
<1>3. \A s \in Dragging : cleanup[s].move = 0 BY DEF BufferInit, NoCleanup
<1>4. NoMoveStranded /\ NoneCleaning /\ Unique
  BY <1>2, <1>3 DEF NoMoveStranded, NoneCleaning, Unique, BufferInit, NoCleanup
<1>5. ASSUME NEW m \in Moves PROVE AccountOf(m)
  <2>1. m # 0 /\ ~(m <= 0) BY BufferConstants DEF Moves
  <2> QED BY <1>2, <1>3, <2>1
          DEF AccountOf, InEvents, InBuffers, InFlushes, InCleanups, BufferInit
<1> QED BY <1>1, <1>4, <1>5 DEF MovesInv

LEMMA MovesInvImplies == MovesInv => MovesSafe
<1> SUFFICES ASSUME MovesInv, NEW m \in 1..count PROVE Carried(m) <=> m \notin settled
  BY DEF MovesInv, MovesSafe, MovesAccounted
<1>1. m \in Moves /\ m <= count BY BufferConstants DEF MovesInv, BufferTypeOK, Moves
<1> QED BY <1>1 DEF MovesInv, AccountOf, Carried, InEvents, InBuffers, InFlushes, InCleanups

-----------------------------------------------------------------------------
(* What the parts of a step do to the places. *)

LEMMA TakeFacts ==
  ASSUME MovesInv, NEW n \in DragNodes, NEW k \in Kinds, NEW fired \in SUBSET Timers,
         Take(n, k, fired)
  PROVE  /\ pending' \in [DragNodes -> [Kinds -> 0..MaxMoves]]
         /\ timers' \in [DragNodes -> [Kinds -> SUBSET Timers]]
         /\ pending[n][k] \in 0..MaxMoves
         /\ \A m \in Moves : InBuffers(m)' <=> InBuffers(m) /\ m # pending[n][k]
         /\ pending[n][k] # 0 => InBuffers(pending[n][k])
         /\ \A o, q \in DragNodes, i, l \in Kinds :
              pending'[o][i] # 0 /\ pending'[o][i] = pending'[q][l] => o = q /\ i = l
         /\ NoMoveStranded'
<1>0. /\ pending \in [DragNodes -> [Kinds -> 0..MaxMoves]]
      /\ timers \in [DragNodes -> [Kinds -> SUBSET Timers]]
  BY DEF MovesInv, BufferTypeOK
<1>1. 0 \in 0..MaxMoves BY BufferConstants
<1>2. /\ pending' \in [DragNodes -> [Kinds -> 0..MaxMoves]]
      /\ pending'[n][k] = 0
      /\ \A o \in DragNodes, l \in Kinds : <<o, l>> # <<n, k>> => pending'[o][l] = pending[o][l]
  BY <1>0, <1>1 DEF Take
<1>3. /\ timers' \in [DragNodes -> [Kinds -> SUBSET Timers]]
      /\ \A o \in DragNodes, l \in Kinds : <<o, l>> # <<n, k>> => timers'[o][l] = timers[o][l]
  BY <1>0 DEF Take
<1>4. \A o, q \in DragNodes, i, l \in Kinds :
        pending[o][i] # 0 /\ pending[o][i] = pending[q][l] => o = q /\ i = l
  BY DEF MovesInv, Unique
<1>5. ASSUME NEW m \in Moves PROVE InBuffers(m)' <=> InBuffers(m) /\ m # pending[n][k]
  <2>1. m # 0 BY DEF Moves
  <2>2. ASSUME NEW o \in DragNodes, NEW l \in Kinds, pending'[o][l] = m
        PROVE  InBuffers(m) /\ m # pending[n][k]
    <3>1. <<o, l>> # <<n, k>> BY <1>2, <2>1, <2>2
    <3>2. pending[o][l] = m BY <1>2, <2>2, <3>1
    <3> QED BY <1>4, <2>1, <3>1, <3>2 DEF InBuffers
  <2>3. ASSUME NEW o \in DragNodes, NEW l \in Kinds, pending[o][l] = m, m # pending[n][k]
        PROVE  InBuffers(m)'
    BY <1>2, <2>3 DEF InBuffers
  <2> QED BY <2>2, <2>3 DEF InBuffers
<1>6. \A o, q \in DragNodes, i, l \in Kinds :
        pending'[o][i] # 0 /\ pending'[o][i] = pending'[q][l] => o = q /\ i = l
  BY <1>2, <1>4
<1>7. NoMoveStranded' BY <1>2, <1>3 DEF MovesInv, NoMoveStranded
<1>8. pending[n][k] \in 0..MaxMoves /\ InBuffers(pending[n][k]) BY <1>0 DEF InBuffers
<1> QED BY <1>2, <1>3, <1>5, <1>6, <1>7, <1>8

(* The cleanup of s goes on with another move, or with none. *)
LEMMA BecomesFacts ==
  ASSUME MovesInv, NEW s \in Dragging, NEW stage \in {"none", "size", "tick", "crdt"},
         NEW move \in 0..MaxMoves, Becomes(s, stage, move),
         move = 0 \/ ~InCleanups(move)
  PROVE  /\ cleanup' \in [Dragging -> [step : {"none", "size", "tick", "crdt"},
                                       move : 0..MaxMoves]]
         /\ cleanup[s].move \in 0..MaxMoves /\ InCleanups(cleanup[s].move)
         /\ \A m \in Moves : InCleanups(m)' <=>
              m = move \/ (InCleanups(m) /\ m # cleanup[s].move)
         /\ \A t, u \in Dragging :
              cleanup'[t].move # 0 /\ cleanup'[t].move = cleanup'[u].move => t = u
<1>0. cleanup \in [Dragging -> [step : {"none", "size", "tick", "crdt"}, move : 0..MaxMoves]]
  BY DEF MovesInv, BufferTypeOK
<1>1. /\ cleanup' \in [Dragging -> [step : {"none", "size", "tick", "crdt"}, move : 0..MaxMoves]]
      /\ cleanup'[s].move = move
      /\ \A t \in Dragging : t # s => cleanup'[t] = cleanup[t]
  BY <1>0 DEF Becomes
<1>2. \A t, u \in Dragging : cleanup[t].move # 0 /\ cleanup[t].move = cleanup[u].move => t = u
  BY DEF MovesInv, Unique
<1>3. ASSUME NEW m \in Moves
      PROVE  InCleanups(m)' <=> m = move \/ (InCleanups(m) /\ m # cleanup[s].move)
  <2>1. m # 0 BY DEF Moves
  <2> QED BY <1>1, <1>2, <2>1 DEF InCleanups
<1>4. \A t, u \in Dragging : cleanup'[t].move # 0 /\ cleanup'[t].move = cleanup'[u].move => t = u
  BY <1>1, <1>2 DEF InCleanups
<1>5. cleanup[s].move \in 0..MaxMoves /\ InCleanups(cleanup[s].move) BY <1>0 DEF InCleanups
<1> QED BY <1>1, <1>3, <1>4, <1>5

LEMMA SettleFacts ==
  ASSUME MovesInv, NEW S \in SUBSET (0..MaxMoves), Settle(S)
  PROVE  /\ settled' \subseteq Moves
         /\ \A m \in Moves : m \in settled' <=> m \in settled \/ m \in S
  BY BufferConstants DEF MovesInv, BufferTypeOK, Moves, Settle

-----------------------------------------------------------------------------
(* The steps *)

LEMMA EntryMoves ==
  ASSUME MovesInv, NEW s \in Dragging, EnterBoard(s) \/ AdmitToBoard(s)
  PROVE  MovesInv'
<1>1. UNCHANGED <<count, events, pending, timers, flushes, cleanup, settled, lost>>
  BY DEF EnterBoard, AdmitToBoard
<1>2. visit' \in [Dragging -> Nat] BY DEF MovesInv, BufferTypeOK, EnterBoard, AdmitToBoard
<1>3. on' \subseteq Dragging /\ admitted' \subseteq Dragging
  BY DEF MovesInv, BufferTypeOK, EnterBoard, AdmitToBoard
<1>4. BufferTypeOK' BY <1>1, <1>2, <1>3 DEF MovesInv, BufferTypeOK
<1>5. NoneCleaning' BY <1>1 DEF MovesInv, NoneCleaning, EnterBoard, AdmitToBoard
<1> QED BY <1>1, <1>4, <1>5 DEF MovesInv, NoMoveStranded, Unique, AccountOf, InEvents,
                                InBuffers, InFlushes, InCleanups

LEMMA LeaveMoves ==
  ASSUME MovesInv, NEW s \in Dragging, LeaveBoard(s)
  PROVE  MovesInv'
<1>1. Becomes(s, "size", 0) /\ 0 \in 0..MaxMoves BY BufferConstants DEF LeaveBoard, Becomes
<1>2. UNCHANGED <<visit, count, events, pending, timers, flushes, settled, lost>>
  BY DEF LeaveBoard
<1>3. cleanup[s].move = 0 BY DEF MovesInv, NoneCleaning, NoCleanup, LeaveBoard
<1>4. /\ cleanup' \in [Dragging -> [step : {"none", "size", "tick", "crdt"}, move : 0..MaxMoves]]
      /\ \A t, u \in Dragging :
           cleanup'[t].move # 0 /\ cleanup'[t].move = cleanup'[u].move => t = u
      /\ \A m \in Moves : InCleanups(m)' <=> InCleanups(m)
  BY <1>1, <1>3, BecomesFacts DEF Moves
<1>5. BufferTypeOK' BY <1>2, <1>4 DEF MovesInv, BufferTypeOK, LeaveBoard
<1>6. NoneCleaning'
  <2>1. on' = on \ {s} BY DEF LeaveBoard
  <2>2. cleanup'[s].move = 0 /\ \A t \in Dragging : t # s => cleanup'[t] = cleanup[t]
    BY DEF MovesInv, BufferTypeOK, LeaveBoard
  <2> QED BY <2>1, <2>2 DEF MovesInv, NoneCleaning, BufferTypeOK
<1>7. Unique' /\ NoMoveStranded' BY <1>2, <1>4 DEF MovesInv, Unique, NoMoveStranded
<1>8. \A m \in Moves : AccountOf(m)'
  BY <1>2, <1>4 DEF MovesInv, AccountOf, InEvents, InBuffers, InFlushes
<1> QED BY <1>5, <1>6, <1>7, <1>8 DEF MovesInv

LEMMA ReceiveMoves ==
  ASSUME MovesInv, NEW s \in Dragging, NEW k \in Kinds, ReceiveMove(s, k)
  PROVE  MovesInv'
<1> DEFINE e == [socket |-> s, visit |-> visit[s], kind |-> k, move |-> count + 1]
<1>1. UNCHANGED <<on, visit, admitted, pending, timers, flushes, cleanup, settled, lost>>
      /\ events' = events \cup {e} /\ count' = count + 1
  BY DEF ReceiveMove
<1>2. count + 1 \in Moves /\ count \in Nat
  BY BufferConstants DEF MovesInv, BufferTypeOK, ReceiveMove, Moves
<1>3. e \in Events /\ e.move = count + 1
  BY <1>2 DEF MovesInv, BufferTypeOK, Events
<1> HIDE DEF e
<1>4. BufferTypeOK'
  BY <1>1, <1>2, <1>3 DEF MovesInv, BufferTypeOK, Moves
<1>5. ~InEvents(count + 1)
  BY <1>2 DEF MovesInv, AccountOf
<1>6. Unique' BY <1>1, <1>3, <1>5 DEF MovesInv, Unique, InEvents
<1>7. NoMoveStranded' /\ NoneCleaning' BY <1>1 DEF MovesInv, NoMoveStranded, NoneCleaning
<1>8. ASSUME NEW m \in Moves PROVE AccountOf(m)'
  <2>1. InEvents(m)' <=> InEvents(m) \/ m = count + 1 BY <1>1, <1>3 DEF InEvents
  <2>2. /\ InBuffers(m)' <=> InBuffers(m)
        /\ InFlushes(m)' <=> InFlushes(m)
        /\ InCleanups(m)' <=> InCleanups(m)
        /\ settled' = settled
    BY <1>1 DEF InBuffers, InFlushes, InCleanups
  <2>3. AccountOf(m) BY DEF MovesInv
  <2>4. m \in Int /\ (m <= count' <=> m <= count \/ m = count + 1) BY <1>1, <1>2 DEF Moves
  <2>5. m = count + 1 => ~(m <= count) BY <1>2
  <2> QED BY <2>1, <2>2, <2>3, <2>4, <2>5 DEF AccountOf
<1> QED BY <1>4, <1>6, <1>7, <1>8 DEF MovesInv

LEMMA QueueMoves ==
  ASSUME MovesInv, NEW e \in events, QueueMove(e)
  PROVE  MovesInv'
<1> DEFINE n == NodeOf[e.socket]
           k == e.kind
           old == pending[n][k]
<1>1. e \in Events /\ e.socket \in Dragging /\ n \in DragNodes /\ k \in Kinds /\ e.move \in Moves
  BY BufferConstants DEF MovesInv, BufferTypeOK, Events
<1>2. /\ events' = events \ {e}
      /\ UNCHANGED <<on, visit, admitted, count, flushes, cleanup, lost>>
  BY DEF QueueMove
<1>3. \A m \in Moves : InEvents(m)' <=> InEvents(m) /\ m # e.move
  BY <1>2 DEF MovesInv, Unique, InEvents
<1>4. InEvents(e.move) BY DEF InEvents
<1>5. \A m \in Moves : AccountOf(m) BY DEF MovesInv
<1>6. e.move # 0 /\ e.move \in 0..MaxMoves BY <1>1, BufferConstants DEF Moves
<1>7. \A f, g \in events' : f.move = g.move => f = g BY <1>2 DEF MovesInv, Unique
<1>8. \A m \in Moves : (InFlushes(m)' <=> InFlushes(m)) /\ (InCleanups(m)' <=> InCleanups(m))
  BY <1>2 DEF InFlushes, InCleanups
<1>9. NoneCleaning' BY <1>2 DEF MovesInv, NoneCleaning
<1>10. /\ pending \in [DragNodes -> [Kinds -> 0..MaxMoves]]
       /\ timers \in [DragNodes -> [Kinds -> SUBSET Timers]]
  BY DEF MovesInv, BufferTypeOK
<1>11. CASE isSnapshotActive(e)
  <2>1. /\ pending' = [pending EXCEPT ![n][k] = e.move]
        /\ timers' = [timers EXCEPT ![n][k] = Timers]
        /\ Settle({old})
    BY <1>11 DEF QueueMove, schedule
  <2> HIDE DEF n, k
  <2>2. old \in 0..MaxMoves /\ InBuffers(old) BY <1>1, <1>10 DEF InBuffers
  <2>3. /\ pending' \in [DragNodes -> [Kinds -> 0..MaxMoves]]
        /\ pending'[n][k] = e.move
        /\ \A o \in DragNodes, l \in Kinds : <<o, l>> # <<n, k>> => pending'[o][l] = pending[o][l]
    BY <1>1, <1>6, <1>10, <2>1
  <2>4. /\ timers' \in [DragNodes -> [Kinds -> SUBSET Timers]]
        /\ timers'[n][k] = Timers
        /\ \A o \in DragNodes, l \in Kinds : <<o, l>> # <<n, k>> => timers'[o][l] = timers[o][l]
    BY <1>1, <1>10, <2>1
  <2>5. settled' \subseteq Moves /\ \A m \in Moves : m \in settled' <=> m \in settled \/ m = old
    BY <2>1, <2>2, SettleFacts
  <2>6. ~InBuffers(e.move) BY <1>1, <1>4, <1>5 DEF AccountOf
  <2>7. \A o, q \in DragNodes, i, l \in Kinds :
          pending[o][i] # 0 /\ pending[o][i] = pending[q][l] => o = q /\ i = l
    BY DEF MovesInv, Unique
  <2>8. ASSUME NEW m \in Moves
        PROVE  InBuffers(m)' <=> m = e.move \/ (InBuffers(m) /\ m # old)
    <3>1. m # 0 BY DEF Moves
    <3>2. ASSUME NEW o \in DragNodes, NEW l \in Kinds, pending'[o][l] = m, m # e.move
          PROVE  InBuffers(m) /\ m # old
      <4>1. <<o, l>> # <<n, k>> BY <2>3, <3>2
      <4>2. pending[o][l] = m BY <2>3, <3>2, <4>1
      <4> QED BY <1>1, <2>7, <3>1, <4>1, <4>2 DEF InBuffers
    <3>3. ASSUME NEW o \in DragNodes, NEW l \in Kinds, pending[o][l] = m, m # old
          PROVE  InBuffers(m)'
      BY <2>3, <3>3 DEF InBuffers
    <3>4. m = e.move => InBuffers(m)' BY <1>1, <2>3 DEF InBuffers
    <3> QED BY <3>2, <3>3, <3>4 DEF InBuffers
  <2>9. \A o, q \in DragNodes, i, l \in Kinds :
          pending'[o][i] # 0 /\ pending'[o][i] = pending'[q][l] => o = q /\ i = l
    BY <2>3, <2>6, <2>7 DEF InBuffers
  <2>10. BufferTypeOK' BY <1>2, <2>3, <2>4, <2>5 DEF MovesInv, BufferTypeOK
  <2>11. NoMoveStranded'
    <3>1. Timers # {} BY DEF Timers
    <3>2. \A o \in DragNodes, l \in Kinds : pending[o][l] # 0 => timers[o][l] # {}
      BY DEF MovesInv, NoMoveStranded
    <3>3. ASSUME NEW o \in DragNodes, NEW l \in Kinds, pending'[o][l] # 0
          PROVE  timers'[o][l] # {}
      <4>1. CASE <<o, l>> = <<n, k>> BY <2>4, <3>1, <4>1
      <4>2. CASE <<o, l>> # <<n, k>> BY <2>3, <2>4, <3>2, <3>3, <4>2
      <4> QED BY <4>1, <4>2
    <3> QED BY <3>3 DEF NoMoveStranded
  <2>12. Unique' BY <1>2, <1>7, <2>9 DEF MovesInv, Unique
  <2>13. ASSUME NEW m \in Moves PROVE AccountOf(m)'
    <3>1. InEvents(m)' <=> InEvents(m) /\ m # e.move BY <1>3
    <3>2. InBuffers(m)' <=> m = e.move \/ (InBuffers(m) /\ m # old) BY <2>8
    <3>3. m \in settled' <=> m \in settled \/ m = old BY <2>5
    <3>4. AccountOf(m) /\ (m = old => InBuffers(m)) /\ (m = e.move => InEvents(m))
      BY <1>4, <1>5, <2>2
    <3> QED BY <1>2, <1>8, <3>1, <3>2, <3>3, <3>4 DEF AccountOf
  <2> QED BY <1>9, <2>10, <2>11, <2>12, <2>13 DEF MovesInv
<1>12. CASE ~isSnapshotActive(e)
  <2>1. Settle({e.move}) /\ UNCHANGED <<pending, timers>> BY <1>12 DEF QueueMove
  <2>2. settled' \subseteq Moves /\ \A m \in Moves : m \in settled' <=> m \in settled \/ m = e.move
    BY <1>6, <2>1, SettleFacts
  <2>3. BufferTypeOK' BY <1>2, <2>1, <2>2 DEF MovesInv, BufferTypeOK
  <2>4. NoMoveStranded' /\ Unique'
    BY <1>2, <1>7, <2>1 DEF MovesInv, NoMoveStranded, Unique
  <2>5. ASSUME NEW m \in Moves PROVE AccountOf(m)'
    <3>1. AccountOf(m) /\ (m = e.move => InEvents(m)) BY <1>4, <1>5
    <3>2. InBuffers(m)' <=> InBuffers(m) BY <2>1 DEF InBuffers
    <3> QED BY <1>2, <1>3, <1>8, <2>2, <3>1, <3>2 DEF AccountOf
  <2> QED BY <1>9, <2>3, <2>4, <2>5 DEF MovesInv
<1> QED BY <1>11, <1>12

LEMMA TimerMoves ==
  ASSUME MovesInv, NEW n \in DragNodes, NEW k \in Kinds, NEW t \in Timers, TimerFires(n, k, t)
  PROVE  MovesInv'
<1> DEFINE old == pending[n][k]
           f == [node |-> n, kind |-> k, move |-> old]
<1>1. /\ Take(n, k, {t})
      /\ flushes' = IF old = 0 THEN flushes ELSE flushes \cup {f}
      /\ UNCHANGED <<on, visit, admitted, count, events, cleanup, settled, lost>>
  BY DEF TimerFires
<1>2. /\ pending' \in [DragNodes -> [Kinds -> 0..MaxMoves]]
      /\ timers' \in [DragNodes -> [Kinds -> SUBSET Timers]]
      /\ old \in 0..MaxMoves
      /\ \A m \in Moves : InBuffers(m)' <=> InBuffers(m) /\ m # old
      /\ old # 0 => InBuffers(old)
      /\ \A o, q \in DragNodes, i, l \in Kinds :
           pending'[o][i] # 0 /\ pending'[o][i] = pending'[q][l] => o = q /\ i = l
      /\ NoMoveStranded'
  BY <1>1, TakeFacts
<1>3. old # 0 => old \in Moves /\ f \in Flushes
  BY <1>2, BufferConstants DEF Moves, Flushes
<1>4. f.move = old OBVIOUS
<1> HIDE DEF f
<1>5. BufferTypeOK' BY <1>1, <1>2, <1>3 DEF MovesInv, BufferTypeOK
<1>6. \A m \in Moves : AccountOf(m) BY DEF MovesInv
<1>7. old # 0 => ~InFlushes(old) BY <1>2, <1>3, <1>6 DEF AccountOf
<1>8. Unique' BY <1>1, <1>2, <1>4, <1>7 DEF MovesInv, Unique, InFlushes
<1>9. NoneCleaning' BY <1>1 DEF MovesInv, NoneCleaning
<1>10. ASSUME NEW m \in Moves PROVE AccountOf(m)'
  <2>1. m # 0 BY DEF Moves
  <2>2. InFlushes(m)' <=> InFlushes(m) \/ m = old BY <1>1, <1>4, <2>1 DEF InFlushes
  <2>3. (InEvents(m)' <=> InEvents(m)) /\ (InCleanups(m)' <=> InCleanups(m))
    BY <1>1 DEF InEvents, InCleanups
  <2> QED BY <1>1, <1>2, <1>6, <2>1, <2>2, <2>3 DEF AccountOf
<1> QED BY <1>2, <1>5, <1>8, <1>9, <1>10 DEF MovesInv

LEMMA FlushedMoves ==
  ASSUME MovesInv, NEW f \in flushes, FlushEnds(f) \/ FlushFails(f)
  PROVE  MovesInv'
<1>1. /\ flushes' = flushes \ {f} /\ Settle({f.move})
      /\ UNCHANGED <<on, visit, admitted, count, events, pending, timers, cleanup>>
  BY DEF FlushEnds, FlushFails
<1>2. lost' \in 0..MaxLost
  BY BufferConstants DEF MovesInv, BufferTypeOK, FlushEnds, FlushFails
<1>3. f.move \in Moves /\ f.move \in 0..MaxMoves /\ InFlushes(f.move)
  BY BufferConstants DEF MovesInv, BufferTypeOK, Flushes, Moves, InFlushes
<1>4. settled' \subseteq Moves /\ \A m \in Moves : m \in settled' <=> m \in settled \/ m = f.move
  BY <1>1, <1>3, SettleFacts
<1>5. BufferTypeOK' BY <1>1, <1>2, <1>4 DEF MovesInv, BufferTypeOK
<1>6. Unique' /\ NoMoveStranded' /\ NoneCleaning'
  BY <1>1 DEF MovesInv, Unique, NoMoveStranded, NoneCleaning
<1>7. ASSUME NEW m \in Moves PROVE AccountOf(m)'
  <2>1. InFlushes(m)' <=> InFlushes(m) /\ m # f.move
    BY <1>1 DEF InFlushes, MovesInv, Unique
  <2>2. /\ InEvents(m)' <=> InEvents(m)
        /\ InBuffers(m)' <=> InBuffers(m)
        /\ InCleanups(m)' <=> InCleanups(m)
    BY <1>1 DEF InEvents, InBuffers, InCleanups
  <2>3. AccountOf(m) BY DEF MovesInv
  <2> QED BY <1>1, <1>3, <1>4, <2>1, <2>2, <2>3 DEF AccountOf
<1> QED BY <1>5, <1>6, <1>7 DEF MovesInv

(* What is left of a step of a cleanup once the places are settled. *)
LEMMA CleanupKeeps ==
  ASSUME MovesInv, NEW s \in Dragging, NEW stage \in {"none", "size", "tick", "crdt"},
         NEW move \in 0..MaxMoves, Becomes(s, stage, move),
         s \notin on, stage \in {"none", "size"} => move = 0, on' = on
  PROVE  NoneCleaning'
<1>1. cleanup \in [Dragging -> [step : {"none", "size", "tick", "crdt"}, move : 0..MaxMoves]]
  BY DEF MovesInv, BufferTypeOK
<1>2. /\ cleanup'[s].move = move /\ cleanup'[s].step = stage
      /\ \A t \in Dragging : t # s => cleanup'[t] = cleanup[t]
  BY <1>1 DEF Becomes
<1> QED BY <1>2 DEF MovesInv, NoneCleaning, BufferTypeOK

LEMMA CleanupSizeMoves ==
  ASSUME MovesInv, NEW s \in Dragging, CleanupSize(s)
  PROVE  MovesInv'
<1> DEFINE n == NodeOf[s]
           old == pending[n]["tick"]
<1>1. n \in DragNodes /\ "tick" \in Kinds /\ {} \in SUBSET Timers /\ 0 \in 0..MaxMoves
  BY BufferConstants DEF Kinds
<1>2. cleanup[s].move = 0 /\ s \notin on
  BY DEF MovesInv, NoneCleaning, NoCleanup, CleanupSize
<1>3. UNCHANGED <<on, visit, admitted, count, events, flushes, settled, lost>>
  BY DEF CleanupSize
<1>4. \A m \in Moves : AccountOf(m) BY DEF MovesInv
<1>5. \A m \in Moves : m # 0 /\ (InEvents(m)' <=> InEvents(m)) /\ (InFlushes(m)' <=> InFlushes(m))
  BY <1>3 DEF InEvents, InFlushes, Moves
<1>6. CASE admitted = {}
  <2>1. Take(n, "tick", {}) /\ Becomes(s, "tick", old) BY <1>6 DEF CleanupSize
  <2> HIDE DEF n
  <2>2. /\ pending' \in [DragNodes -> [Kinds -> 0..MaxMoves]]
        /\ timers' \in [DragNodes -> [Kinds -> SUBSET Timers]]
        /\ old \in 0..MaxMoves
        /\ \A m \in Moves : InBuffers(m)' <=> InBuffers(m) /\ m # old
        /\ old # 0 => InBuffers(old)
        /\ \A o, q \in DragNodes, i, l \in Kinds :
             pending'[o][i] # 0 /\ pending'[o][i] = pending'[q][l] => o = q /\ i = l
        /\ NoMoveStranded'
    BY <1>1, <2>1, TakeFacts
  <2>3. old # 0 => old \in Moves BY <2>2, BufferConstants DEF Moves
  <2>4. old = 0 \/ ~InCleanups(old) BY <1>4, <2>2, <2>3 DEF AccountOf
  <2> HIDE DEF old
  <2>5. /\ cleanup' \in [Dragging -> [step : {"none", "size", "tick", "crdt"},
                                      move : 0..MaxMoves]]
        /\ \A m \in Moves : InCleanups(m)' <=> m = old \/ InCleanups(m)
        /\ \A t, u \in Dragging :
             cleanup'[t].move # 0 /\ cleanup'[t].move = cleanup'[u].move => t = u
    BY <1>2, <1>5, <2>1, <2>2, <2>4, BecomesFacts
  <2>6. BufferTypeOK' BY <1>3, <2>2, <2>5 DEF MovesInv, BufferTypeOK
  <2>7. Unique' BY <1>3, <2>2, <2>5 DEF MovesInv, Unique
  <2>8. NoneCleaning' BY <1>2, <1>3, <2>1, <2>2, CleanupKeeps
  <2>9. \A m \in Moves : AccountOf(m)' BY <1>3, <1>4, <1>5, <2>2, <2>5 DEF AccountOf
  <2> QED BY <2>2, <2>6, <2>7, <2>8, <2>9 DEF MovesInv
<1>7. CASE admitted # {}
  <2>1. Becomes(s, "none", 0) /\ UNCHANGED <<pending, timers>> BY <1>7 DEF CleanupSize
  <2>2. /\ cleanup' \in [Dragging -> [step : {"none", "size", "tick", "crdt"},
                                      move : 0..MaxMoves]]
        /\ \A m \in Moves : InCleanups(m)' <=> InCleanups(m)
        /\ \A t, u \in Dragging :
             cleanup'[t].move # 0 /\ cleanup'[t].move = cleanup'[u].move => t = u
    BY <1>1, <1>2, <1>5, <2>1, BecomesFacts
  <2>3. BufferTypeOK' BY <1>3, <2>1, <2>2 DEF MovesInv, BufferTypeOK
  <2>4. Unique' /\ NoMoveStranded' BY <1>3, <2>1, <2>2 DEF MovesInv, Unique, NoMoveStranded
  <2>5. NoneCleaning' BY <1>1, <1>2, <1>3, <2>1, CleanupKeeps
  <2>6. \A m \in Moves : InBuffers(m)' <=> InBuffers(m) BY <2>1 DEF InBuffers
  <2>7. \A m \in Moves : AccountOf(m)' BY <1>3, <1>4, <1>5, <2>2, <2>6 DEF AccountOf
  <2> QED BY <2>3, <2>4, <2>5, <2>7 DEF MovesInv
<1> QED BY <1>6, <1>7

LEMMA CleanupTickMoves ==
  ASSUME MovesInv, NEW s \in Dragging, CleanupTick(s)
  PROVE  MovesInv'
<1> DEFINE n == NodeOf[s]
           old == pending[n]["crdt"]
           done == cleanup[s].move
<1>1. n \in DragNodes /\ "crdt" \in Kinds /\ {} \in SUBSET Timers /\ 0 \in 0..MaxMoves
  BY BufferConstants DEF Kinds
<1>2. s \notin on BY DEF MovesInv, NoneCleaning, NoCleanup, CleanupTick
<1>3. /\ Take(n, "crdt", {}) /\ Becomes(s, "crdt", old) /\ Settle({done})
      /\ UNCHANGED <<on, visit, admitted, count, events, flushes, lost>>
  BY DEF CleanupTick
<1>4. \A m \in Moves : AccountOf(m) BY DEF MovesInv
<1>5. \A m \in Moves : m # 0 /\ (InEvents(m)' <=> InEvents(m)) /\ (InFlushes(m)' <=> InFlushes(m))
  BY <1>3 DEF InEvents, InFlushes, Moves
<1> HIDE DEF n
<1>6. /\ pending' \in [DragNodes -> [Kinds -> 0..MaxMoves]]
      /\ timers' \in [DragNodes -> [Kinds -> SUBSET Timers]]
      /\ old \in 0..MaxMoves
      /\ \A m \in Moves : InBuffers(m)' <=> InBuffers(m) /\ m # old
      /\ old # 0 => InBuffers(old)
      /\ \A o, q \in DragNodes, i, l \in Kinds :
           pending'[o][i] # 0 /\ pending'[o][i] = pending'[q][l] => o = q /\ i = l
      /\ NoMoveStranded'
  BY <1>1, <1>3, TakeFacts
<1>7. old # 0 => old \in Moves BY <1>6, BufferConstants DEF Moves
<1>8. old = 0 \/ ~InCleanups(old) BY <1>4, <1>6, <1>7 DEF AccountOf
<1> HIDE DEF old
<1>9. /\ cleanup' \in [Dragging -> [step : {"none", "size", "tick", "crdt"}, move : 0..MaxMoves]]
      /\ done \in 0..MaxMoves /\ InCleanups(done)
      /\ \A m \in Moves : InCleanups(m)' <=> m = old \/ (InCleanups(m) /\ m # done)
      /\ \A t, u \in Dragging :
           cleanup'[t].move # 0 /\ cleanup'[t].move = cleanup'[u].move => t = u
  BY <1>3, <1>6, <1>8, BecomesFacts
<1>10. settled' \subseteq Moves /\ \A m \in Moves : m \in settled' <=> m \in settled \/ m = done
  BY <1>3, <1>9, SettleFacts
<1>11. BufferTypeOK' BY <1>3, <1>6, <1>9, <1>10 DEF MovesInv, BufferTypeOK
<1>12. Unique' BY <1>3, <1>6, <1>9 DEF MovesInv, Unique
<1>13. NoneCleaning' BY <1>2, <1>3, <1>6, CleanupKeeps
<1> HIDE DEF done
<1>14. \A m \in Moves : AccountOf(m)'
  BY <1>3, <1>4, <1>5, <1>6, <1>8, <1>9, <1>10 DEF AccountOf
<1> QED BY <1>6, <1>11, <1>12, <1>13, <1>14 DEF MovesInv

LEMMA CleanupClearMoves ==
  ASSUME MovesInv, NEW s \in Dragging, CleanupClear(s)
  PROVE  MovesInv'
<1> DEFINE n == NodeOf[s]
           done == cleanup[s].move
           S == {done} \cup {pending[n][k] : k \in Kinds}
<1>1. n \in DragNodes /\ 0 \in 0..MaxMoves BY BufferConstants
<1>2. s \notin on BY DEF MovesInv, NoneCleaning, NoCleanup, CleanupClear
<1>3. /\ pending' = [pending EXCEPT ![n] = [k \in Kinds |-> 0]]
      /\ timers' = [timers EXCEPT ![n] = [k \in Kinds |-> {}]]
      /\ Settle(S) /\ Becomes(s, "none", 0)
      /\ UNCHANGED <<on, visit, admitted, count, events, flushes, lost>>
  BY DEF CleanupClear
<1>4. /\ pending \in [DragNodes -> [Kinds -> 0..MaxMoves]]
      /\ timers \in [DragNodes -> [Kinds -> SUBSET Timers]]
  BY DEF MovesInv, BufferTypeOK
<1>5. \A m \in Moves : AccountOf(m) BY DEF MovesInv
<1>6. \A m \in Moves : m # 0 /\ (InEvents(m)' <=> InEvents(m)) /\ (InFlushes(m)' <=> InFlushes(m))
  BY <1>3 DEF InEvents, InFlushes, Moves
<1> HIDE DEF n
<1>7. /\ pending' \in [DragNodes -> [Kinds -> 0..MaxMoves]]
      /\ timers' \in [DragNodes -> [Kinds -> SUBSET Timers]]
      /\ \A k \in Kinds : pending'[n][k] = 0
      /\ \A o \in DragNodes : o # n => pending'[o] = pending[o] /\ timers'[o] = timers[o]
  BY <1>1, <1>3, <1>4
<1>8. \A o, q \in DragNodes, i, l \in Kinds :
        pending[o][i] # 0 /\ pending[o][i] = pending[q][l] => o = q /\ i = l
  BY DEF MovesInv, Unique
<1>9. ASSUME NEW m \in Moves
      PROVE  InBuffers(m)' <=> InBuffers(m) /\ \A k \in Kinds : m # pending[n][k]
  <2>1. ASSUME NEW o \in DragNodes, NEW l \in Kinds, pending'[o][l] = m
        PROVE  InBuffers(m) /\ \A k \in Kinds : m # pending[n][k]
    <3>1. o # n BY <1>6, <1>7, <2>1
    <3>2. pending[o][l] = m BY <1>7, <2>1, <3>1
    <3> QED BY <1>1, <1>6, <1>8, <3>1, <3>2 DEF InBuffers
  <2>2. ASSUME NEW o \in DragNodes, NEW l \in Kinds, pending[o][l] = m,
               \A k \in Kinds : m # pending[n][k]
        PROVE  InBuffers(m)'
    BY <1>7, <2>2 DEF InBuffers
  <2> QED BY <2>1, <2>2 DEF InBuffers
<1>10. \A o, q \in DragNodes, i, l \in Kinds :
         pending'[o][i] # 0 /\ pending'[o][i] = pending'[q][l] => o = q /\ i = l
  <2> SUFFICES ASSUME NEW o \in DragNodes, NEW q \in DragNodes, NEW i \in Kinds,
                      NEW l \in Kinds, pending'[o][i] # 0, pending'[o][i] = pending'[q][l]
               PROVE  o = q /\ i = l
    OBVIOUS
  <2>1. o # n /\ q # n BY <1>7
  <2>2. pending[o][i] # 0 /\ pending[o][i] = pending[q][l] BY <1>7, <2>1
  <2> QED BY <1>8, <2>2
<1>11. /\ cleanup' \in [Dragging -> [step : {"none", "size", "tick", "crdt"}, move : 0..MaxMoves]]
       /\ done \in 0..MaxMoves /\ InCleanups(done)
       /\ \A m \in Moves : InCleanups(m)' <=> m = 0 \/ (InCleanups(m) /\ m # done)
       /\ \A t, u \in Dragging :
            cleanup'[t].move # 0 /\ cleanup'[t].move = cleanup'[u].move => t = u
  BY <1>1, <1>3, BecomesFacts
<1>12. NoneCleaning' BY <1>1, <1>2, <1>3, CleanupKeeps
<1>13. S \in SUBSET (0..MaxMoves) BY <1>1, <1>4, <1>11
<1>14. \A m : m \in S <=> m = done \/ \E k \in Kinds : m = pending[n][k] OBVIOUS
<1> HIDE DEF done, S
<1>15. settled' \subseteq Moves /\ \A m \in Moves : m \in settled' <=> m \in settled \/ m \in S
  BY <1>3, <1>13, SettleFacts
<1>16. BufferTypeOK' BY <1>3, <1>7, <1>11, <1>15 DEF MovesInv, BufferTypeOK
<1>17. Unique' BY <1>3, <1>10, <1>11 DEF MovesInv, Unique
<1>18. NoMoveStranded' BY <1>7 DEF MovesInv, NoMoveStranded
<1>19. ASSUME NEW m \in Moves PROVE AccountOf(m)'
  <2>1. CASE \E k \in Kinds : m = pending[n][k]
    <3>1. InBuffers(m) /\ ~InBuffers(m)' /\ m \in settled'
      BY <1>1, <1>9, <1>14, <1>15, <2>1 DEF InBuffers
    <3> QED BY <1>3, <1>5, <1>6, <1>11, <3>1 DEF AccountOf
  <2>2. CASE ~\E k \in Kinds : m = pending[n][k]
    <3>1. InBuffers(m)' <=> InBuffers(m) BY <1>9, <2>2
    <3>2. m \in settled' <=> m \in settled \/ m = done BY <1>14, <1>15, <2>2
    <3> QED BY <1>3, <1>5, <1>6, <1>11, <3>1, <3>2 DEF AccountOf
  <2> QED BY <2>1, <2>2
<1> QED BY <1>12, <1>16, <1>17, <1>18, <1>19 DEF MovesInv

LEMMA CleanupFailsMoves ==
  ASSUME MovesInv, NEW s \in Dragging, CleanupFails(s)
  PROVE  MovesInv'
<1> DEFINE done == cleanup[s].move
<1>1. s \notin on /\ 0 \in 0..MaxMoves
  BY BufferConstants DEF MovesInv, NoneCleaning, NoCleanup, CleanupFails
<1>2. /\ Settle({done}) /\ Becomes(s, "none", 0)
      /\ UNCHANGED <<on, visit, admitted, count, events, pending, timers, flushes>>
  BY DEF CleanupFails
<1>3. lost' \in 0..MaxLost
  BY BufferConstants DEF MovesInv, BufferTypeOK, CleanupFails
<1>4. /\ cleanup' \in [Dragging -> [step : {"none", "size", "tick", "crdt"}, move : 0..MaxMoves]]
      /\ done \in 0..MaxMoves /\ InCleanups(done)
      /\ \A m \in Moves : InCleanups(m)' <=> m = 0 \/ (InCleanups(m) /\ m # done)
      /\ \A t, u \in Dragging :
           cleanup'[t].move # 0 /\ cleanup'[t].move = cleanup'[u].move => t = u
  BY <1>1, <1>2, BecomesFacts
<1>5. NoneCleaning' BY <1>1, <1>2, CleanupKeeps
<1> HIDE DEF done
<1>6. settled' \subseteq Moves /\ \A m \in Moves : m \in settled' <=> m \in settled \/ m = done
  BY <1>2, <1>4, SettleFacts
<1>7. BufferTypeOK' BY <1>2, <1>3, <1>4, <1>6 DEF MovesInv, BufferTypeOK
<1>8. Unique' /\ NoMoveStranded' BY <1>2, <1>4 DEF MovesInv, Unique, NoMoveStranded
<1>9. ASSUME NEW m \in Moves PROVE AccountOf(m)'
  <2>1. m # 0 /\ AccountOf(m) BY DEF MovesInv, Moves
  <2>2. /\ InEvents(m)' <=> InEvents(m)
        /\ InBuffers(m)' <=> InBuffers(m)
        /\ InFlushes(m)' <=> InFlushes(m)
    BY <1>2 DEF InEvents, InBuffers, InFlushes
  <2> QED BY <1>2, <1>4, <1>6, <2>1, <2>2 DEF AccountOf
<1> QED BY <1>5, <1>7, <1>8, <1>9 DEF MovesInv

LEMMA MovesStep == MovesInv /\ [BufferNext]_bufferVars => MovesInv'
<1> SUFFICES ASSUME MovesInv, [BufferNext]_bufferVars PROVE MovesInv' OBVIOUS
<1>1. CASE UNCHANGED bufferVars
  BY <1>1 DEF bufferVars, MovesInv, BufferTypeOK, NoMoveStranded, NoneCleaning, Unique,
              AccountOf, InEvents, InBuffers, InFlushes, InCleanups
<1>2. CASE BufferNext
  BY <1>2, EntryMoves, LeaveMoves, ReceiveMoves, QueueMoves, TimerMoves, FlushedMoves,
     CleanupSizeMoves, CleanupTickMoves, CleanupClearMoves, CleanupFailsMoves
  DEF BufferNext, BufferProgress
<1> QED BY <1>1, <1>2

(* A move that a socket sent is in exactly one place from the handler's     *)
(* queueMoves or applyRemoteUpdate on, until it is settled once, and a      *)
(* buffer with moves has a timer running: for any number of sockets, nodes, *)
(* timers, flushes and cleanups of the room at the same time.               *)
THEOREM MovesAreSafe == BufferSpec => []MovesSafe
  BY MovesInit, MovesStep, MovesInvImplies, PTL DEF BufferSpec

=============================================================================
