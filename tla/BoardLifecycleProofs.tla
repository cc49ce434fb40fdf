------------------------ MODULE BoardLifecycleProofs ------------------------
(***************************************************************************)
(* The life of a board, for any elements, requests and sockets: what the   *)
(* eviction may assume of the others while it holds its lock, and what     *)
(* every request may assume of the board it works on.                      *)
(***************************************************************************)
EXTENDS BoardLifecycle, TLAPS

Requests == [at : ProcSteps, el : Elements, rows : [Elements -> Content],
             content : Nat, solo : BOOLEAN]

(* The sweep between taking the eviction lock and giving it up.            *)
Evicting == {"check", "scan", "scanning", "del"}

(* Steps a request can be at while the eviction lock is taken: it passes   *)
(* no waitForBoardLoad, so it does not get beyond the mode of its batch.   *)
Barred == {"idle", "dead", "load", "loadWait", "joined", "drain", "lock", "mode"}

(* The sweep has the lock it needs on a board that is loaded, and before   *)
(* it takes the lock it has flushed what is not marked as dirty again.     *)
SweepInv ==
  /\ sweep.at \in {"persist", "lock"} => evictionLock = "free" /\ seq # NoKey
  /\ sweep.at = "lock" => dirty \/ marked = {}
  /\ sweep.at \in Evicting => evictionLock = "held"
  /\ evictionLock = "held" => sweep.at \in Evicting \cup {"release"}
  /\ sweep.at \in {"scan", "scanning", "del"} => clients = {}
  /\ sweep.at \in {"scanning", "del"} =>
       /\ {"seq", "evictionLock"} \subseteq sweep.found
       /\ hot # EmptyHash => "elements" \in sweep.found

(* While the eviction lock is taken nothing waits to be written, and       *)
(* nobody writes.                                                          *)
BarredInv ==
  evictionLock # "free" =>
    /\ seq # NoKey /\ marked = {}
    /\ \A p \in Procs : proc[p].at \in Barred
    /\ \A p \in Rest : proc[p].at \in {"idle", "dead", "load", "loadWait"}

(* REST requests do not join. *)
RoleInv == \A p \in Rest : proc[p].at \notin {"track", "joined", "drain"}

(* A marker is set together with the content it is about. *)
MarkedAreHot == \A e \in marked : hot[e] # Absent

EvictionInv == TypeOK /\ SweepInv /\ BarredInv /\ RoleInv /\ MarkedAreHot

(* A socket that is on the board is one of its clients. *)
OnBoard == {"joined", "lock", "mode", "await", "incr", "pipeline", "persist", "rearm", "ack"}
ClientInv == \A p \in Sockets : proc[p].at \in OnBoard => p \in clients

(* Whoever got past the load works on a board that is loaded; whoever is   *)
(* loading it has the lock, and rows that are still those of the table.    *)
UsesBoard == OnBoard \cup {"loadRelease", "track"}
LoadSteps == {"loadRecheck", "loadSelect", "loadVerify", "loadWrite", "loadRelease"}
LoadInv ==
  \A p \in Procs :
    /\ proc[p].at \in UsesBoard => seq # NoKey
    /\ proc[p].at \in LoadSteps => loadLock = p
    /\ proc[p].at \in {"loadSelect", "loadVerify", "loadWrite"} => seq = NoKey
    /\ proc[p].at \in {"loadVerify", "loadWrite"} => proc[p].rows = db

(* A board that is not loaded left nothing behind. *)
UnloadedEmpty == seq = NoKey => hot = EmptyHash /\ marked = {}

(* Contents are numbered by the changes that wrote them. *)
Numbered == \A e \in Elements : hot[e] <= writes /\ db[e] <= writes

(* A change that is about to be acknowledged is there or was overwritten.  *)
Unacked == {"persist", "rearm", "ack"}
PendingInv == \A p \in Procs : proc[p].at \in Unacked => hot[proc[p].el] >= proc[p].content

(* What the requests know of the board, and what the board holds. *)
RequestInv == ClientInv /\ LoadInv /\ PendingInv
DataInv == UnloadedEmpty /\ Numbered /\ LoadedComplete /\ AckedSurvives

BoardInv == RequestInv /\ DataInv

-----------------------------------------------------------------------------
(* What a step does to the requests. *)

Moved(p, step) ==
  /\ proc' \in [Procs -> Requests]
  /\ \A q \in Procs : q # p => proc'[q] = proc[q]
  /\ proc'[p].at = step

LEMMA ProcType == TypeOK => proc \in [Procs -> Requests]
  BY DEF TypeOK, Requests

LEMMA FreshFacts ==
  ASSUME NEW step \in ProcSteps, NEW e \in Elements
  PROVE  Fresh(step, e) \in Requests /\ Fresh(step, e).at = step
  BY DEF Fresh, Request, Requests, EmptyHash, Content, Absent

LEMMA RestingFacts ==
  /\ AnyElement \in Elements
  /\ Idle \in Requests /\ Idle.at = "idle"
  /\ Joined \in Requests /\ Joined.at = "joined"
  /\ Fresh("dead", AnyElement) \in Requests /\ Fresh("dead", AnyElement).at = "dead"
<1>1. AnyElement \in Elements BY ElementAssumption DEF AnyElement
<1>2. {"idle", "joined", "dead"} \subseteq ProcSteps BY DEF ProcSteps
<1> QED BY <1>1, <1>2, FreshFacts DEF Idle, Joined

LEMMA PutMoves ==
  ASSUME TypeOK, NEW p \in Procs, NEW r \in Requests, proc' = [proc EXCEPT ![p] = r]
  PROVE  Moved(p, r.at) /\ proc'[p] = r
  BY ProcType DEF Moved

LEMMA FreshMoves ==
  ASSUME TypeOK, NEW p \in Procs, NEW step \in ProcSteps, NEW e \in Elements,
         proc' = [proc EXCEPT ![p] = Fresh(step, e)]
  PROVE  Moved(p, step)
<1> DEFINE r == Fresh(step, e)
<1>1. r \in Requests /\ r.at = step BY FreshFacts
<1>2. proc' = [proc EXCEPT ![p] = r] OBVIOUS
<1> HIDE DEF r
<1> QED BY <1>1, <1>2, PutMoves

LEMMA GotoMoves ==
  ASSUME TypeOK, NEW p \in Procs, NEW step \in ProcSteps, Goto(p, step)
  PROVE  /\ Moved(p, step)
         /\ proc'[p].el = proc[p].el /\ proc'[p].rows = proc[p].rows
         /\ proc'[p].content = proc[p].content /\ proc'[p].solo = proc[p].solo
<1>1. proc \in [Procs -> Requests] /\ proc[p] \in Requests BY ProcType
<1>2. proc' = [proc EXCEPT ![p] = [proc[p] EXCEPT !.at = step]] BY DEF Goto
<1>3. [proc[p] EXCEPT !.at = step] \in Requests BY <1>1 DEF Requests
<1>4. proc'[p] = [proc[p] EXCEPT !.at = step] BY <1>1, <1>2
<1> QED BY <1>1, <1>2, <1>3, <1>4 DEF Moved, Requests

LEMMA LoadMoves ==
  ASSUME TypeOK, NEW p \in Procs
  PROVE  /\ Arrive(p) => Moved(p, "load")
         /\ LoadCheck(p) => Moved(p, "loadSeq")
         /\ LoadCheckSeq(p) => Moved(p, IF seq # NoKey THEN AfterLoad(p) ELSE "loadLock")
         /\ LoadAcquire(p) => Moved(p, IF loadLock = NoProc THEN "loadRecheck" ELSE "loadWait")
         /\ LoadWait(p) => Moved(p, "load")
         /\ LoadRecheck(p) => Moved(p, IF seq # NoKey THEN "loadRelease" ELSE "loadSelect")
         /\ LoadSelect(p) => Moved(p, "loadVerify") /\ proc'[p].rows = db
         /\ LoadVerify(p) => Moved(p, IF seq # NoKey THEN "loadRelease" ELSE "loadWrite")
                             /\ proc'[p].rows = proc[p].rows
         /\ LoadWrite(p) => Moved(p, "loadRelease")
         /\ LoadRelease(p) => Moved(p, AfterLoad(p))
<1> USE DEF ProcSteps
<1>1. Arrive(p) => Moved(p, "load")
  BY FreshMoves DEF Arrive
<1>2. AfterLoad(p) \in ProcSteps BY DEF AfterLoad
<1>3. LoadCheckSeq(p) => Moved(p, IF seq # NoKey THEN AfterLoad(p) ELSE "loadLock")
  <2>1. (IF seq # NoKey THEN AfterLoad(p) ELSE "loadLock") \in ProcSteps BY <1>2
  <2> QED BY <2>1, GotoMoves DEF LoadCheckSeq
<1>11. LoadCheck(p) => Moved(p, "loadSeq")
  BY GotoMoves DEF LoadCheck
<1>4. LoadAcquire(p) => Moved(p, IF loadLock = NoProc THEN "loadRecheck" ELSE "loadWait")
  BY GotoMoves DEF LoadAcquire
<1>5. LoadWait(p) => Moved(p, "load")
  BY GotoMoves DEF LoadWait
<1>6. LoadRecheck(p) => Moved(p, IF seq # NoKey THEN "loadRelease" ELSE "loadSelect")
  BY GotoMoves DEF LoadRecheck
<1>7. LoadSelect(p) => Moved(p, "loadVerify") /\ proc'[p].rows = db
  <2> DEFINE r == [proc[p] EXCEPT !.at = "loadVerify", !.rows = db]
  <2>1. proc[p] \in Requests /\ db \in [Elements -> Content] BY ProcType DEF TypeOK
  <2>2. r \in Requests /\ r.at = "loadVerify" /\ r.rows = db BY <2>1 DEF Requests
  <2>3. LoadSelect(p) => proc' = [proc EXCEPT ![p] = r] BY DEF LoadSelect
  <2> HIDE DEF r
  <2> QED BY <2>2, <2>3, PutMoves
<1>8. LoadVerify(p) => Moved(p, IF seq # NoKey THEN "loadRelease" ELSE "loadWrite")
                       /\ proc'[p].rows = proc[p].rows
  BY GotoMoves DEF LoadVerify
<1>9. LoadWrite(p) => Moved(p, "loadRelease")
  BY GotoMoves DEF LoadWrite
<1>10. LoadRelease(p) => Moved(p, AfterLoad(p))
  <2>1. proc[p].el \in Elements BY ProcType DEF Requests
  <2> QED BY <2>1, <1>2, FreshMoves DEF LoadRelease
<1> QED BY <1>1, <1>3, <1>4, <1>5, <1>6, <1>7, <1>8, <1>9, <1>10, <1>11

LEMMA MutateMoves ==
  ASSUME TypeOK, NEW p \in Procs
  PROVE  /\ Lock(p) => Moved(p, "mode")
         /\ LockTimesOut(p) => Moved(p, Rested(p).at)
         /\ GetSyncWriteMode(p) => Moved(p, "await")
         /\ AwaitLoad(p) => Moved(p, "incr")
         /\ Incr(p) => Moved(p, "pipeline")
         /\ Pipeline(p) => /\ Moved(p, IF proc[p].solo THEN "persist" ELSE "rearm")
                           /\ proc'[p].el = proc[p].el /\ proc'[p].content = writes + 1
         /\ PersistSolo(p) => /\ Moved(p, "rearm")
                              /\ proc'[p].el = proc[p].el
                              /\ proc'[p].content = proc[p].content
         /\ PersistSoloFails(p) => Moved(p, Rested(p).at)
         /\ RearmCollabMode(p) => /\ Moved(p, "ack")
                                  /\ proc'[p].el = proc[p].el
                                  /\ proc'[p].content = proc[p].content
         /\ Ack(p) => Moved(p, Rested(p).at)
<1> USE DEF ProcSteps
<1>1. Rested(p) \in Requests BY RestingFacts DEF Rested
<1>2. Lock(p) => Moved(p, "mode") BY GotoMoves DEF Lock
<1>3. LockTimesOut(p) => Moved(p, Rested(p).at) BY <1>1, PutMoves DEF LockTimesOut
<1>4. GetSyncWriteMode(p) => Moved(p, "await")
  <2> DEFINE r == [proc[p] EXCEPT !.at = "await", !.solo = ~InCollab]
  <2>1. proc[p] \in Requests BY ProcType
  <2>2. InCollab \in BOOLEAN BY DEF InCollab, TypeOK
  <2>3. r \in Requests /\ r.at = "await" BY <2>1, <2>2 DEF Requests
  <2>4. GetSyncWriteMode(p) => proc' = [proc EXCEPT ![p] = r] BY DEF GetSyncWriteMode
  <2> HIDE DEF r
  <2> QED BY <2>3, <2>4, PutMoves
<1>5. AwaitLoad(p) => Moved(p, "incr") BY GotoMoves DEF AwaitLoad
<1>6. Incr(p) => Moved(p, "pipeline") BY GotoMoves DEF Incr
<1>7. Pipeline(p) => /\ Moved(p, IF proc[p].solo THEN "persist" ELSE "rearm")
                     /\ proc'[p].el = proc[p].el /\ proc'[p].content = writes + 1
  <2> DEFINE a == IF proc[p].solo THEN "persist" ELSE "rearm"
             r == [proc[p] EXCEPT !.at = a, !.content = writes + 1]
  <2>1. proc[p] \in Requests /\ writes + 1 \in Nat BY ProcType, BoundAssumption DEF TypeOK
  <2>2. a \in ProcSteps OBVIOUS
  <2>3. Pipeline(p) => proc' = [proc EXCEPT ![p] = r] BY DEF Pipeline
  <2> HIDE DEF a
  <2>4. r \in Requests /\ r.at = a /\ r.el = proc[p].el /\ r.content = writes + 1
    BY <2>1, <2>2 DEF Requests
  <2> HIDE DEF r
  <2> QED BY <2>3, <2>4, PutMoves DEF a
<1>8. PersistSolo(p) => /\ Moved(p, "rearm")
                        /\ proc'[p].el = proc[p].el /\ proc'[p].content = proc[p].content
  BY GotoMoves DEF PersistSolo
<1>9. PersistSoloFails(p) => Moved(p, Rested(p).at) BY <1>1, PutMoves DEF PersistSoloFails
<1>10. RearmCollabMode(p) => /\ Moved(p, "ack")
                             /\ proc'[p].el = proc[p].el
                             /\ proc'[p].content = proc[p].content
  BY GotoMoves DEF RearmCollabMode
<1>11. Ack(p) => Moved(p, Rested(p).at) BY <1>1, PutMoves DEF Ack
<1> QED BY <1>2, <1>3, <1>4, <1>5, <1>6, <1>7, <1>8, <1>9, <1>10, <1>11

LEMMA SocketMoves ==
  ASSUME TypeOK, NEW p \in Procs
  PROVE  /\ Track(p) => Moved(p, "joined")
         /\ Leave(p) => Moved(p, "drain")
         /\ Drain(p) => Moved(p, "idle")
         /\ SocketMutates(p) => Moved(p, "lock")
         /\ Dies(p) => Moved(p, "dead")
         /\ LeaseExpires(p) => Moved(p, "idle")
<1> USE DEF ProcSteps
<1>1. Track(p) => Moved(p, "joined") BY PutMoves, RestingFacts DEF Track
<1>2. Leave(p) => Moved(p, "drain") BY GotoMoves DEF Leave
<1>3. Drain(p) => Moved(p, "idle") BY PutMoves, RestingFacts DEF Drain
<1>4. SocketMutates(p) => Moved(p, "lock") BY FreshMoves DEF SocketMutates
<1>5. Dies(p) => Moved(p, "dead") BY PutMoves, RestingFacts DEF Dies
<1>6. LeaseExpires(p) => Moved(p, "idle") 
  <2>1. LeaseExpires(p) => proc' = [proc EXCEPT ![p] = Idle] BY DEF LeaseExpires
  <2> QED BY <2>1, PutMoves, RestingFacts
<1> QED BY <1>1, <1>2, <1>3, <1>4, <1>5, <1>6

-----------------------------------------------------------------------------
(* Types *)

LEMMA PersistTypes ==
  ASSUME TypeOK, Persist
  PROVE  /\ db' \in [Elements -> Content] /\ marked' \subseteq Elements
         /\ dirty' = FALSE /\ seq' = seq /\ hot' = hot
  BY DEF TypeOK, Persist

LEMMA TypeLoad ==
  ASSUME TypeOK, NEW p \in Procs, Arrive(p) \/ Load(p)
  PROVE  TypeOK'
<1> USE DEF TypeOK, Requests, board, presence, locks
<1>1. CASE Arrive(p)
  <2>1. proc' \in [Procs -> Requests] BY <1>1, LoadMoves DEF Moved
  <2> QED BY <1>1, <2>1 DEF Arrive
<1>2. CASE LoadCheck(p)
  <2>1. proc' \in [Procs -> Requests] BY <1>2, LoadMoves DEF Moved
  <2> QED BY <1>2, <2>1 DEF LoadCheck
<1>10. CASE LoadCheckSeq(p)
  <2>1. proc' \in [Procs -> Requests] BY <1>10, LoadMoves DEF Moved
  <2> QED BY <1>10, <2>1 DEF LoadCheckSeq
<1>3. CASE LoadAcquire(p)
  <2>1. proc' \in [Procs -> Requests] BY <1>3, LoadMoves DEF Moved
  <2> QED BY <1>3, <2>1 DEF LoadAcquire
<1>4. CASE LoadWait(p)
  <2>1. proc' \in [Procs -> Requests] BY <1>4, LoadMoves DEF Moved
  <2> QED BY <1>4, <2>1 DEF LoadWait
<1>5. CASE LoadRecheck(p)
  <2>1. proc' \in [Procs -> Requests] BY <1>5, LoadMoves DEF Moved
  <2> QED BY <1>5, <2>1 DEF LoadRecheck
<1>6. CASE LoadSelect(p)
  <2>1. proc' \in [Procs -> Requests] BY <1>6, LoadMoves DEF Moved
  <2> QED BY <1>6, <2>1 DEF LoadSelect
<1>7. CASE LoadVerify(p)
  <2>1. proc' \in [Procs -> Requests] BY <1>7, LoadMoves DEF Moved
  <2> QED BY <1>7, <2>1 DEF LoadVerify
<1>8. CASE LoadWrite(p)
  <2>1. proc' \in [Procs -> Requests] BY <1>8, LoadMoves DEF Moved
  <2>2. proc[p].rows \in [Elements -> Content] BY ProcType
  <2>3. hot' \in [Elements -> Content] BY <1>8, <2>2 DEF LoadWrite
  <2> QED BY <1>8, <2>1, <2>3 DEF LoadWrite
<1>9. CASE LoadRelease(p)
  <2>1. proc' \in [Procs -> Requests] BY <1>9, LoadMoves DEF Moved
  <2> QED BY <1>9, <2>1 DEF LoadRelease
<1> QED BY <1>1, <1>2, <1>3, <1>4, <1>5, <1>6, <1>7, <1>8, <1>9, <1>10 DEF Load

LEMMA TypeMutate ==
  ASSUME TypeOK, NEW p \in Procs, Mutate(p)
  PROVE  TypeOK'
<1> USE DEF TypeOK, Requests, board, presence, locks
<1>0. InCollab \in BOOLEAN BY DEF InCollab
<1>1. CASE Lock(p)
  <2>1. proc' \in [Procs -> Requests] BY <1>1, MutateMoves DEF Moved
  <2> QED BY <1>1, <2>1 DEF Lock
<1>2. CASE LockTimesOut(p)
  <2>1. proc' \in [Procs -> Requests] BY <1>2, MutateMoves DEF Moved
  <2> QED BY <1>2, <2>1 DEF LockTimesOut
<1>3. CASE GetSyncWriteMode(p)
  <2>1. proc' \in [Procs -> Requests] BY <1>3, MutateMoves DEF Moved
  <2> QED BY <1>3, <2>1, <1>0 DEF GetSyncWriteMode
<1>4. CASE AwaitLoad(p)
  <2>1. proc' \in [Procs -> Requests] BY <1>4, MutateMoves DEF Moved
  <2> QED BY <1>4, <2>1 DEF AwaitLoad
<1>5. CASE Incr(p)
  <2>1. proc' \in [Procs -> Requests] BY <1>5, MutateMoves DEF Moved
  <2>2. seq' \in Nat BY <1>5 DEF Incr, NoKey
  <2>3. recent' \in BOOLEAN BY <1>5 DEF Incr
  <2> QED BY <1>5, <2>1, <2>2, <2>3 DEF Incr
<1>6. CASE Pipeline(p)
  <2>1. proc' \in [Procs -> Requests] BY <1>6, MutateMoves DEF Moved
  <2>2. proc[p].el \in Elements BY ProcType
  <2>3. writes' \in 0..MaxWrites /\ writes + 1 \in Content
    BY <1>6, BoundAssumption DEF Pipeline, Content
  <2>4. hot' \in [Elements -> Content] /\ marked' \subseteq Elements
    BY <1>6, <2>2, <2>3 DEF Pipeline
  <2> QED BY <1>6, <2>1, <2>3, <2>4 DEF Pipeline
<1>7. CASE PersistSolo(p)
  <2>1. proc' \in [Procs -> Requests] BY <1>7, MutateMoves DEF Moved
  <2> QED BY <1>7, <2>1, PersistTypes DEF PersistSolo
<1>8. CASE PersistSoloFails(p)
  <2>1. proc' \in [Procs -> Requests] BY <1>8, MutateMoves DEF Moved
  <2> QED BY <1>8, <2>1 DEF PersistSoloFails
<1>9. CASE RearmCollabMode(p)
  <2>1. proc' \in [Procs -> Requests] BY <1>9, MutateMoves DEF Moved
  <2>2. collab' \in BOOLEAN BY <1>9, <1>0 DEF RearmCollabMode
  <2> QED BY <1>9, <2>1, <2>2 DEF RearmCollabMode
<1>10. CASE Ack(p)
  <2>1. proc' \in [Procs -> Requests] BY <1>10, MutateMoves DEF Moved
  <2>2. acked' \in [Elements -> Nat] BY <1>10, ProcType DEF Ack
  <2> QED BY <1>10, <2>1, <2>2 DEF Ack
<1> QED BY <1>1, <1>2, <1>3, <1>4, <1>5, <1>6, <1>7, <1>8, <1>9, <1>10 DEF Mutate

LEMMA TypeSocket ==
  ASSUME TypeOK, NEW p \in Sockets, Socket(p)
  PROVE  TypeOK'
<1> USE DEF TypeOK, Requests, board, presence, locks
<1>0. p \in Procs BY DEF Procs
<1>1. TrackClient(p) => clients' \subseteq Sockets /\ collab' \in BOOLEAN /\ recent' = TRUE
  BY DEF TrackClient
<1>2. CASE Track(p)
  <2>1. proc' \in [Procs -> Requests] BY <1>2, <1>0, SocketMoves DEF Moved
  <2> QED BY <1>2, <2>1, <1>1 DEF Track
<1>3. CASE Refresh(p) BY <1>3, <1>1 DEF Refresh
<1>4. CASE QuietLeaseExpires(p) BY <1>4 DEF QuietLeaseExpires
<1>5. CASE SocketMutates(p)
  <2>1. proc' \in [Procs -> Requests] BY <1>5, <1>0, SocketMoves DEF Moved
  <2> QED BY <1>5, <2>1, <1>1 DEF SocketMutates
<1>6. CASE Leave(p)
  <2>1. proc' \in [Procs -> Requests] BY <1>6, <1>0, SocketMoves DEF Moved
  <2> QED BY <1>6, <2>1 DEF Leave
<1>7. CASE Drain(p)
  <2>1. proc' \in [Procs -> Requests] BY <1>7, <1>0, SocketMoves DEF Moved
  <2>2. Persist \/ UNCHANGED <<db, board>> BY <1>7 DEF Drain
  <2>3. db' \in [Elements -> Content] /\ marked' \subseteq Elements
        /\ dirty' \in BOOLEAN /\ seq' = seq /\ hot' = hot
    BY <2>2, PersistTypes
  <2> QED BY <1>7, <2>1, <2>3 DEF Drain
<1> QED BY <1>2, <1>3, <1>4, <1>5, <1>6, <1>7 DEF Socket

LEMMA TypeSweep ==
  ASSUME TypeOK, Sweep \/ SweepDies \/ EvictionLockExpires
  PROVE  TypeOK'
<1> USE DEF TypeOK, Requests, board, presence, locks, SweepSteps, SweepAt
<1>1. CASE SweepStart BY <1>1 DEF SweepStart
<1>2. CASE SweepPersist BY <1>2, PersistTypes DEF SweepPersist
<1>3. CASE SweepLock BY <1>3 DEF SweepLock
<1>4. CASE SweepCheck BY <1>4 DEF SweepCheck
<1>5. CASE ScanBegin
  <2>1. PresentKeys \subseteq Keys BY DEF PresentKeys
  <2> QED BY <1>5, <2>1 DEF ScanBegin
<1>6. CASE ScanEnd
  <2>1. PresentKeys \subseteq Keys BY DEF PresentKeys
  <2>2. PICK new \in SUBSET (PresentKeys \ sweep.found) :
               sweep' = [at |-> "del", found |-> sweep.found \cup new]
    BY <1>6 DEF ScanEnd
  <2>3. sweep' \in [at : SweepSteps, found : SUBSET Keys] BY <2>1, <2>2
  <2> QED BY <1>6, <2>3 DEF ScanEnd
<1>7. CASE Delete
  <2>1. EmptyHash \in [Elements -> Content] BY DEF EmptyHash, Content
  <2>2. hot' \in [Elements -> Content] BY <1>7, <2>1 DEF Delete
  <2> QED BY <1>7, <2>2 DEF Delete
<1>8. CASE Unindex BY <1>8 DEF Unindex
<1>9. CASE SweepRelease BY <1>9 DEF SweepRelease
<1>10. CASE SweepDies BY <1>10 DEF SweepDies
<1>11. CASE EvictionLockExpires BY <1>11 DEF EvictionLockExpires
<1> QED BY <1>1, <1>2, <1>3, <1>4, <1>5, <1>6, <1>7, <1>8, <1>9, <1>10, <1>11 DEF Sweep

LEMMA TypeOther ==
  ASSUME TypeOK
  PROVE  /\ \A p \in Procs : Dies(p) \/ LoadLockExpires(p) \/ MutationLockExpires(p)
                             \/ LeaseExpires(p) => TypeOK'
         /\ CollabExpires \/ WorkerFlush \/ ThreeIdleMinutes => TypeOK'
<1> USE DEF TypeOK, Requests, board, presence, locks
<1>1. ASSUME NEW p \in Procs, Dies(p) PROVE TypeOK'
  <2>1. proc' \in [Procs -> Requests] BY <1>1, SocketMoves DEF Moved
  <2> QED BY <1>1, <2>1 DEF Dies
<1>2. ASSUME NEW p \in Procs, LoadLockExpires(p) PROVE TypeOK'
  BY <1>2 DEF LoadLockExpires
<1>7. ASSUME NEW p \in Procs, MutationLockExpires(p) PROVE TypeOK'
  BY <1>7 DEF MutationLockExpires
<1>3. ASSUME NEW p \in Procs, LeaseExpires(p) PROVE TypeOK'
  <2>1. proc' \in [Procs -> Requests] BY <1>3, SocketMoves DEF Moved
  <2> QED BY <1>3, <2>1 DEF LeaseExpires
<1>4. CollabExpires => TypeOK' BY DEF CollabExpires
<1>5. WorkerFlush => TypeOK' BY PersistTypes DEF WorkerFlush
<1>6. ThreeIdleMinutes => TypeOK' BY DEF ThreeIdleMinutes
<1> QED BY <1>1, <1>2, <1>3, <1>4, <1>5, <1>6, <1>7

LEMMA TypeInductive ==
  ASSUME TypeOK, [Next]_vars
  PROVE  TypeOK'
<1>1. CASE Next
  BY <1>1, TypeLoad, TypeMutate, TypeSocket, TypeSweep, TypeOther DEF Next
<1>2. CASE UNCHANGED vars
  BY <1>2 DEF vars, board, presence, locks, TypeOK
<1> QED BY <1>1, <1>2

LEMMA TypeInit == Init => TypeOK
<1> SUFFICES ASSUME Init PROVE TypeOK OBVIOUS
<1>1. proc \in [Procs -> Requests] BY RestingFacts DEF Init
<1>2. EmptyHash \in [Elements -> Content] BY DEF EmptyHash, Content
<1>3. db \in [Elements -> Content] BY DEF Init, Content
<1>4. acked \in [Elements -> Nat] /\ writes \in 0..MaxWrites BY BoundAssumption DEF Init
<1>5. sweep \in [at : SweepSteps, found : SUBSET Keys] BY DEF Init, SweepSteps
<1> QED BY <1>1, <1>2, <1>3, <1>4, <1>5 DEF Init, TypeOK, Requests

(* Every record, key and lock of a board stays of its type, with no         *)
(* assumption about when the board is evicted: loadBoard, processBatch,     *)
(* the presence calls and cleanupInactiveBoards never leave a request at a  *)
(* step it does not have, or the sweep with a key that is not the board's.  *)
THEOREM LifecycleTypes == Spec => []TypeOK
  BY TypeInit, TypeInductive, PTL DEF Spec

-----------------------------------------------------------------------------
(* While the board is being evicted *)

RestSteps == {"idle", "dead", "load", "loadWait"}

(* What is inductive beside the types. *)
BarrierInv == SweepInv /\ BarredInv /\ RoleInv /\ MarkedAreHot

LEMMA SweepAtFacts ==
  ASSUME TypeOK, NEW step, SweepAt(step)
  PROVE  sweep'.at = step /\ sweep'.found = sweep.found
  BY DEF TypeOK, SweepAt

(* A step of a request that leaves the board as it is. *)
LEMMA QuietStep ==
  ASSUME EvictionInv, NEW p \in Procs, NEW step, Moved(p, step),
         UNCHANGED <<board, evictionLock, sweep>>,
         evictionLock # "free" => clients' \subseteq clients /\ step \in Barred,
         p \in Rest => step \notin {"track", "joined", "drain"},
         evictionLock # "free" /\ p \in Rest => step \in RestSteps
  PROVE  BarrierInv'
<1> USE DEF EvictionInv, board
<1>1. SweepInv' BY DEF SweepInv, Evicting
<1>2. BarredInv' BY DEF BarredInv, Moved, RestSteps, Procs
<1>3. RoleInv' BY DEF RoleInv, Moved, Procs
<1>4. MarkedAreHot' BY DEF MarkedAreHot
<1> QED BY <1>1, <1>2, <1>3, <1>4 DEF BarrierInv

(* A step that changes a board nobody is evicting. *)
LEMMA FreeStep ==
  ASSUME EvictionInv, evictionLock = "free", UNCHANGED <<evictionLock, sweep>>,
         seq # NoKey => seq' # NoKey,
         sweep.at = "lock" => dirty' \/ marked' = {},
         RoleInv', MarkedAreHot'
  PROVE  BarrierInv'
<1>1. SweepInv' BY DEF EvictionInv, SweepInv, Evicting
<1>2. BarredInv' BY DEF BarredInv
<1> QED BY <1>1, <1>2 DEF BarrierInv

LEMMA PersistCleans ==
  ASSUME EvictionInv, Persist
  PROVE  /\ seq' = seq /\ hot' = hot /\ MarkedAreHot'
         /\ sweep.at = "lock" => marked' = {}
  BY DEF Persist, MarkedAreHot, EvictionInv, SweepInv

LEMMA RoleMoves ==
  ASSUME EvictionInv, NEW p \in Procs, NEW step, Moved(p, step),
         p \in Rest => step \notin {"track", "joined", "drain"}
  PROVE  RoleInv'
  BY DEF RoleInv, Moved, EvictionInv, Procs

(* A request at a step that is not barred knows that nobody is evicting.   *)
LEMMA NotBarred ==
  ASSUME EvictionInv, NEW p \in Procs, proc[p].at \notin Barred
  PROVE  evictionLock = "free"
  BY DEF EvictionInv, BarredInv

LEMMA BarrierLoad ==
  ASSUME EvictionInv, NEW p \in Procs, Arrive(p) \/ Load(p)
  PROVE  BarrierInv'
<1>0. TypeOK BY DEF EvictionInv
<1> USE DEF At, locks, presence, Barred, RestSteps
<1>1. CASE Arrive(p)
  <2>1. Moved(p, "load") BY <1>0, <1>1, LoadMoves
  <2> QED BY <1>1, <2>1, QuietStep DEF Arrive
<1>2. CASE LoadCheck(p)
  <2>1. Moved(p, "loadSeq") BY <1>0, <1>2, LoadMoves
  <2> QED BY <1>2, <2>1, QuietStep DEF LoadCheck
<1>10. CASE LoadCheckSeq(p)
  <2> DEFINE step == IF seq # NoKey THEN AfterLoad(p) ELSE "loadLock"
  <2>1. Moved(p, step) BY <1>0, <1>10, LoadMoves
  <2>2. p \in Rest => step \notin {"track", "joined", "drain"}
    BY ProcAssumption DEF AfterLoad
  <2>3. UNCHANGED <<board, evictionLock, sweep>> /\ evictionLock = "free"
    BY <1>10, NotBarred DEF LoadCheckSeq
  <2> HIDE DEF step
  <2> QED BY <2>1, <2>2, <2>3, QuietStep
<1>3. CASE LoadAcquire(p)
  <2> DEFINE step == IF loadLock = NoProc THEN "loadRecheck" ELSE "loadWait"
  <2>1. Moved(p, step) BY <1>0, <1>3, LoadMoves
  <2>2. evictionLock = "free" BY <1>3, NotBarred DEF LoadAcquire
  <2> QED BY <1>3, <2>1, <2>2, QuietStep DEF LoadAcquire
<1>4. CASE LoadWait(p)
  <2>1. Moved(p, "load") BY <1>0, <1>4, LoadMoves
  <2> QED BY <1>4, <2>1, QuietStep DEF LoadWait, CanProceed
<1>5. CASE LoadRecheck(p)
  <2> DEFINE step == IF seq # NoKey THEN "loadRelease" ELSE "loadSelect"
  <2>1. Moved(p, step) BY <1>0, <1>5, LoadMoves
  <2>2. evictionLock = "free" BY <1>5, NotBarred DEF LoadRecheck
  <2> QED BY <1>5, <2>1, <2>2, QuietStep DEF LoadRecheck
<1>6. CASE LoadSelect(p)
  <2>1. Moved(p, "loadVerify") BY <1>0, <1>6, LoadMoves
  <2>2. evictionLock = "free" BY <1>6, NotBarred DEF LoadSelect
  <2> QED BY <1>6, <2>1, <2>2, QuietStep DEF LoadSelect
<1>7. CASE LoadVerify(p)
  <2> DEFINE step == IF seq # NoKey THEN "loadRelease" ELSE "loadWrite"
  <2>1. Moved(p, step) BY <1>0, <1>7, LoadMoves
  <2>2. evictionLock = "free" BY <1>7, NotBarred DEF LoadVerify
  <2> QED BY <1>7, <2>1, <2>2, QuietStep DEF LoadVerify
<1>8. CASE LoadWrite(p)
  <2>1. Moved(p, "loadRelease") BY <1>0, <1>8, LoadMoves
  <2>2. evictionLock = "free" BY <1>8, NotBarred DEF LoadWrite
  <2>3. RoleInv' BY <2>1, RoleMoves
  <2>4. MarkedAreHot' BY <1>8 DEF LoadWrite, EvictionInv, MarkedAreHot, TypeOK
  <2>5. sweep.at = "lock" => dirty' \/ marked' = {}
    BY <1>8 DEF LoadWrite, EvictionInv, SweepInv
  <2> QED BY <1>8, <2>2, <2>3, <2>4, <2>5, FreeStep DEF LoadWrite, NoKey
<1>9. CASE LoadRelease(p)
  <2>1. Moved(p, AfterLoad(p)) BY <1>0, <1>9, LoadMoves
  <2>2. p \in Rest => AfterLoad(p) \notin {"track", "joined", "drain"}
    BY ProcAssumption DEF AfterLoad
  <2>3. evictionLock = "free" BY <1>9, NotBarred DEF LoadRelease
  <2> QED BY <1>9, <2>1, <2>2, <2>3, QuietStep DEF LoadRelease
<1> QED BY <1>1, <1>2, <1>3, <1>4, <1>5, <1>6, <1>7, <1>8, <1>9, <1>10 DEF Load

LEMMA BarrierMutate ==
  ASSUME EvictionInv, NEW p \in Procs, Mutate(p)
  PROVE  BarrierInv'
<1>0. TypeOK BY DEF EvictionInv
<1> USE DEF At, locks, presence, Barred, RestSteps
<1>a. /\ Rested(p).at \in {"idle", "joined"}
      /\ p \in Rest => Rested(p).at = "idle"
  BY RestingFacts, ProcAssumption DEF Rested
<1>1. CASE Lock(p)
  <2>1. Moved(p, "mode") BY <1>0, <1>1, MutateMoves
  <2>2. p \in Rest => evictionLock = "free" BY <1>1 DEF Lock, EvictionInv, BarredInv
  <2> QED BY <1>1, <2>1, <2>2, QuietStep DEF Lock
<1>2. CASE LockTimesOut(p)
  <2>1. Moved(p, Rested(p).at) BY <1>0, <1>2, MutateMoves
  <2> QED BY <1>2, <1>a, <2>1, QuietStep DEF LockTimesOut
<1>3. CASE GetSyncWriteMode(p)
  <2>1. Moved(p, "await") BY <1>0, <1>3, MutateMoves
  <2> QED BY <1>3, <2>1, QuietStep DEF GetSyncWriteMode, CanProceed
<1>4. CASE AwaitLoad(p)
  <2>1. Moved(p, "incr") BY <1>0, <1>4, MutateMoves
  <2> QED BY <1>4, <2>1, QuietStep DEF AwaitLoad, CanProceed
<1>5. CASE Incr(p)
  <2>1. Moved(p, "pipeline") BY <1>0, <1>5, MutateMoves
  <2>2. evictionLock = "free" BY <1>5, NotBarred DEF Incr
  <2>3. RoleInv' BY <2>1, RoleMoves
  <2>4. MarkedAreHot' BY <1>5 DEF Incr, EvictionInv, MarkedAreHot
  <2>5. sweep.at = "lock" => dirty' \/ marked' = {} BY <1>5 DEF Incr, EvictionInv, SweepInv
  <2>6. seq' # NoKey BY <1>0, <1>5 DEF Incr, NoKey, TypeOK
  <2> QED BY <1>5, <2>2, <2>3, <2>4, <2>5, <2>6, FreeStep DEF Incr
<1>6. CASE Pipeline(p)
  <2>1. Moved(p, IF proc[p].solo THEN "persist" ELSE "rearm") BY <1>0, <1>6, MutateMoves
  <2>2. evictionLock = "free" BY <1>6, NotBarred DEF Pipeline
  <2>3. RoleInv' BY <2>1, RoleMoves
  <2>4. MarkedAreHot'
    <3>1. proc[p].el \in Elements BY <1>0, ProcType DEF Requests
    <3>2. writes + 1 # Absent BY <1>0, BoundAssumption DEF TypeOK, Absent
    <3> QED BY <1>0, <1>6, <3>1, <3>2 DEF Pipeline, EvictionInv, MarkedAreHot, TypeOK
  <2> QED BY <1>6, <2>2, <2>3, <2>4, FreeStep DEF Pipeline
<1>7. CASE PersistSolo(p)
  <2>1. Moved(p, "rearm") BY <1>0, <1>7, MutateMoves
  <2>2. RoleInv' BY <2>1, RoleMoves
  <2> QED BY <1>7, <2>2, PersistCleans, FreeStep DEF PersistSolo, CanProceed
<1>8. CASE PersistSoloFails(p)
  <2>1. Moved(p, Rested(p).at) BY <1>0, <1>8, MutateMoves
  <2>2. evictionLock = "free" BY <1>8, NotBarred DEF PersistSoloFails
  <2> QED BY <1>8, <1>a, <2>1, <2>2, QuietStep DEF PersistSoloFails
<1>9. CASE RearmCollabMode(p)
  <2>1. Moved(p, "ack") BY <1>0, <1>9, MutateMoves
  <2>2. evictionLock = "free" BY <1>9, NotBarred DEF RearmCollabMode
  <2> QED BY <1>9, <2>1, <2>2, QuietStep DEF RearmCollabMode
<1>10. CASE Ack(p)
  <2>1. Moved(p, Rested(p).at) BY <1>0, <1>10, MutateMoves
  <2>2. evictionLock = "free" BY <1>10, NotBarred DEF Ack
  <2> QED BY <1>10, <1>a, <2>1, <2>2, QuietStep DEF Ack
<1> QED BY <1>1, <1>2, <1>3, <1>4, <1>5, <1>6, <1>7, <1>8, <1>9, <1>10 DEF Mutate

LEMMA BarrierSocket ==
  ASSUME EvictionInv, NEW p \in Sockets, Socket(p)
  PROVE  BarrierInv'
<1>0. TypeOK /\ p \in Procs /\ p \notin Rest BY ProcAssumption DEF EvictionInv, Procs
<1> USE DEF At, locks, presence, Barred, RestSteps
<1>2. CASE Track(p)
  <2>1. Moved(p, "joined") BY <1>0, <1>2, SocketMoves
  <2> QED BY <1>0, <1>2, <2>1, QuietStep DEF Track, TrackClient, CanProceed
<1>3. CASE Refresh(p)
  <2>1. evictionLock = "free" /\ RoleInv' /\ MarkedAreHot'
    BY <1>3 DEF Refresh, TrackClient, CanProceed, EvictionInv, RoleInv, MarkedAreHot, board
  <2>2. sweep.at = "lock" => dirty' \/ marked' = {}
    BY <1>3 DEF Refresh, board, EvictionInv, SweepInv
  <2> QED BY <1>3, <2>1, <2>2, FreeStep DEF Refresh, board
<1>4. CASE QuietLeaseExpires(p)
  <2>1. Moved(p, proc[p].at)
    BY <1>0, <1>4, ProcType DEF QuietLeaseExpires, Moved
  <2> QED BY <1>0, <1>4, <2>1, QuietStep DEF QuietLeaseExpires
<1>5. CASE SocketMutates(p)
  <2>1. Moved(p, "lock") BY <1>0, <1>5, SocketMoves
  <2>2. evictionLock # "free" => clients' \subseteq clients
    BY <1>5 DEF SocketMutates, TrackClient, CanProceed
  <2> QED BY <1>0, <1>5, <2>1, <2>2, QuietStep DEF SocketMutates
<1>6. CASE Leave(p)
  <2>1. Moved(p, "drain") BY <1>0, <1>6, SocketMoves
  <2> QED BY <1>0, <1>6, <2>1, QuietStep DEF Leave
<1>7. CASE Drain(p)
  <2>1. Moved(p, "idle") BY <1>0, <1>7, SocketMoves
  <2>2. CASE Persist
    <3>1. RoleInv' BY <1>0, <2>1, RoleMoves
    <3> QED BY <1>7, <2>2, <3>1, PersistCleans, FreeStep DEF Drain, CanProceed
  <2>3. CASE UNCHANGED <<db, board>>
    BY <1>0, <1>7, <2>1, <2>3, QuietStep DEF Drain
  <2> QED BY <1>7, <2>2, <2>3 DEF Drain
<1> QED BY <1>2, <1>3, <1>4, <1>5, <1>6, <1>7 DEF Socket

LEMMA BarrierSweep ==
  ASSUME EvictionInv, QuiescentEviction, SweepsInTime,
         Sweep \/ SweepDies \/ EvictionLockExpires
  PROVE  BarrierInv'
<1>0. TypeOK /\ SweepInv /\ BarredInv /\ RoleInv /\ MarkedAreHot BY DEF EvictionInv
<1> USE DEF board, presence, locks, Evicting, BarrierInv
<1>1. CASE SweepStart
  <2>1. sweep'.at = "persist" BY <1>0, <1>1, SweepAtFacts DEF SweepStart
  <2> QED BY <1>0, <1>1, <2>1
          DEF SweepStart, CanProceed, SweepInv, BarredInv, RoleInv, MarkedAreHot
<1>2. CASE SweepPersist
  <2>1. sweep'.at = "lock" BY <1>0, <1>2, SweepAtFacts DEF SweepPersist
  <2>2. seq # NoKey BY <1>0, <1>2 DEF SweepPersist, SweepInv
  <2>3. marked' = {} /\ seq' = seq BY <1>2, <2>2 DEF SweepPersist, Persist
  <2> QED BY <1>0, <1>2, <2>1, <2>2, <2>3
          DEF SweepPersist, CanProceed, SweepInv, BarredInv, RoleInv, MarkedAreHot
<1>3. CASE SweepLock
  <2>1. evictionLock = "free" /\ seq # NoKey BY <1>0, <1>3 DEF SweepLock, SweepInv
  <2>2. sweep'.at = "check" BY <1>0, <1>3, <2>1, SweepAtFacts DEF SweepLock
  <2>3. marked = {} BY <1>0, <1>3 DEF SweepLock, Quiescent, SweepInv
  <2>4. \A p \in Procs : proc[p].at \in {"idle", "dead", "load", "loadWait", "joined", "drain"}
    BY <1>3 DEF SweepLock, Quiescent
  <2>5. BarredInv'
    BY <1>0, <1>3, <2>1, <2>3, <2>4 DEF SweepLock, BarredInv, Barred, RoleInv, Procs
  <2> QED BY <1>0, <1>3, <2>1, <2>2, <2>5 DEF SweepLock, SweepInv, RoleInv, MarkedAreHot
<1>4. CASE SweepCheck
  <2>1. sweep'.at = IF clients = {} THEN "scan" ELSE "release"
    BY <1>0, <1>4, SweepAtFacts DEF SweepCheck
  <2> QED BY <1>0, <1>4, <2>1 DEF SweepCheck, SweepInv, BarredInv, RoleInv, MarkedAreHot
<1>5. CASE ScanBegin
  <2>1. evictionLock = "held" /\ clients = {} BY <1>0, <1>5 DEF ScanBegin, SweepInv
  <2>2. seq # NoKey BY <1>0, <2>1 DEF BarredInv
  <2>3. /\ {"seq", "evictionLock"} \subseteq PresentKeys
        /\ hot # EmptyHash => "elements" \in PresentKeys
    BY <2>1, <2>2 DEF PresentKeys, Keys
  <2> QED BY <1>0, <1>5, <2>1, <2>3
          DEF ScanBegin, SweepInv, BarredInv, RoleInv, MarkedAreHot
<1>6. CASE ScanEnd
  <2>1. sweep'.at = "del" /\ sweep.found \subseteq sweep'.found BY <1>6 DEF ScanEnd
  <2> QED BY <1>0, <1>6, <2>1 DEF ScanEnd, SweepInv, BarredInv, RoleInv, MarkedAreHot
<1>7. CASE Delete
  <2>1. evictionLock = "held" /\ Gone("evictionLock")
    BY <1>0, <1>7 DEF Delete, SweepInv, Gone
  <2>2. marked = {} BY <1>0, <2>1 DEF BarredInv
  <2> QED BY <1>0, <1>7, <2>1, <2>2 DEF Delete, SweepInv, BarredInv, RoleInv, MarkedAreHot
<1>8. CASE Unindex
  <2>1. sweep'.at = "release" BY <1>0, <1>8, SweepAtFacts DEF Unindex
  <2> QED BY <1>0, <1>8, <2>1 DEF Unindex, SweepInv, BarredInv, RoleInv, MarkedAreHot
<1>9. CASE SweepRelease
  <2>1. sweep'.at = "idle" BY <1>0, <1>9, SweepAtFacts DEF SweepRelease
  <2> QED BY <1>0, <1>9, <2>1 DEF SweepRelease, SweepInv, BarredInv, RoleInv, MarkedAreHot
<1>10. CASE SweepDies
  BY <1>0, <1>10 DEF SweepDies, SweepInv, BarredInv, RoleInv, MarkedAreHot
<1>11. CASE EvictionLockExpires
  BY <1>0, <1>11 DEF EvictionLockExpires, SweepInv, BarredInv, RoleInv, MarkedAreHot
<1> QED BY <1>1, <1>2, <1>3, <1>4, <1>5, <1>6, <1>7, <1>8, <1>9, <1>10, <1>11 DEF Sweep

LEMMA BarrierOther ==
  ASSUME EvictionInv
  PROVE  /\ \A p \in Procs : Dies(p) \/ LoadLockExpires(p) \/ MutationLockExpires(p)
                             \/ LeaseExpires(p) => BarrierInv'
         /\ CollabExpires \/ WorkerFlush \/ ThreeIdleMinutes => BarrierInv'
<1>0. TypeOK /\ SweepInv /\ BarredInv /\ RoleInv /\ MarkedAreHot BY DEF EvictionInv
<1> USE DEF At, board, presence, locks, Barred, RestSteps
<1>1. ASSUME NEW p \in Procs, Dies(p) PROVE BarrierInv'
  <2>1. Moved(p, "dead") BY <1>0, <1>1, SocketMoves
  <2> QED BY <1>1, <2>1, QuietStep DEF Dies
<1>2. ASSUME NEW p \in Procs, LoadLockExpires(p) PROVE BarrierInv'
  BY <1>0, <1>2
  DEF LoadLockExpires, BarrierInv, SweepInv, BarredInv, RoleInv, MarkedAreHot, Evicting
<1>7. ASSUME NEW p \in Procs, MutationLockExpires(p) PROVE BarrierInv'
  BY <1>0, <1>7
  DEF MutationLockExpires, BarrierInv, SweepInv, BarredInv, RoleInv, MarkedAreHot, Evicting
<1>3. ASSUME NEW p \in Procs, LeaseExpires(p) PROVE BarrierInv'
  <2>1. Moved(p, "idle") BY <1>0, <1>3, SocketMoves
  <2> QED BY <1>3, <2>1, QuietStep DEF LeaseExpires
<1>4. CollabExpires => BarrierInv'
  BY <1>0 DEF CollabExpires, BarrierInv, SweepInv, BarredInv, RoleInv, MarkedAreHot, Evicting
<1>5. WorkerFlush => BarrierInv'
  <2>1. WorkerFlush => RoleInv' BY <1>0 DEF WorkerFlush, RoleInv
  <2> QED BY <2>1, PersistCleans, FreeStep DEF WorkerFlush, CanProceed
<1>6. ThreeIdleMinutes => BarrierInv'
  BY <1>0
  DEF ThreeIdleMinutes, BarrierInv, SweepInv, BarredInv, RoleInv, MarkedAreHot, Evicting
<1> QED BY <1>1, <1>2, <1>3, <1>4, <1>5, <1>6, <1>7

LEMMA EvictionInductive ==
  ASSUME EvictionInv, QuiescentEviction, SweepsInTime, [Next]_vars
  PROVE  EvictionInv'
<1>0. TypeOK' BY TypeInductive DEF EvictionInv
<1>1. CASE Next
  <2>1. BarrierInv'
    BY <1>1, BarrierLoad, BarrierMutate, BarrierSocket, BarrierSweep, BarrierOther DEF Next
  <2> QED BY <1>0, <2>1 DEF EvictionInv, BarrierInv
<1>2. CASE UNCHANGED vars
  BY <1>0, <1>2 DEF vars, board, presence, locks, EvictionInv, SweepInv, BarredInv, RoleInv,
                    MarkedAreHot, Evicting
<1> QED BY <1>1, <1>2

LEMMA EvictionInit == Init => EvictionInv
<1> SUFFICES ASSUME Init PROVE EvictionInv OBVIOUS
<1>1. TypeOK BY TypeInit
<1>2. \A p \in Procs : proc[p].at = "idle" BY RestingFacts DEF Init
<1> QED BY <1>1, <1>2
        DEF Init, EvictionInv, SweepInv, BarredInv, RoleInv, MarkedAreHot, Evicting, Procs

(* When boards are evicted while quiescent and within the 30 s of the       *)
(* eviction lock: while flushBoard holds that lock no marker waits for a    *)
(* flush and every request is at a step that the lock bars, which is what   *)
(* makes the DEL of the board's keys safe.  Loads may outlive their lock.   *)
THEOREM EvictionIsAlone ==
  ASSUME QuiescentEviction, SweepsInTime PROVE Spec => []EvictionInv
<1>1. ASSUME EvictionInv, [Next]_vars PROVE EvictionInv' BY <1>1, EvictionInductive
<1> QED BY <1>1, EvictionInit, PTL DEF Spec

(* Under the same two assumptions persistBoard, whoever calls it, never     *)
(* erases a row: a marked element that the hash lost to an eviction would   *)
(* be taken for a deleted one.                                              *)
THEOREM RowsStay ==
  ASSUME QuiescentEviction, SweepsInTime PROVE Spec => RowsNeverErased
<1>1. ASSUME EvictionInv, [Next]_vars
      PROVE  [\A e \in Elements : db[e] # Absent => db[e]' # Absent]_vars
  <2>1. ASSUME Persist, NEW e \in Elements, db[e] # Absent PROVE db'[e] # Absent
    BY <1>1, <2>1 DEF Persist, EvictionInv, MarkedAreHot
  <2>2. CASE UNCHANGED vars BY <2>2
  <2>3. Next => Persist \/ UNCHANGED db
    BY DEF Next, Arrive, Load, LoadCheck, LoadCheckSeq, LoadAcquire, LoadWait, LoadRecheck, LoadSelect,
           LoadVerify, LoadWrite, LoadRelease, Mutate, Lock, LockTimesOut, GetSyncWriteMode,
           AwaitLoad, Incr, Pipeline, PersistSolo, PersistSoloFails, RearmCollabMode, Ack,
           Socket, Track, Refresh, QuietLeaseExpires, SocketMutates, Leave, Drain, Dies,
           LoadLockExpires, MutationLockExpires, LeaseExpires, CollabExpires, WorkerFlush, ThreeIdleMinutes, Sweep,
           SweepStart, SweepPersist, SweepLock, SweepCheck, ScanBegin, ScanEnd, Delete,
           Unindex, SweepRelease, SweepDies, EvictionLockExpires
  <2> QED BY <1>1, <2>1, <2>2, <2>3
<1> QED BY <1>1, EvictionIsAlone, PTL DEF RowsNeverErased, Spec

-----------------------------------------------------------------------------
(* Acknowledged changes *)

(* A step of request p that neither loads nor unloads the board and writes *)
(* no older content over a newer one.                                      *)
LEMMA RequestKeeps ==
  ASSUME TypeOK, TypeOK', BoardInv, NEW p \in Procs, NEW step, Moved(p, step),
         seq = NoKey <=> seq' = NoKey,
         seq = NoKey => db' = db,
         \A e \in Elements : hot'[e] >= hot[e],
         \A q \in Sockets : q # p /\ q \in clients => q \in clients',
         p \in Sockets /\ step \in OnBoard => p \in clients',
         \A q \in Procs : q # p /\ proc[q].at \in LoadSteps => loadLock' = q,
         step \in UsesBoard => seq # NoKey,
         step \in LoadSteps => loadLock' = p,
         step \in {"loadSelect", "loadVerify", "loadWrite"} => seq = NoKey,
         step \in {"loadVerify", "loadWrite"} => proc'[p].rows = db,
         step \in Unacked => hot'[proc'[p].el] >= proc'[p].content
  PROVE  RequestInv'
<1>1. ClientInv' BY DEF ClientInv, Moved, BoardInv, RequestInv, Procs
<1>2. LoadInv'
  <2> SUFFICES ASSUME NEW q \in Procs
               PROVE  /\ proc'[q].at \in UsesBoard => seq' # NoKey
                      /\ proc'[q].at \in LoadSteps => loadLock' = q
                      /\ proc'[q].at \in {"loadSelect", "loadVerify", "loadWrite"} => seq' = NoKey
                      /\ proc'[q].at \in {"loadVerify", "loadWrite"} => proc'[q].rows = db'
    BY DEF LoadInv
  <2>1. CASE q = p BY <2>1 DEF Moved
  <2>2. CASE q # p
    <3>1. proc'[q] = proc[q] BY <2>2 DEF Moved
    <3> QED BY <2>2, <3>1 DEF LoadInv, BoardInv, RequestInv
  <2> QED BY <2>1, <2>2
<1>3. PendingInv'
  <2> SUFFICES ASSUME NEW q \in Procs, proc'[q].at \in Unacked
               PROVE  hot'[proc'[q].el] >= proc'[q].content
    BY DEF PendingInv
  <2>1. CASE q = p BY <2>1 DEF Moved
  <2>2. CASE q # p
    <3>1. proc'[q] = proc[q] BY <2>2 DEF Moved
    <3>2. proc[q].el \in Elements /\ proc[q].content \in Nat BY ProcType DEF Requests
    <3>3. hot[proc[q].el] >= proc[q].content BY <3>1 DEF PendingInv, BoardInv, RequestInv
    <3>4. hot[proc[q].el] \in Int /\ hot'[proc[q].el] \in Int
      BY <3>2 DEF TypeOK, Content, Absent
    <3> QED BY <3>1, <3>2, <3>3, <3>4
  <2> QED BY <2>1, <2>2
<1> QED BY <1>1, <1>2, <1>3 DEF RequestInv

LEMMA DataSame ==
  ASSUME BoardInv, UNCHANGED <<db, seq, hot, marked, writes, acked>>
  PROVE  DataInv'
  BY DEF BoardInv, DataInv, UnloadedEmpty, Numbered, LoadedComplete, AckedSurvives, Visible

LEMMA DataPersist ==
  ASSUME TypeOK, BoardInv, Persist, UNCHANGED <<writes, acked>>
  PROVE  DataInv'
<1> USE DEF BoardInv, DataInv, Persist
<1>1. UnloadedEmpty' BY DEF UnloadedEmpty
<1>2. Numbered' BY DEF Numbered, TypeOK
<1>3. LoadedComplete' BY DEF LoadedComplete, TypeOK
<1>4. AckedSurvives' BY DEF AckedSurvives, Visible
<1> QED BY <1>1, <1>2, <1>3, <1>4

(* A step that leaves the contents alone.  What it does to the requests is *)
(* the premise.                                                            *)
LEMMA QuietKeeps ==
  ASSUME TypeOK, TypeOK', BoardInv, NEW p \in Procs, NEW step, Moved(p, step),
         UNCHANGED <<db, seq, hot, marked, writes, acked>>,
         \A q \in Sockets : q # p /\ q \in clients => q \in clients',
         p \in Sockets /\ step \in OnBoard => p \in clients',
         \A q \in Procs : q # p /\ proc[q].at \in LoadSteps => loadLock' = q,
         step \in UsesBoard => seq # NoKey,
         step \in LoadSteps => loadLock' = p,
         step \in {"loadSelect", "loadVerify", "loadWrite"} => seq = NoKey,
         step \in {"loadVerify", "loadWrite"} => proc'[p].rows = db,
         step \in Unacked => hot[proc'[p].el] >= proc'[p].content
  PROVE  BoardInv'
<1>0. \A e \in Elements : hot[e] \in Int BY DEF TypeOK, Content, Absent
<1>1. \A e \in Elements : hot'[e] >= hot[e] BY <1>0
<1>2. RequestInv' BY <1>1, RequestKeeps
<1> QED BY <1>2, DataSame DEF BoardInv

(* What a request knows where it is. *)
LEMMA BoardFacts ==
  ASSUME BoardInv, NEW p \in Procs
  PROVE  /\ p \in Sockets /\ proc[p].at \in OnBoard => p \in clients
         /\ proc[p].at \in UsesBoard => seq # NoKey
         /\ proc[p].at \in LoadSteps => loadLock = p
         /\ \A q \in Procs : proc[q].at \in LoadSteps => loadLock = q
         /\ proc[p].at \in {"loadSelect", "loadVerify", "loadWrite"} => seq = NoKey
         /\ proc[p].at \in {"loadVerify", "loadWrite"} => proc[p].rows = db
         /\ proc[p].at \in Unacked => hot[proc[p].el] >= proc[p].content
  BY DEF BoardInv, RequestInv, ClientInv, LoadInv, PendingInv

LEMMA BoardLoad ==
  ASSUME TypeOK, TypeOK', BoardInv, NEW p \in Procs, Arrive(p) \/ Load(p)
  PROVE  BoardInv'
<1> USE DEF At, locks, presence, board, OnBoard, UsesBoard, LoadSteps, Unacked
<1>0. \A q \in Procs : proc[q].at \in LoadSteps => loadLock = q BY BoardFacts
<1>a. p \in Sockets => AfterLoad(p) = "track" BY DEF AfterLoad
<1>b. AfterLoad(p) \in {"track", "lock"} BY DEF AfterLoad
<1>1. CASE Arrive(p)
  <2>1. Moved(p, "load") BY <1>1, LoadMoves
  <2> QED BY <1>0, <1>1, <2>1, QuietKeeps DEF Arrive
<1>2. CASE LoadCheck(p)
  <2>1. Moved(p, "loadSeq") BY <1>2, LoadMoves
  <2> QED BY <1>0, <1>2, <2>1, QuietKeeps DEF LoadCheck
<1>10. CASE LoadCheckSeq(p)
  <2>1. CASE seq # NoKey
    <3>1. Moved(p, AfterLoad(p)) BY <1>10, <2>1, LoadMoves
    <3> QED BY <1>0, <1>10, <1>a, <1>b, <2>1, <3>1, QuietKeeps DEF LoadCheckSeq
  <2>2. CASE seq = NoKey
    <3>1. Moved(p, "loadLock") BY <1>10, <2>2, LoadMoves
    <3> QED BY <1>0, <1>10, <3>1, QuietKeeps DEF LoadCheckSeq
  <2> QED BY <2>1, <2>2
<1>3. CASE LoadAcquire(p)
  <2>1. CASE loadLock = NoProc
    <3>1. Moved(p, "loadRecheck") BY <1>3, <2>1, LoadMoves
    <3>2. \A q \in Procs : proc[q].at \notin LoadSteps BY <1>0, <2>1, ProcAssumption
    <3>3. loadLock' = p /\ UNCHANGED <<db, seq, hot, marked, writes, acked, clients>>
      BY <1>3, <2>1 DEF LoadAcquire
    <3> QED BY <3>1, <3>2, <3>3, QuietKeeps
  <2>2. CASE loadLock # NoProc
    <3>1. Moved(p, "loadWait") BY <1>3, <2>2, LoadMoves
    <3> QED BY <1>0, <1>3, <2>2, <3>1, QuietKeeps DEF LoadAcquire
  <2> QED BY <2>1, <2>2
<1>4. CASE LoadWait(p)
  <2>1. Moved(p, "load") BY <1>4, LoadMoves
  <2> QED BY <1>0, <1>4, <2>1, QuietKeeps DEF LoadWait
<1>5. CASE LoadRecheck(p)
  <2>0. loadLock = p BY <1>0, <1>5 DEF LoadRecheck
  <2>1. CASE seq # NoKey
    <3>1. Moved(p, "loadRelease") BY <1>5, <2>1, LoadMoves
    <3> QED BY <1>0, <1>5, <2>0, <2>1, <3>1, QuietKeeps DEF LoadRecheck
  <2>2. CASE seq = NoKey
    <3>1. Moved(p, "loadSelect") BY <1>5, <2>2, LoadMoves
    <3> QED BY <1>0, <1>5, <2>0, <2>2, <3>1, QuietKeeps DEF LoadRecheck
  <2> QED BY <2>1, <2>2
<1>6. CASE LoadSelect(p)
  <2>1. Moved(p, "loadVerify") /\ proc'[p].rows = db BY <1>6, LoadMoves
  <2>2. loadLock = p /\ seq = NoKey BY <1>6, BoardFacts DEF LoadSelect
  <2> QED BY <1>0, <1>6, <2>1, <2>2, QuietKeeps DEF LoadSelect
<1>7. CASE LoadVerify(p)
  <2>1. Moved(p, "loadWrite") /\ proc'[p].rows = proc[p].rows
        /\ loadLock = p /\ seq = NoKey /\ proc[p].rows = db
    BY <1>7, LoadMoves, BoardFacts DEF LoadVerify
  <2> QED BY <1>0, <1>7, <2>1, QuietKeeps DEF LoadVerify
<1>8. CASE LoadWrite(p)
  <2>1. Moved(p, "loadRelease") BY <1>8, LoadMoves
  <2>2. loadLock = p /\ seq = NoKey /\ proc[p].rows = db BY <1>8, BoardFacts DEF LoadWrite
  <2>3. hot = EmptyHash /\ marked = {} BY <2>2 DEF BoardInv, DataInv, UnloadedEmpty
  <2>4. seq' = 0 /\ UNCHANGED <<db, marked, writes, acked, loadLock, clients>>
    BY <1>8 DEF LoadWrite
  <2>5. hot' = db BY <1>8, <2>2, <2>3 DEF LoadWrite, EmptyHash, TypeOK
  <2>6. \A q \in Procs : q # p => proc'[q] = proc[q] /\ proc[q].at \notin UsesBoard \cup LoadSteps
    BY <2>1, <2>2, BoardFacts DEF Moved
  <2>7. RequestInv'
    <3>1. ClientInv' BY <2>1, <2>6 DEF ClientInv, Procs, Moved
    <3>2. LoadInv' BY <2>1, <2>2, <2>4, <2>6 DEF LoadInv, Moved, NoKey
    <3>3. PendingInv' BY <2>1, <2>6 DEF PendingInv, Moved
    <3> QED BY <3>1, <3>2, <3>3 DEF RequestInv
  <2>8. DataInv'
    <3>1. UnloadedEmpty' BY <2>4 DEF UnloadedEmpty, NoKey
    <3>2. Numbered' BY <2>4, <2>5 DEF Numbered, BoardInv, DataInv
    <3>3. LoadedComplete' BY <2>4, <2>5 DEF LoadedComplete
    <3>4. AckedSurvives'
      BY <2>2, <2>4, <2>5 DEF AckedSurvives, Visible, BoardInv, DataInv, NoKey
    <3> QED BY <3>1, <3>2, <3>3, <3>4 DEF DataInv
  <2> QED BY <2>7, <2>8 DEF BoardInv
<1>9. CASE LoadRelease(p)
  <2>1. Moved(p, AfterLoad(p)) BY <1>9, LoadMoves
  <2>2. loadLock = p /\ seq # NoKey BY <1>9, BoardFacts DEF LoadRelease
  <2>3. \A q \in Procs : q # p => proc[q].at \notin LoadSteps BY <1>0, <2>2
  <2>4. UNCHANGED <<db, seq, hot, marked, writes, acked, clients>> BY <1>9 DEF LoadRelease
  <2> QED BY <1>a, <1>b, <2>1, <2>2, <2>3, <2>4, QuietKeeps
<1> QED BY <1>1, <1>2, <1>3, <1>4, <1>5, <1>6, <1>7, <1>8, <1>9, <1>10 DEF Load

LEMMA BoardMutate ==
  ASSUME TypeOK, TypeOK', BoardInv, NEW p \in Procs, Mutate(p)
  PROVE  BoardInv'
<1> USE DEF At, locks, presence, board, OnBoard, UsesBoard, LoadSteps, Unacked
<1>0. \A q \in Procs : proc[q].at \in LoadSteps => loadLock = q BY BoardFacts
<1>a. /\ Rested(p).at \in {"idle", "joined"}
      /\ Rested(p).at = "joined" => p \in Sockets
  BY RestingFacts DEF Rested
<1>b. proc[p].el \in Elements /\ proc[p].content \in Nat BY ProcType DEF Requests
<1>c. \A e \in Elements : hot[e] \in Int /\ hot'[e] \in Int BY DEF TypeOK, Content, Absent
<1>1. CASE Lock(p)
  <2>1. Moved(p, "mode") BY <1>1, MutateMoves
  <2>2. seq # NoKey /\ (p \in Sockets => p \in clients) BY <1>1, BoardFacts DEF Lock
  <2> QED BY <1>0, <1>1, <2>1, <2>2, QuietKeeps DEF Lock
<1>2. CASE LockTimesOut(p)
  <2>1. Moved(p, Rested(p).at) BY <1>2, MutateMoves
  <2>2. seq # NoKey /\ (p \in Sockets => p \in clients) BY <1>2, BoardFacts DEF LockTimesOut
  <2> QED BY <1>0, <1>2, <1>a, <2>1, <2>2, QuietKeeps DEF LockTimesOut
<1>3. CASE GetSyncWriteMode(p)
  <2>1. Moved(p, "await") BY <1>3, MutateMoves
  <2>2. seq # NoKey /\ (p \in Sockets => p \in clients) BY <1>3, BoardFacts DEF GetSyncWriteMode
  <2> QED BY <1>0, <1>3, <2>1, <2>2, QuietKeeps DEF GetSyncWriteMode
<1>4. CASE AwaitLoad(p)
  <2>1. Moved(p, "incr") BY <1>4, MutateMoves
  <2>2. seq # NoKey /\ (p \in Sockets => p \in clients) BY <1>4, BoardFacts DEF AwaitLoad
  <2> QED BY <1>0, <1>4, <2>1, <2>2, QuietKeeps DEF AwaitLoad
<1>5. CASE Incr(p)
  <2>1. Moved(p, "pipeline") BY <1>5, MutateMoves
  <2>2. seq # NoKey /\ (p \in Sockets => p \in clients) BY <1>5, BoardFacts DEF Incr
  <2>3. seq' # NoKey BY <1>5 DEF Incr, NoKey, TypeOK
  <2>4. UNCHANGED <<db, hot, marked, writes, acked, clients, loadLock>> BY <1>5 DEF Incr
  <2>5. \A e \in Elements : hot'[e] >= hot[e] BY <1>c, <2>4
  <2>6. RequestInv' BY <1>0, <2>1, <2>2, <2>3, <2>4, <2>5, RequestKeeps
  <2>7. DataInv'
    BY <2>2, <2>3, <2>4
    DEF BoardInv, DataInv, UnloadedEmpty, Numbered, LoadedComplete, AckedSurvives, Visible
  <2> QED BY <2>6, <2>7 DEF BoardInv
<1>6. CASE Pipeline(p)
  <2> DEFINE step == IF proc[p].solo THEN "persist" ELSE "rearm"
  <2>1. Moved(p, step) /\ proc'[p].el = proc[p].el /\ proc'[p].content = writes + 1
    BY <1>6, MutateMoves
  <2>2. seq # NoKey /\ (p \in Sockets => p \in clients) BY <1>6, BoardFacts DEF Pipeline
  <2>3. UNCHANGED <<db, seq, acked, clients, loadLock>> BY <1>6 DEF Pipeline
  <2>4. step \in {"persist", "rearm"} OBVIOUS
  <2>5. writes \in Nat /\ writes' = writes + 1 BY <1>6, BoundAssumption DEF Pipeline, TypeOK
  <2>6. hot'[proc[p].el] = writes + 1 /\ marked' = marked \cup {proc[p].el}
    BY <1>6, <1>b DEF Pipeline, TypeOK
  <2>7. \A e \in Elements : e # proc[p].el => hot'[e] = hot[e] BY <1>6 DEF Pipeline, TypeOK
  <2>8. \A e \in Elements : hot[e] <= writes /\ db[e] <= writes
    BY DEF BoardInv, DataInv, Numbered
  <2>9. \A e \in Elements : hot'[e] >= hot[e] BY <1>c, <2>5, <2>6, <2>7, <2>8
  <2>10. hot'[proc'[p].el] >= proc'[p].content BY <2>1, <2>5, <2>6
  <2> HIDE DEF step
  <2>11. RequestInv' BY <1>0, <2>1, <2>2, <2>3, <2>4, <2>9, <2>10, RequestKeeps
  <2>12. UnloadedEmpty' BY <2>2, <2>3 DEF UnloadedEmpty
  <2>13. Numbered'
    <3>1. \A e \in Elements : db[e] \in Int BY DEF TypeOK, Content, Absent
    <3> QED BY <1>c, <3>1, <2>3, <2>5, <2>6, <2>7, <2>8 DEF Numbered
  <2>14. LoadedComplete'
    BY <2>2, <2>3, <2>6, <2>7 DEF LoadedComplete, BoardInv, DataInv
  <2>15. AckedSurvives'
    <3>1. \A e \in Elements : acked[e] > 0 => hot[e] >= acked[e]
      BY <2>2 DEF AckedSurvives, Visible, BoardInv, DataInv
    <3>2. \A e \in Elements : acked[e] \in Int BY DEF TypeOK
    <3> QED BY <1>c, <2>2, <2>3, <2>9, <3>1, <3>2 DEF AckedSurvives, Visible
  <2> QED BY <2>11, <2>12, <2>13, <2>14, <2>15 DEF BoardInv, DataInv
<1>7. CASE PersistSolo(p)
  <2>1. Moved(p, "rearm") /\ proc'[p].el = proc[p].el /\ proc'[p].content = proc[p].content
    BY <1>7, MutateMoves
  <2>2. seq # NoKey /\ (p \in Sockets => p \in clients)
        /\ hot[proc[p].el] >= proc[p].content
    BY <1>7, BoardFacts DEF PersistSolo
  <2>3. UNCHANGED <<seq, hot, writes, acked, clients, loadLock>> BY <1>7 DEF PersistSolo, Persist
  <2>4. \A e \in Elements : hot'[e] >= hot[e] BY <1>c, <2>3
  <2>5. hot'[proc'[p].el] >= proc'[p].content BY <2>1, <2>2, <2>3
  <2>6. RequestInv' BY <1>0, <2>1, <2>2, <2>3, <2>4, <2>5, RequestKeeps
  <2>7. DataInv' BY <1>7, <2>3, DataPersist DEF PersistSolo
  <2> QED BY <2>6, <2>7 DEF BoardInv
<1>8. CASE PersistSoloFails(p)
  <2>1. Moved(p, Rested(p).at) BY <1>8, MutateMoves
  <2>2. seq # NoKey /\ (p \in Sockets => p \in clients) BY <1>8, BoardFacts DEF PersistSoloFails
  <2> QED BY <1>0, <1>8, <1>a, <2>1, <2>2, QuietKeeps DEF PersistSoloFails
<1>9. CASE RearmCollabMode(p)
  <2>1. Moved(p, "ack") /\ proc'[p].el = proc[p].el /\ proc'[p].content = proc[p].content
    BY <1>9, MutateMoves
  <2>2. seq # NoKey /\ (p \in Sockets => p \in clients)
        /\ hot[proc[p].el] >= proc[p].content
    BY <1>9, BoardFacts DEF RearmCollabMode
  <2> QED BY <1>0, <1>9, <2>1, <2>2, QuietKeeps DEF RearmCollabMode
<1>10. CASE Ack(p)
  <2>1. Moved(p, Rested(p).at) BY <1>10, MutateMoves
  <2>2. seq # NoKey /\ (p \in Sockets => p \in clients)
        /\ hot[proc[p].el] >= proc[p].content
    BY <1>10, BoardFacts DEF Ack
  <2>3. UNCHANGED <<db, seq, hot, marked, writes, clients, loadLock>> BY <1>10 DEF Ack
  <2>4. \A e \in Elements : hot'[e] >= hot[e] BY <1>c, <2>3
  <2>5. RequestInv' BY <1>0, <1>a, <2>1, <2>2, <2>3, <2>4, RequestKeeps
  <2>6. AckedSurvives'
    BY <1>10, <1>b, <2>2, <2>3 DEF Ack, AckedSurvives, Visible, BoardInv, DataInv, TypeOK
  <2>7. DataInv'
    BY <2>3, <2>6 DEF BoardInv, DataInv, UnloadedEmpty, Numbered, LoadedComplete
  <2> QED BY <2>5, <2>7 DEF BoardInv
<1> QED BY <1>1, <1>2, <1>3, <1>4, <1>5, <1>6, <1>7, <1>8, <1>9, <1>10 DEF Mutate

LEMMA BoardSocket ==
  ASSUME TypeOK, TypeOK', BoardInv, ActiveSockets, NEW p \in Sockets, Socket(p)
  PROVE  BoardInv'
<1> USE DEF At, locks, presence, board, OnBoard, UsesBoard, LoadSteps, Unacked
<1>p. p \in Procs BY DEF Procs
<1>0. \A q \in Procs : proc[q].at \in LoadSteps => loadLock = q BY <1>p, BoardFacts
<1>c. \A e \in Elements : hot[e] \in Int /\ hot'[e] \in Int BY DEF TypeOK, Content, Absent
<1>2. CASE Track(p)
  <2>1. Moved(p, "joined") BY <1>p, <1>2, SocketMoves
  <2>2. seq # NoKey BY <1>p, <1>2, BoardFacts DEF Track
  <2> QED BY <1>0, <1>p, <1>2, <2>1, <2>2, QuietKeeps DEF Track, TrackClient
<1>3. CASE Refresh(p)
  <2>1. Moved(p, "joined") BY <1>p, <1>3, ProcType DEF Refresh, Moved
  <2>2. seq # NoKey BY <1>p, <1>3, BoardFacts DEF Refresh
  <2> QED BY <1>0, <1>p, <1>3, <2>1, <2>2, QuietKeeps DEF Refresh, TrackClient
<1>4. CASE QuietLeaseExpires(p) BY <1>4 DEF QuietLeaseExpires
<1>5. CASE SocketMutates(p)
  <2>1. Moved(p, "lock") BY <1>p, <1>5, SocketMoves
  <2>2. seq # NoKey /\ p \in clients BY <1>p, <1>5, BoardFacts DEF SocketMutates
  <2>3. clients \subseteq clients' BY <1>5 DEF SocketMutates, TrackClient
  <2> QED BY <1>0, <1>p, <1>5, <2>1, <2>2, <2>3, QuietKeeps DEF SocketMutates
<1>6. CASE Leave(p)
  <2>1. Moved(p, "drain") BY <1>p, <1>6, SocketMoves
  <2> QED BY <1>0, <1>p, <1>6, <2>1, QuietKeeps DEF Leave
<1>7. CASE Drain(p)
  <2>1. Moved(p, "idle") BY <1>p, <1>7, SocketMoves
  <2>2. CASE Persist
    <3>1. UNCHANGED <<seq, hot, writes, acked, clients, loadLock>>
          /\ (seq = NoKey => db' = db)
      BY <1>7, <2>2 DEF Drain, Persist
    <3>2. \A e \in Elements : hot'[e] >= hot[e] BY <1>c, <3>1
    <3>3. RequestInv' BY <1>0, <1>p, <2>1, <3>1, <3>2, RequestKeeps
    <3>4. DataInv' BY <2>2, <3>1, DataPersist
    <3> QED BY <3>3, <3>4 DEF BoardInv
  <2>3. CASE UNCHANGED <<db, board>>
    BY <1>0, <1>p, <1>7, <2>1, <2>3, QuietKeeps DEF Drain
  <2> QED BY <1>7, <2>2, <2>3 DEF Drain
<1> QED BY <1>2, <1>3, <1>4, <1>5, <1>6, <1>7 DEF Socket

(* A step of nobody's request. *)
LEMMA IdleKeeps ==
  ASSUME BoardInv, UNCHANGED <<db, seq, hot, marked, clients, loadLock, proc, writes, acked>>
  PROVE  BoardInv'
<1>1. RequestInv' BY DEF BoardInv, RequestInv, ClientInv, LoadInv, PendingInv
<1> QED BY <1>1, DataSame DEF BoardInv

LEMMA FlushKeeps ==
  ASSUME TypeOK, BoardInv, Persist, UNCHANGED <<clients, loadLock, proc, writes, acked>>
  PROVE  BoardInv'
<1>1. ClientInv' /\ PendingInv'
  BY DEF Persist, BoardInv, RequestInv, ClientInv, PendingInv
<1>2. LoadInv' BY DEF Persist, BoardInv, RequestInv, LoadInv
<1> QED BY <1>1, <1>2, DataPersist DEF BoardInv, RequestInv

(* The DEL finds a board whose content is in the table and that nobody is  *)
(* on.                                                                     *)
LEMMA DeletedIsDeserted ==
  ASSUME EvictionInv, ClientInv, Delete
  PROVE  /\ Gone("seq") /\ marked = {} /\ clients = {} /\ seq # NoKey
         /\ hot # EmptyHash => Gone("elements")
         /\ \A p \in Procs : proc[p].at \in {"idle", "dead", "load", "loadWait", "drain"}
<1>1. /\ evictionLock = "held" /\ clients = {} /\ Gone("seq")
      /\ hot # EmptyHash => Gone("elements")
  BY DEF EvictionInv, SweepInv, Delete, Evicting, Gone
<1>2. /\ marked = {} /\ seq # NoKey
      /\ \A p \in Procs : proc[p].at \in Barred
      /\ \A p \in Rest : proc[p].at \in {"idle", "dead", "load", "loadWait"}
  BY <1>1 DEF EvictionInv, BarredInv
<1>3. \A p \in Sockets : proc[p].at \notin OnBoard
  BY <1>1 DEF ClientInv
<1>4. ASSUME NEW p \in Procs
      PROVE  proc[p].at \in {"idle", "dead", "load", "loadWait", "drain"}
  BY <1>2, <1>3 DEF Procs, Barred, OnBoard
<1> QED BY <1>1, <1>2, <1>4

LEMMA BoardSweep ==
  ASSUME EvictionInv, BoardInv, Sweep \/ SweepDies \/ EvictionLockExpires
  PROVE  BoardInv'
<1>0. TypeOK BY DEF EvictionInv
<1> USE DEF board, presence, locks
<1>1. CASE SweepStart BY <1>1, IdleKeeps DEF SweepStart
<1>2. CASE SweepPersist BY <1>0, <1>2, FlushKeeps DEF SweepPersist
<1>3. CASE SweepLock BY <1>3, IdleKeeps DEF SweepLock
<1>4. CASE SweepCheck BY <1>4, IdleKeeps DEF SweepCheck
<1>5. CASE ScanBegin BY <1>5, IdleKeeps DEF ScanBegin
<1>6. CASE ScanEnd BY <1>6, IdleKeeps DEF ScanEnd
<1>7. CASE Delete
  <2>1. /\ Gone("seq") /\ marked = {} /\ clients = {} /\ seq # NoKey
        /\ hot # EmptyHash => Gone("elements")
        /\ \A p \in Procs : proc[p].at \in {"idle", "dead", "load", "loadWait", "drain"}
    BY <1>7, DeletedIsDeserted DEF BoardInv, RequestInv
  <2>2. /\ seq' = NoKey /\ hot' = EmptyHash /\ marked' = {}
        /\ UNCHANGED <<db, proc, writes, acked>>
    BY <1>7, <2>1 DEF Delete
  <2>3. RequestInv'
    BY <2>1, <2>2 DEF RequestInv, ClientInv, LoadInv, PendingInv, OnBoard, UsesBoard,
                      LoadSteps, Unacked, Procs
  <2>4. \A e \in Elements : hot[e] = db[e] BY <2>1 DEF BoardInv, DataInv, LoadedComplete
  <2>5. UnloadedEmpty' /\ LoadedComplete' BY <2>2 DEF UnloadedEmpty, LoadedComplete
  <2>6. Numbered'
    <3>1. writes \in Nat BY <1>0 DEF TypeOK
    <3>2. \A e \in Elements : hot'[e] <= writes BY <2>2, <3>1 DEF EmptyHash, Absent
    <3> QED BY <2>2, <3>2 DEF Numbered, BoardInv, DataInv
  <2>7. AckedSurvives'
    BY <2>1, <2>2, <2>4 DEF AckedSurvives, Visible, BoardInv, DataInv
  <2> QED BY <2>3, <2>5, <2>6, <2>7 DEF BoardInv, DataInv
<1>8. CASE Unindex BY <1>8, IdleKeeps DEF Unindex
<1>9. CASE SweepRelease BY <1>9, IdleKeeps DEF SweepRelease
<1>10. CASE SweepDies BY <1>10, IdleKeeps DEF SweepDies
<1>11. CASE EvictionLockExpires BY <1>11, IdleKeeps DEF EvictionLockExpires
<1> QED BY <1>1, <1>2, <1>3, <1>4, <1>5, <1>6, <1>7, <1>8, <1>9, <1>10, <1>11 DEF Sweep

LEMMA BoardOther ==
  ASSUME TypeOK, TypeOK', BoardInv, LoadsInTime
  PROVE  /\ \A p \in Procs : Dies(p) \/ LoadLockExpires(p) \/ MutationLockExpires(p)
                             \/ LeaseExpires(p) => BoardInv'
         /\ CollabExpires \/ WorkerFlush \/ ThreeIdleMinutes => BoardInv'
<1> USE DEF At, locks, presence, board, OnBoard, UsesBoard, LoadSteps, Unacked
<1>0. ASSUME NEW p \in Procs PROVE \A q \in Procs : proc[q].at \in LoadSteps => loadLock = q
  BY BoardFacts
<1>1. ASSUME NEW p \in Procs, Dies(p) PROVE BoardInv'
  <2>1. Moved(p, "dead") BY <1>1, SocketMoves
  <2> QED BY <1>0, <1>1, <2>1, QuietKeeps DEF Dies
<1>2. ASSUME NEW p \in Procs, LoadLockExpires(p) PROVE BoardInv'
  <2>1. Moved(p, "dead") BY <1>2, ProcType DEF LoadLockExpires, Moved
  <2>2. \A q \in Procs : q # p /\ proc[q].at \in LoadSteps => loadLock' = q
    BY <1>0, <1>2 DEF LoadLockExpires
  <2> QED BY <1>2, <2>1, <2>2, QuietKeeps DEF LoadLockExpires
<1>7. ASSUME NEW p \in Procs, MutationLockExpires(p) PROVE BoardInv'
  BY <1>7, IdleKeeps DEF MutationLockExpires
<1>3. ASSUME NEW p \in Procs, LeaseExpires(p) PROVE BoardInv'
  <2>1. Moved(p, "idle") BY <1>3, SocketMoves
  <2> QED BY <1>0, <1>3, <2>1, QuietKeeps DEF LeaseExpires
<1>4. CollabExpires => BoardInv' BY IdleKeeps DEF CollabExpires
<1>5. WorkerFlush => BoardInv' BY FlushKeeps DEF WorkerFlush
<1>6. ThreeIdleMinutes => BoardInv' BY IdleKeeps DEF ThreeIdleMinutes
<1> QED BY <1>1, <1>2, <1>3, <1>4, <1>5, <1>6, <1>7

LEMMA BoardInductive ==
  ASSUME EvictionInv, EvictionInv', BoardInv, ActiveSockets, LoadsInTime, [Next]_vars
  PROVE  BoardInv'
<1>0. TypeOK /\ TypeOK' BY DEF EvictionInv
<1>1. CASE Next
  BY <1>0, <1>1, BoardLoad, BoardMutate, BoardSocket, BoardSweep, BoardOther DEF Next
<1>2. CASE UNCHANGED vars
  BY <1>2, IdleKeeps DEF vars, board, presence, locks
<1> QED BY <1>1, <1>2

LEMMA BoardInit == Init => BoardInv
<1> SUFFICES ASSUME Init PROVE BoardInv OBVIOUS
<1>1. \A p \in Procs : proc[p].at = "idle" BY RestingFacts DEF Init
<1>2. RequestInv
  BY <1>1 DEF RequestInv, ClientInv, LoadInv, PendingInv, OnBoard, UsesBoard, LoadSteps,
              Unacked, Procs
<1>3. Numbered BY DEF Init, Numbered, EmptyHash, Absent
<1>4. UnloadedEmpty /\ LoadedComplete /\ AckedSurvives
  BY DEF Init, UnloadedEmpty, LoadedComplete, AckedSurvives
<1> QED BY <1>2, <1>3, <1>4 DEF BoardInv, DataInv

LEMMA BoardIsSafe ==
  ASSUME QuiescentEviction, SweepsInTime, LoadsInTime, ActiveSockets
  PROVE  Spec => [](EvictionInv /\ BoardInv)
<1>1. ASSUME EvictionInv, BoardInv, [Next]_vars PROVE EvictionInv' /\ BoardInv'
  BY <1>1, EvictionInductive, BoardInductive
<1> QED BY <1>1, EvictionInit, BoardInit, PTL DEF Spec

(* An acknowledged change survives every eviction and every load of its     *)
(* board, when boards are evicted while quiescent, evictions and loads end  *)
(* within their locks and joined sockets stay active: what a reader gets is *)
(* that change or a later one.                                              *)
THEOREM AcknowledgedSurvives ==
  ASSUME QuiescentEviction, SweepsInTime, LoadsInTime, ActiveSockets
  PROVE  Spec => []AckedSurvives
<1>1. BoardInv => AckedSurvives BY DEF BoardInv, DataInv
<1> QED BY <1>1, BoardIsSafe, PTL

(* Under the same assumptions a loaded board is complete: an unmarked       *)
(* element of the hash is the row that loadBoard would read.                *)
THEOREM LoadedIsComplete ==
  ASSUME QuiescentEviction, SweepsInTime, LoadsInTime, ActiveSockets
  PROVE  Spec => []LoadedComplete
<1>1. BoardInv => LoadedComplete BY DEF BoardInv, DataInv
<1> QED BY <1>1, BoardIsSafe, PTL

(* The steps that change the sequence key. *)
LEMMA SeqSteps ==
  Next => \/ \E p \in Procs : LoadWrite(p) \/ Incr(p)
          \/ Delete
          \/ UNCHANGED seq
  BY DEF Next, Arrive, Load, LoadCheck, LoadCheckSeq, LoadAcquire, LoadWait, LoadRecheck, LoadSelect,
         LoadVerify, LoadRelease, Mutate, Lock, LockTimesOut, GetSyncWriteMode,
         AwaitLoad, Pipeline, PersistSolo, PersistSoloFails, RearmCollabMode, Ack,
         Socket, Track, Refresh, QuietLeaseExpires, SocketMutates, Leave, Drain, Dies,
         LoadLockExpires, MutationLockExpires, LeaseExpires, CollabExpires, WorkerFlush, ThreeIdleMinutes, Sweep,
         SweepStart, SweepPersist, SweepLock, SweepCheck, ScanBegin, ScanEnd,
         Unindex, SweepRelease, SweepDies, EvictionLockExpires, Persist, board

(* Under the same assumptions loadBoard's pipeline, which is not one        *)
(* command with its last look at the sequence key, still never writes over  *)
(* a loaded board.                                                          *)
THEOREM LoadsNeverClobber ==
  ASSUME QuiescentEviction, SweepsInTime, LoadsInTime, ActiveSockets
  PROVE  Spec => LoadNeverClobbers
<1>1. ASSUME EvictionInv, BoardInv, [Next]_vars
      PROVE  [seq # NoKey /\ seq' # NoKey => seq' >= seq]_vars
  <2>0. TypeOK BY <1>1 DEF EvictionInv
  <2>1. \A p \in Procs : LoadWrite(p) => seq = NoKey
    BY <1>1, BoardFacts DEF LoadWrite, At
  <2>2. \A p \in Procs : Incr(p) => seq = NoKey \/ seq' = seq + 1 BY DEF Incr
  <2>3. Next => \/ \E p \in Procs : LoadWrite(p) \/ Incr(p)
                \/ Delete
                \/ UNCHANGED seq
    BY SeqSteps
  <2>4. Delete => seq' = NoKey \/ seq' = seq BY DEF Delete
  <2>5. seq # NoKey => seq \in Nat BY <2>0 DEF TypeOK
  <2> QED BY <1>1, <2>1, <2>2, <2>3, <2>4, <2>5
<1> QED BY <1>1, BoardIsSafe, PTL DEF LoadNeverClobbers, Spec

-----------------------------------------------------------------------------
(* Who is on the board, whether or not loads outlive their lock. *)

LEMMA ClientsStep ==
  ASSUME EvictionInv, ClientInv, ActiveSockets, [Next]_vars
  PROVE  ClientInv'
<1>0. TypeOK BY DEF EvictionInv
<1> USE DEF At, board, presence, locks, OnBoard
<1>m. ASSUME NEW p \in Procs, NEW step, Moved(p, step),
             \A q \in Sockets : q # p /\ q \in clients => q \in clients',
             p \in Sockets /\ step \in OnBoard => p \in clients'
      PROVE  ClientInv'
  BY <1>m DEF ClientInv, Moved, Procs
<1>s. UNCHANGED <<proc, clients>> => ClientInv' BY DEF ClientInv
<1>1. ASSUME NEW p \in Procs, Arrive(p) \/ Load(p) PROVE ClientInv'
  <2>1. UNCHANGED clients
    BY <1>1 DEF Arrive, Load, LoadCheck, LoadCheckSeq, LoadAcquire, LoadWait, LoadRecheck,
                LoadSelect, LoadVerify, LoadWrite, LoadRelease
  <2>2. \E step : Moved(p, step) /\ (p \in Sockets => step \notin OnBoard)
    BY <1>0, <1>1, LoadMoves DEF Load, AfterLoad
  <2> QED BY <1>m, <2>1, <2>2
<1>2. ASSUME NEW p \in Procs, Mutate(p) PROVE ClientInv'
  <2>1. UNCHANGED clients /\ proc[p].at \in OnBoard
    BY <1>2 DEF Mutate, Lock, LockTimesOut, GetSyncWriteMode, AwaitLoad, Incr, Pipeline,
                PersistSolo, PersistSoloFails, RearmCollabMode, Ack
  <2>2. \E step : Moved(p, step) BY <1>0, <1>2, MutateMoves DEF Mutate
  <2>3. p \in Sockets => p \in clients BY <2>1 DEF ClientInv
  <2> QED BY <1>m, <2>1, <2>2, <2>3
<1>3. ASSUME NEW p \in Sockets, Socket(p) PROVE ClientInv'
  <2>0. p \in Procs BY DEF Procs
  <2>1. CASE Track(p)
    <3>1. Moved(p, "joined") BY <1>0, <2>0, <2>1, SocketMoves
    <3> QED BY <1>m, <2>0, <2>1, <3>1 DEF Track, TrackClient
  <2>2. CASE Refresh(p) BY <2>2 DEF Refresh, TrackClient, ClientInv
  <2>3. CASE QuietLeaseExpires(p) BY <2>3 DEF QuietLeaseExpires
  <2>4. CASE SocketMutates(p)
    <3>1. Moved(p, "lock") BY <1>0, <2>0, <2>4, SocketMoves
    <3>2. p \in clients /\ clients \subseteq clients'
      BY <2>4 DEF SocketMutates, TrackClient, ClientInv
    <3> QED BY <1>m, <2>0, <3>1, <3>2
  <2>5. CASE Leave(p)
    <3>1. Moved(p, "drain") BY <1>0, <2>0, <2>5, SocketMoves
    <3> QED BY <1>m, <2>0, <2>5, <3>1 DEF Leave
  <2>6. CASE Drain(p)
    <3>1. Moved(p, "idle") BY <1>0, <2>0, <2>6, SocketMoves
    <3> QED BY <1>m, <2>0, <2>6, <3>1 DEF Drain
  <2> QED BY <1>3, <2>1, <2>2, <2>3, <2>4, <2>5, <2>6 DEF Socket
<1>4. ASSUME NEW p \in Procs, Dies(p) PROVE ClientInv'
  <2>1. Moved(p, "dead") BY <1>0, <1>4, SocketMoves
  <2> QED BY <1>m, <1>4, <2>1 DEF Dies
<1>5. ASSUME NEW p \in Procs, LeaseExpires(p) PROVE ClientInv'
  <2>1. Moved(p, "idle") BY <1>0, <1>5, SocketMoves
  <2> QED BY <1>m, <1>5, <2>1 DEF LeaseExpires
<1>6. CASE Delete
  <2>1. clients = {} BY <1>6 DEF Delete, EvictionInv, SweepInv
  <2> QED BY <1>6, <2>1 DEF Delete, ClientInv
<1>7. ASSUME NEW p \in Procs, LoadLockExpires(p) \/ MutationLockExpires(p) PROVE ClientInv'
  BY <1>7, <1>s DEF LoadLockExpires, MutationLockExpires
<1>8. CASE \/ CollabExpires \/ WorkerFlush \/ ThreeIdleMinutes \/ SweepDies
           \/ EvictionLockExpires \/ UNCHANGED vars
  BY <1>8, <1>s DEF CollabExpires, WorkerFlush, ThreeIdleMinutes, SweepDies,
                    EvictionLockExpires, vars
<1>9. CASE Sweep /\ ~Delete
  BY <1>9, <1>s DEF Sweep, SweepStart, SweepPersist, SweepLock, SweepCheck, ScanBegin,
                    ScanEnd, Unindex, SweepRelease
<1> QED BY <1>1, <1>2, <1>3, <1>4, <1>5, <1>6, <1>7, <1>8, <1>9 DEF Next

LEMMA ClientsInit == Init => ClientInv
<1>1. Init => \A p \in Procs : proc[p].at = "idle" BY RestingFacts DEF Init
<1> QED BY <1>1 DEF ClientInv, OnBoard, Procs

(* When boards are evicted while quiescent and within the 30 s of the       *)
(* eviction lock, and joined sockets stay active, a board that leaves Redis *)
(* has no socket on it: the sockets that were, or are going to be, will     *)
(* load it again.  Loads may outlive their lock.                            *)
THEOREM EvictedIsDeserted ==
  ASSUME QuiescentEviction, SweepsInTime, ActiveSockets
  PROVE  Spec => EvictsOnlyDeserted
<1>1. ASSUME EvictionInv, ClientInv, [Next]_vars
      PROVE  [seq # NoKey /\ seq' = NoKey =>
                \A p \in Sockets : proc[p].at \in {"idle", "dead", "load", "loadWait", "drain"}]_vars
  <2>0. TypeOK BY <1>1 DEF EvictionInv
  <2>1. \A p \in Procs : LoadWrite(p) \/ Incr(p) => seq' # NoKey
    BY <2>0 DEF LoadWrite, Incr, NoKey, TypeOK
  <2>2. Next => \/ \E p \in Procs : LoadWrite(p) \/ Incr(p)
                \/ Delete
                \/ UNCHANGED seq
    BY SeqSteps
  <2>3. Delete => \A p \in Sockets : proc[p].at \in {"idle", "dead", "load", "loadWait", "drain"}
    BY <1>1, DeletedIsDeserted DEF Procs
  <2> QED BY <1>1, <2>1, <2>2, <2>3 DEF vars, board
<1>2. ASSUME EvictionInv, ClientInv, [Next]_vars PROVE EvictionInv' /\ ClientInv'
  BY <1>2, EvictionInductive, ClientsStep
<1> QED BY <1>1, <1>2, EvictionInit, ClientsInit, PTL DEF EvictsOnlyDeserted, Spec

=============================================================================
