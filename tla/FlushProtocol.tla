---------------------------- MODULE FlushProtocol ----------------------------
(***************************************************************************)
(* Write-behind persistence of ONE loaded board: the hot copy in Redis is  *)
(* written by applyChangeSet, the durable copy in Postgres by persistBoard.*)
(* A change marks the ids it touches and increments the board's dirty      *)
(* epoch; a flush reads the epoch, the marked ids and their contents,      *)
(* writes them in one transaction, and clears the markers through a Lua    *)
(* compare-and-clear that compares the epoch it read with the present one. *)
(*                                                                         *)
(* Every Redis command, and the database transaction, is one step: that is *)
(* where the other processes can come in between.  Mutations of a board    *)
(* are serialised by its mutation lock, so there is one writer; persist-   *)
(* Locks serialises persistBoard only inside one process, so there is one  *)
(* flush at a time per member of Persisters.  Loading, eviction and the    *)
(* loss of the mutation lock are the subject of BoardLifecycle.            *)
(***************************************************************************)
EXTENDS Integers, FiniteSets

CONSTANTS
    Elements,        \* element ids of the board
    Persisters,      \* processes that may call persistBoard: api, realtime, worker
    AtomicPipeline,  \* does Redis run applyChangeSet's pipeline without interruption?
    Incremental,     \* enableIncrementalPersistence
    MaxSeq           \* bound: changes made in one behaviour

ASSUME PipelineAssumption == AtomicPipeline \in BOOLEAN
ASSUME IncrementalAssumption == Incremental \in BOOLEAN
ASSUME BoundAssumption == MaxSeq \in Nat

VARIABLES
    hot,             \* board:<id>:elements, id -> content
    seq,             \* board:<id>:seq
    dirty,           \* the board is in boards:dirty and boards:dirty_by_age, dirty_since is set
    epoch,           \* board:<id>:dirty_epoch
    dirtyIds,        \* board:<id>:dirty_element_ids
    deletedIds,      \* board:<id>:deleted_element_ids
    lastFlushedSeq,  \* board:<id>:last_flushed_seq
    db,              \* the rows of the elements table, id -> content
    writer,          \* the applyChangeSet call that holds the mutation lock
    flush            \* per process, its persistBoard call

redisVars == <<hot, seq, dirty, epoch, dirtyIds, deletedIds, lastFlushedSeq>>
vars == <<hot, seq, dirty, epoch, dirtyIds, deletedIds, lastFlushedSeq, db,
          writer, flush>>

-----------------------------------------------------------------------------
(* The content of an element is named by the sequence number of the change  *)
(* that wrote it; content 0 is what the board was loaded with.              *)
Absent == -1
Content == {Absent} \cup Nat

WriterSteps == {"idle", "pipeline", "markers", "elementMarkers"}
FlushSteps == {"idle", "epoch", "dirtyIds", "deletedIds", "contents", "commit", "clear"}

NoChange == [at |-> "idle", seq |-> 0, upserts |-> {}, deletes |-> {}]
NoFlush == [at |-> "idle", seq |-> 0, epoch |-> 0, dirtyIds |-> {}, deletedIds |-> {},
            ids |-> {}, rows |-> [e \in Elements |-> Absent]]

WriterState == [at : WriterSteps, seq : Nat,
                upserts : SUBSET Elements, deletes : SUBSET Elements]
FlushState == [at : FlushSteps, seq : Nat, epoch : Nat,
               dirtyIds : SUBSET Elements, deletedIds : SUBSET Elements,
               ids : SUBSET Elements, rows : [Elements -> Content]]

(* Types of the state. *)
TypeOK ==
    /\ hot \in [Elements -> Content]
    /\ seq \in Nat
    /\ dirty \in BOOLEAN
    /\ epoch \in Nat
    /\ dirtyIds \in SUBSET Elements
    /\ deletedIds \in SUBSET Elements
    /\ lastFlushedSeq \in Nat
    /\ db \in [Elements -> Content]
    /\ writer \in WriterState
    /\ flush \in [Persisters -> FlushState]

(* A freshly loaded, clean board: loadBoard copied the rows and set seq to 0. *)
Init ==
    /\ db \in [Elements -> {Absent, 0}]
    /\ hot = db
    /\ seq = 0
    /\ dirty = FALSE
    /\ epoch = 0
    /\ dirtyIds = {}
    /\ deletedIds = {}
    /\ lastFlushedSeq = 0
    /\ writer = NoChange
    /\ flush = [p \in Persisters |-> NoFlush]

-----------------------------------------------------------------------------
(* applyChangeSet.  The deletes are already closed under containment and   *)
(* the upserts already exclude them (module ChangeSets).                   *)

(* getSequence: INCR of the sequence key, a round trip of its own. *)
TakeSequence(ups, dels) ==
    /\ writer.at = "idle"
    /\ seq < MaxSeq
    /\ ups \cap dels = {}
    /\ ups \cup dels # {}
    /\ seq' = seq + 1
    /\ writer' = [at |-> "pipeline", seq |-> seq + 1, upserts |-> ups, deletes |-> dels]
    /\ UNCHANGED <<hot, dirty, epoch, dirtyIds, deletedIds, lastFlushedSeq, db, flush>>

(* The commands of the pipeline, in the three groups it sends in this order. *)
WriteElements ==
    hot' = [e \in Elements |-> IF e \in writer.upserts THEN writer.seq
                               ELSE IF e \in writer.deletes THEN Absent
                               ELSE hot[e]]

MarkBoard ==
    /\ dirty' = TRUE
    /\ epoch' = epoch + 1

(* Mutant: the SREMs that undo an earlier marker are missing. *)
MarkElementsNoSrem ==
    /\ dirtyIds' = dirtyIds \cup writer.upserts
    /\ deletedIds' = deletedIds \cup writer.deletes

MarkElements ==
    /\ dirtyIds' = (dirtyIds \cup writer.upserts) \ writer.deletes
    /\ deletedIds' = (deletedIds \ writer.upserts) \cup writer.deletes

(* Redis runs the whole pipeline before it serves another client. *)
RunPipeline ==
    /\ AtomicPipeline
    /\ writer.at = "pipeline"
    /\ WriteElements
    /\ MarkBoard
    /\ MarkElements
    /\ writer' = NoChange
    /\ UNCHANGED <<seq, lastFlushedSeq, db, flush>>

(* A pipeline is not a MULTI: one that does not fit the server's read buffer *)
(* is served in pieces, with other clients in between.                       *)
RunPipelineElements ==
    /\ ~AtomicPipeline
    /\ writer.at = "pipeline"
    /\ WriteElements
    /\ writer' = [writer EXCEPT !.at = "markers"]
    /\ UNCHANGED <<seq, dirty, epoch, dirtyIds, deletedIds, lastFlushedSeq, db, flush>>

RunPipelineMarkers ==
    /\ writer.at = "markers"
    /\ MarkBoard
    /\ writer' = [writer EXCEPT !.at = "elementMarkers"]
    /\ UNCHANGED <<hot, seq, dirtyIds, deletedIds, lastFlushedSeq, db, flush>>

RunPipelineElementMarkers ==
    /\ writer.at = "elementMarkers"
    /\ MarkElements
    /\ writer' = NoChange
    /\ UNCHANGED <<hot, seq, dirty, epoch, lastFlushedSeq, db, flush>>

(* The writing process dies, or its connection does, before it sends the    *)
(* pipeline.  ioredis hands a pipeline to the socket in one write, so one   *)
(* that has been begun is taken to arrive.                                  *)
WriterFails ==
    /\ writer.at = "pipeline"
    /\ writer' = NoChange
    /\ UNCHANGED <<redisVars, db, flush>>

-----------------------------------------------------------------------------
(* persistBoard, from the snapshot of the sequence on. *)

(* peekSequence *)
StartPersist(p) ==
    /\ flush[p].at = "idle"
    /\ flush' = [flush EXCEPT ![p] = [NoFlush EXCEPT !.at = "epoch", !.seq = seq]]
    /\ UNCHANGED <<redisVars, db, writer>>

(* getDirtyEpoch *)
ReadEpoch(p) ==
    /\ flush[p].at = "epoch"
    /\ flush' = [flush EXCEPT ![p] = [@ EXCEPT !.at = IF Incremental THEN "dirtyIds" ELSE "contents",
                                               !.epoch = epoch]]
    /\ UNCHANGED <<redisVars, db, writer>>

(* persistBoardIncremental: the two SMEMBERS *)
ReadDirtyIds(p) ==
    /\ flush[p].at = "dirtyIds"
    /\ flush' = [flush EXCEPT ![p] = [@ EXCEPT !.at = "deletedIds", !.dirtyIds = dirtyIds]]
    /\ UNCHANGED <<redisVars, db, writer>>

ReadDeletedIds(p) ==
    /\ flush[p].at = "deletedIds"
    /\ flush' = [flush EXCEPT ![p] = [@ EXCEPT !.at = "contents", !.deletedIds = deletedIds]]
    /\ UNCHANGED <<redisVars, db, writer>>

(* What the transaction will write: HMGET of the dirty ids, where a missing *)
(* one becomes a delete, and the deleted ids; or HGETALL of the board.       *)
CapturedIds(f) == IF Incremental THEN f.dirtyIds \cup f.deletedIds ELSE Elements

CapturedRows(f) ==
    [e \in Elements |-> IF Incremental /\ e \notin f.dirtyIds THEN Absent ELSE hot[e]]

(* Mutant: the epoch is snapshot after the contents instead of before the ids. *)
ReadContentsThenEpoch(p) ==
    /\ flush[p].at = "contents"
    /\ flush' = [flush EXCEPT ![p] =
                   [@ EXCEPT !.at = IF CapturedIds(flush[p]) = {} THEN "clear" ELSE "commit",
                             !.epoch = epoch,
                             !.ids = CapturedIds(flush[p]),
                             !.rows = CapturedRows(flush[p])]]
    /\ UNCHANGED <<redisVars, db, writer>>

ReadContents(p) ==
    /\ flush[p].at = "contents"
    /\ flush' = [flush EXCEPT ![p] =
                   [@ EXCEPT !.at = IF CapturedIds(flush[p]) = {} THEN "clear" ELSE "commit",
                             !.ids = CapturedIds(flush[p]),
                             !.rows = CapturedRows(flush[p])]]
    /\ UNCHANGED <<redisVars, db, writer>>

(* The transaction: delete, then upsert; or delete everything, then insert. *)
Commit(p) ==
    /\ flush[p].at = "commit"
    /\ db' = [e \in Elements |-> IF e \in flush[p].ids THEN flush[p].rows[e] ELSE db[e]]
    /\ flush' = [flush EXCEPT ![p].at = "clear"]
    /\ UNCHANGED <<redisVars, writer>>

(* Mutant: a clear that does not compare the epoch. *)
ClearMarkersUnguarded(p) ==
    /\ flush[p].at = "clear"
    /\ dirty' = FALSE
    /\ lastFlushedSeq' = flush[p].seq
    /\ dirtyIds' = IF Incremental THEN {} ELSE dirtyIds
    /\ deletedIds' = IF Incremental THEN {} ELSE deletedIds
    /\ flush' = [flush EXCEPT ![p] = NoFlush]
    /\ UNCHANGED <<hot, seq, epoch, db, writer>>

(* The compare-and-clear script, when the epoch is the one the flush read... *)
ClearMarkers(p) ==
    /\ flush[p].at = "clear"
    /\ epoch = flush[p].epoch
    /\ dirty' = FALSE
    /\ lastFlushedSeq' = flush[p].seq
    /\ dirtyIds' = IF Incremental THEN {} ELSE dirtyIds
    /\ deletedIds' = IF Incremental THEN {} ELSE deletedIds
    /\ flush' = [flush EXCEPT ![p] = NoFlush]
    /\ UNCHANGED <<hot, seq, epoch, db, writer>>

(* Mutant: a rejected flush keeps the call, and with it the persist lock. *)
SkipClearHangs(p) ==
    /\ flush[p].at = "clear"
    /\ epoch # flush[p].epoch
    /\ UNCHANGED vars

(* ... and when it is not. *)
SkipClear(p) ==
    /\ flush[p].at = "clear"
    /\ epoch # flush[p].epoch
    /\ flush' = [flush EXCEPT ![p] = NoFlush]
    /\ UNCHANGED <<redisVars, db, writer>>

(* The process dies, or a command or the transaction fails and the error is *)
(* rethrown: persistDirtyBoards retries, or a later job does.               *)
PersistFails(p) ==
    /\ flush[p].at # "idle"
    /\ flush' = [flush EXCEPT ![p] = NoFlush]
    /\ UNCHANGED <<redisVars, db, writer>>

-----------------------------------------------------------------------------
ApplyChangeSet ==
    \/ \E ups, dels \in SUBSET Elements : TakeSequence(ups, dels)
    \/ RunPipeline
    \/ RunPipelineElements
    \/ RunPipelineMarkers
    \/ RunPipelineElementMarkers
    \/ WriterFails

PersistStep(p) ==
    \/ ReadEpoch(p)
    \/ ReadDirtyIds(p)
    \/ ReadDeletedIds(p)
    \/ ReadContents(p)
    \/ Commit(p)
    \/ ClearMarkers(p)
    \/ SkipClear(p)

PersistBoard(p) == StartPersist(p) \/ PersistStep(p) \/ PersistFails(p)

Next == ApplyChangeSet \/ \E p \in Persisters : PersistBoard(p)

Spec == Init /\ [][Next]_vars

(* The worker's repeatable job starts a flush of a dirty board again and    *)
(* again and retries one that failed; a command that keeps being sent is in *)
(* the end served.  A change that has its sequence number is sent or fails. *)
Fairness ==
    /\ WF_vars(RunPipeline \/ RunPipelineElements \/ WriterFails)
    /\ WF_vars(RunPipelineMarkers)
    /\ WF_vars(RunPipelineElementMarkers)
    /\ \A p \in Persisters :
         /\ WF_vars(dirty /\ StartPersist(p))
         /\ SF_vars(ReadEpoch(p))
         /\ SF_vars(ReadDirtyIds(p))
         /\ SF_vars(ReadDeletedIds(p))
         /\ SF_vars(ReadContents(p))
         /\ SF_vars(Commit(p))
         /\ SF_vars(ClearMarkers(p) \/ SkipClear(p))

FairSpec == Spec /\ Fairness

-----------------------------------------------------------------------------
(* Properties *)

Marked(e) == dirty /\ e \in dirtyIds \cup deletedIds

(* The ids a change that is half way through its pipeline is about to mark. *)
InFlight(e) == writer.at # "idle" /\ e \in writer.upserts \cup writer.deletes

(* No lost update: an element whose row differs from its hot content is     *)
(* marked for the next flush, or the change that made it differ is still    *)
(* writing its markers.  persistBoard relies on it: it only ever looks at   *)
(* marked elements.                                                         *)
NoLostUpdate == \A e \in Elements : db[e] # hot[e] => Marked(e) \/ InFlight(e)

(* What the markers say about an element is what the hash holds: this is    *)
(* what makes persistBoardIncremental's deletes safe.                       *)
MarkersAgree ==
    writer.at \in {"idle", "pipeline"} =>
        /\ \A e \in dirtyIds : hot[e] # Absent
        /\ \A e \in deletedIds : hot[e] = Absent

(* The compare-and-clear never discards a window it did not write: when the *)
(* marker of an element goes away, a flush that has captured the element's  *)
(* present content removed it.                                              *)
ClearCoversWindow ==
    [][\A e \in Elements :
         Marked(e) /\ ~Marked(e)' =>
             \E p \in Persisters : /\ flush[p].at = "clear"
                                   /\ e \in flush[p].ids
                                   /\ flush[p].rows[e] = hot[e]]_vars

(* The protocol keeps the promise of DurableBoard, with the dirty marker of  *)
(* the board as the sign that it is not settled.                             *)
Durable == INSTANCE DurableBoard WITH live <- hot, durable <- db, settled <- ~dirty

KeepsDurablePromise == Durable!Spec

(* Once the changes stop, every one of them reaches the database and the     *)
(* board stays clean, however often flushes fail on the way.                 *)
EventuallyDurable == <>[](~dirty /\ db = hot)

=============================================================================
