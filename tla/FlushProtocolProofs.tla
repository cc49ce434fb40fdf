------------------------- MODULE FlushProtocolProofs -------------------------
(***************************************************************************)
(* Proofs about FlushProtocol, for any set of elements, any number of      *)
(* changes and either kind of persistence, when Redis runs a pipeline      *)
(* without interruption.  The compare-and-clear is shown correct for any   *)
(* number of processes; that no update is lost, and the refinement of      *)
(* DurableBoard, for a board that only one process flushes at a time.      *)
(***************************************************************************)
EXTENDS FlushProtocol, TLAPS

(* The board is flushed by one process at a time. *)
OneFlusher == \A p, q \in Persisters : p = q

-----------------------------------------------------------------------------
(* The inductive invariants *)

(* Between two steps the pipeline has run or has not; a change does not     *)
(* delete what it upserts.                                                  *)
WholePipeline ==
    /\ writer.at \in {"idle", "pipeline"}
    /\ writer.upserts \cap writer.deletes = {}

HashAgrees ==
    /\ \A e \in dirtyIds : hot[e] # Absent
    /\ \A e \in deletedIds : hot[e] = Absent

(* No change has been applied since the flush read the epoch. *)
Fresh(p) == flush[p].epoch = epoch

PastEpoch(p) == flush[p].at \notin {"idle", "epoch"}

(* The epoch only grows, so that a fresh flush stays comparable. *)
EpochBehind == \A p \in Persisters : PastEpoch(p) => flush[p].epoch <= epoch

(* A fresh flush has captured every present marker, with present contents. *)
CoversDirtyIds(p) ==
    Incremental /\ flush[p].at \in {"deletedIds", "contents"} /\ Fresh(p)
        => dirtyIds \subseteq flush[p].dirtyIds

CoversDeletedIds(p) ==
    Incremental /\ flush[p].at = "contents" /\ Fresh(p)
        => deletedIds \subseteq flush[p].deletedIds

CoversContents(p) ==
    flush[p].at \in {"commit", "clear"} /\ Fresh(p)
        => \A e \in dirtyIds \cup deletedIds :
               e \in flush[p].ids /\ flush[p].rows[e] = hot[e]

Covers == \A p \in Persisters :
              CoversDirtyIds(p) /\ CoversDeletedIds(p) /\ CoversContents(p)

ClearInv == WholePipeline /\ HashAgrees /\ EpochBehind /\ Covers

(* What holds besides when one process flushes the board: a row that differs *)
(* is marked; the marked ids are those of a dirty board; the ids a flush has *)
(* read stay marked until it clears them; what it is about to overwrite with *)
(* old content is marked; and after a commit that no change overtook the two *)
(* copies are the same.                                                      *)
DivergentMarked == \A e \in Elements : db[e] # hot[e] => Marked(e)

MarkedIsDirty == Incremental /\ dirtyIds \cup deletedIds # {} => dirty

KeepsDirtyIds(p) ==
    Incremental /\ flush[p].at \in {"deletedIds", "contents"}
        => flush[p].dirtyIds \subseteq dirtyIds \cup deletedIds

KeepsDeletedIds(p) ==
    Incremental /\ flush[p].at = "contents"
        => flush[p].deletedIds \subseteq dirtyIds \cup deletedIds

StaleIsMarked(p) ==
    flush[p].at = "commit"
        => \A e \in flush[p].ids : flush[p].rows[e] # hot[e] => Marked(e)

CommittedIsEqual(p) == flush[p].at = "clear" /\ Fresh(p) => db = hot

FlushInv ==
    /\ DivergentMarked
    /\ MarkedIsDirty
    /\ \A p \in Persisters : /\ KeepsDirtyIds(p) /\ KeepsDeletedIds(p)
                              /\ StaleIsMarked(p) /\ CommittedIsEqual(p)

-----------------------------------------------------------------------------
LEMMA NoFlushType == NoFlush \in FlushState
  BY DEF NoFlush, FlushState, FlushSteps, Content, Absent

(* A flush that takes a step and notes what it has read is still a flush. *)
LEMMA EpochNoted ==
  ASSUME NEW f \in FlushState, NEW a \in FlushSteps, NEW n \in Nat
  PROVE  [f EXCEPT !.at = a, !.epoch = n] \in FlushState
  BY DEF FlushState

LEMMA ContentsNoted ==
  ASSUME NEW f \in FlushState, NEW a \in FlushSteps, NEW ids \in SUBSET Elements,
         NEW rows \in [Elements -> Content]
  PROVE  [f EXCEPT !.at = a, !.ids = ids, !.rows = rows] \in FlushState
  BY DEF FlushState

(* Every variable of the protocol keeps its type: ids stay ids, counters    *)
(* stay natural numbers, also when a pipeline is served in pieces.          *)
THEOREM TypeCorrect == Spec => []TypeOK
<1> USE IncrementalAssumption
<1>1. Init => TypeOK
  <2> SUFFICES ASSUME Init PROVE TypeOK
    OBVIOUS
  <2>1. hot \in [Elements -> Content] /\ db \in [Elements -> Content]
    BY DEF Init, Content, Absent
  <2>2. writer \in WriterState
    BY DEF Init, NoChange, WriterState, WriterSteps
  <2>3. flush \in [Persisters -> FlushState]
    BY NoFlushType DEF Init
  <2>4. QED
    BY <2>1, <2>2, <2>3 DEF Init, TypeOK
<1>2. TypeOK /\ [Next]_vars => TypeOK'
  <2> SUFFICES ASSUME TypeOK, [Next]_vars PROVE TypeOK'
    OBVIOUS
  <2> USE DEF TypeOK, WriterState, FlushState, WriterSteps, FlushSteps, NoChange, NoFlush,
              redisVars
  <2>1. ASSUME NEW ups \in SUBSET Elements, NEW dels \in SUBSET Elements,
               TakeSequence(ups, dels)
        PROVE  TypeOK'
    BY <2>1 DEF TakeSequence
  <2>2. CASE RunPipeline
    BY <2>2 DEF RunPipeline, WriteElements, MarkBoard, MarkElements, Content, Absent
  <2>3. CASE RunPipelineElements
    BY <2>3 DEF RunPipelineElements, WriteElements, Content, Absent
  <2>4. CASE RunPipelineMarkers
    BY <2>4 DEF RunPipelineMarkers, MarkBoard
  <2>5. CASE RunPipelineElementMarkers
    BY <2>5 DEF RunPipelineElementMarkers, MarkElements
  <2>6. CASE WriterFails
    BY <2>6 DEF WriterFails
  <2>7. ASSUME NEW p \in Persisters, StartPersist(p) PROVE TypeOK'
    BY <2>7 DEF StartPersist, Content, Absent
  <2>8. ASSUME NEW p \in Persisters, ReadEpoch(p) PROVE TypeOK'
    <3>1. (IF Incremental THEN "dirtyIds" ELSE "contents") \in FlushSteps
      OBVIOUS
    <3> HIDE DEF FlushState, FlushSteps
    <3>2. flush'[p] \in FlushState
      BY <2>8, <3>1, EpochNoted DEF ReadEpoch
    <3>3. QED
      BY <2>8, <3>2 DEF ReadEpoch
  <2>9. ASSUME NEW p \in Persisters, ReadDirtyIds(p) PROVE TypeOK'
    BY <2>9 DEF ReadDirtyIds
  <2>10. ASSUME NEW p \in Persisters, ReadDeletedIds(p) PROVE TypeOK'
    BY <2>10 DEF ReadDeletedIds
  <2>11. ASSUME NEW p \in Persisters, ReadContents(p) PROVE TypeOK'
    <3>1. CapturedIds(flush[p]) \in SUBSET Elements
      BY DEF CapturedIds
    <3>2. CapturedRows(flush[p]) \in [Elements -> Content]
      BY DEF CapturedRows, Content, Absent
    <3>3. (IF CapturedIds(flush[p]) = {} THEN "clear" ELSE "commit") \in FlushSteps
      OBVIOUS
    <3> HIDE DEF FlushState, FlushSteps
    <3>4. flush'[p] \in FlushState
      BY <2>11, <3>1, <3>2, <3>3, ContentsNoted DEF ReadContents
    <3>5. QED
      BY <2>11, <3>4 DEF ReadContents
  <2>12. ASSUME NEW p \in Persisters, Commit(p) PROVE TypeOK'
    BY <2>12 DEF Commit
  <2>13. ASSUME NEW p \in Persisters, ClearMarkers(p) PROVE TypeOK'
    BY <2>13 DEF ClearMarkers, Content, Absent
  <2>14. ASSUME NEW p \in Persisters, SkipClear(p) PROVE TypeOK'
    BY <2>14 DEF SkipClear, Content, Absent
  <2>15. ASSUME NEW p \in Persisters, PersistFails(p) PROVE TypeOK'
    BY <2>15 DEF PersistFails, Content, Absent
  <2>16. CASE UNCHANGED vars
    BY <2>16 DEF vars
  <2>17. QED
    BY <2>1, <2>2, <2>3, <2>4, <2>5, <2>6, <2>7, <2>8, <2>9, <2>10, <2>11, <2>12,
       <2>13, <2>14, <2>15, <2>16
       DEF Next, ApplyChangeSet, PersistBoard, PersistStep
<1>3. QED
  BY <1>1, <1>2, PTL DEF Spec

-----------------------------------------------------------------------------
(* The compare-and-clear, for any number of flushing processes *)

LEMMA ClearInvInit == Init => ClearInv
  BY DEF Init, ClearInv, WholePipeline, HashAgrees, EpochBehind, Covers, PastEpoch,
         CoversDirtyIds, CoversDeletedIds, CoversContents, NoChange, NoFlush

(* The steps of a flush, but for the clear, change no Redis key: only what  *)
(* the flush itself has captured.                                           *)
LEMMA ClearInvRead ==
  ASSUME TypeOK, TypeOK', ClearInv, NEW p \in Persisters,
         UNCHANGED <<redisVars, writer>>,
         \A q \in Persisters \ {p} : flush'[q] = flush[q],
         PastEpoch(p)' => flush'[p].epoch <= epoch,
         CoversDirtyIds(p)', CoversDeletedIds(p)', CoversContents(p)'
  PROVE  ClearInv'
<1>1. WholePipeline' /\ HashAgrees'
  BY DEF ClearInv, WholePipeline, HashAgrees, redisVars
<1>2. EpochBehind'
  BY DEF ClearInv, EpochBehind, PastEpoch, redisVars
<1>3. Covers'
  <2> SUFFICES ASSUME NEW q \in Persisters, q # p
               PROVE  (CoversDirtyIds(q) /\ CoversDeletedIds(q) /\ CoversContents(q))'
    BY DEF Covers
  <2>1. CoversDirtyIds(q) /\ CoversDeletedIds(q) /\ CoversContents(q)
    BY DEF ClearInv, Covers
  <2>2. flush'[q] = flush[q]
    OBVIOUS
  <2>3. QED
    BY <2>1, <2>2 DEF CoversDirtyIds, CoversDeletedIds, CoversContents, Fresh, redisVars
<1>4. QED
  BY <1>1, <1>2, <1>3 DEF ClearInv

LEMMA ClearInvStep ==
  ASSUME AtomicPipeline, TypeOK, TypeOK', ClearInv, [Next]_vars
  PROVE  ClearInv'
<1> USE DEF redisVars
<1>1. ASSUME NEW ups \in SUBSET Elements, NEW dels \in SUBSET Elements,
             TakeSequence(ups, dels)
      PROVE  ClearInv'
  BY <1>1 DEF TakeSequence, ClearInv, WholePipeline, HashAgrees, EpochBehind, Covers,
              PastEpoch, CoversDirtyIds, CoversDeletedIds, CoversContents, Fresh
<1>2. CASE RunPipeline
  <2>1. WholePipeline'
    BY <1>2 DEF RunPipeline, WholePipeline, NoChange
  <2>2. HashAgrees'
    BY <1>2 DEF RunPipeline, WriteElements, MarkElements, HashAgrees, ClearInv,
                WholePipeline, TypeOK, WriterState, Absent
  <2>3. epoch' = epoch + 1 /\ flush' = flush
    BY <1>2 DEF RunPipeline, MarkBoard
  <2>4. \A p \in Persisters : PastEpoch(p)' => flush'[p].epoch < epoch'
    BY <2>3 DEF ClearInv, EpochBehind, PastEpoch, TypeOK, FlushState
  <2>5. EpochBehind'
    BY <2>4 DEF EpochBehind, TypeOK, FlushState
  <2>6. Covers'
    BY <2>4 DEF Covers, CoversDirtyIds, CoversDeletedIds, CoversContents, Fresh, PastEpoch,
                TypeOK, FlushState
  <2>7. QED
    BY <2>1, <2>2, <2>5, <2>6 DEF ClearInv
<1>3. CASE RunPipelineElements \/ RunPipelineMarkers \/ RunPipelineElementMarkers
  BY <1>3 DEF RunPipelineElements, RunPipelineMarkers, RunPipelineElementMarkers,
              ClearInv, WholePipeline
<1>4. CASE WriterFails
  BY <1>4 DEF WriterFails, NoChange, ClearInv, WholePipeline, HashAgrees, EpochBehind,
              Covers, PastEpoch, CoversDirtyIds, CoversDeletedIds, CoversContents, Fresh
<1>5. ASSUME NEW p \in Persisters, StartPersist(p) PROVE ClearInv'
  <2>1. flush'[p].at = "epoch" /\ \A q \in Persisters \ {p} : flush'[q] = flush[q]
    BY <1>5 DEF StartPersist, TypeOK, NoFlush
  <2>2. QED
    BY <1>5, <2>1, ClearInvRead
       DEF StartPersist, PastEpoch, CoversDirtyIds, CoversDeletedIds, CoversContents
<1>6. ASSUME NEW p \in Persisters, ReadEpoch(p) PROVE ClearInv'
  <2>1. /\ flush'[p].at = IF Incremental THEN "dirtyIds" ELSE "contents"
        /\ flush'[p].epoch = epoch
        /\ \A q \in Persisters \ {p} : flush'[q] = flush[q]
    BY <1>6 DEF ReadEpoch, TypeOK, FlushState
  <2>2. QED
    BY <1>6, <2>1, ClearInvRead
       DEF ReadEpoch, PastEpoch, CoversDirtyIds, CoversDeletedIds, CoversContents,
           TypeOK
<1>7. ASSUME NEW p \in Persisters, ReadDirtyIds(p) PROVE ClearInv'
  <2>1. /\ flush'[p].at = "deletedIds"
        /\ flush'[p].epoch = flush[p].epoch
        /\ flush'[p].dirtyIds = dirtyIds
        /\ \A q \in Persisters \ {p} : flush'[q] = flush[q]
    BY <1>7 DEF ReadDirtyIds, TypeOK, FlushState
  <2>2. flush[p].epoch <= epoch
    BY <1>7 DEF ReadDirtyIds, ClearInv, EpochBehind, PastEpoch
  <2>3. QED
    BY <1>7, <2>1, <2>2, ClearInvRead
       DEF ReadDirtyIds, PastEpoch, CoversDirtyIds, CoversDeletedIds, CoversContents
<1>8. ASSUME NEW p \in Persisters, ReadDeletedIds(p) PROVE ClearInv'
  <2>1. /\ flush'[p].at = "contents"
        /\ flush'[p].epoch = flush[p].epoch
        /\ flush'[p].dirtyIds = flush[p].dirtyIds
        /\ flush'[p].deletedIds = deletedIds
        /\ \A q \in Persisters \ {p} : flush'[q] = flush[q]
    BY <1>8 DEF ReadDeletedIds, TypeOK, FlushState
  <2>2. flush[p].epoch <= epoch /\ CoversDirtyIds(p)
    BY <1>8 DEF ReadDeletedIds, ClearInv, EpochBehind, PastEpoch, Covers
  <2>3. QED
    BY <1>8, <2>1, <2>2, ClearInvRead
       DEF ReadDeletedIds, PastEpoch, CoversDirtyIds, CoversDeletedIds, CoversContents, Fresh
<1>9. ASSUME NEW p \in Persisters, ReadContents(p) PROVE ClearInv'
  <2>1. /\ flush'[p].at \in {"commit", "clear"}
        /\ flush'[p].epoch = flush[p].epoch
        /\ flush'[p].ids = CapturedIds(flush[p])
        /\ flush'[p].rows = CapturedRows(flush[p])
        /\ \A q \in Persisters \ {p} : flush'[q] = flush[q]
    BY <1>9 DEF ReadContents, TypeOK, FlushState
  <2>2. flush[p].epoch <= epoch /\ CoversDirtyIds(p) /\ CoversDeletedIds(p)
    BY <1>9 DEF ReadContents, ClearInv, EpochBehind, PastEpoch, Covers
  <2>3. CoversContents(p)'
    <3> SUFFICES ASSUME flush[p].epoch = epoch, NEW e \in dirtyIds \cup deletedIds
                 PROVE  e \in CapturedIds(flush[p]) /\ CapturedRows(flush[p])[e] = hot[e]
      BY <1>9, <2>1 DEF CoversContents, Fresh, ReadContents
    <3>1. e \in Elements
      BY DEF TypeOK
    <3>2. CASE Incremental
      <4>1. dirtyIds \subseteq flush[p].dirtyIds /\ deletedIds \subseteq flush[p].deletedIds
        BY <1>9, <2>2, <3>2 DEF ReadContents, CoversDirtyIds, CoversDeletedIds, Fresh
      <4>2. e \in deletedIds => hot[e] = Absent
        BY DEF ClearInv, HashAgrees
      <4>3. QED
        BY <3>1, <3>2, <4>1, <4>2 DEF CapturedIds, CapturedRows
    <3>3. CASE ~Incremental
      BY <3>1, <3>3 DEF CapturedIds, CapturedRows
    <3>4. QED
      BY <3>2, <3>3
  <2>4. QED
    BY <1>9, <2>1, <2>2, <2>3, ClearInvRead
       DEF ReadContents, PastEpoch, CoversDirtyIds, CoversDeletedIds
<1>10. ASSUME NEW p \in Persisters, Commit(p) PROVE ClearInv'
  <2>1. /\ flush'[p].at = "clear"
        /\ flush'[p].epoch = flush[p].epoch
        /\ flush'[p].ids = flush[p].ids
        /\ flush'[p].rows = flush[p].rows
        /\ \A q \in Persisters \ {p} : flush'[q] = flush[q]
    BY <1>10 DEF Commit, TypeOK, FlushState
  <2>2. flush[p].epoch <= epoch /\ CoversContents(p)
    BY <1>10 DEF Commit, ClearInv, EpochBehind, PastEpoch, Covers
  <2>3. QED
    BY <1>10, <2>1, <2>2, ClearInvRead
       DEF Commit, PastEpoch, CoversDirtyIds, CoversDeletedIds, CoversContents, Fresh
<1>11. ASSUME NEW p \in Persisters, ClearMarkers(p) PROVE ClearInv'
  <2>1. /\ dirtyIds' \subseteq dirtyIds /\ deletedIds' \subseteq deletedIds
        /\ flush'[p].at = "idle"
        /\ \A q \in Persisters \ {p} : flush'[q] = flush[q]
        /\ hot' = hot /\ epoch' = epoch /\ writer' = writer
    BY <1>11 DEF ClearMarkers, TypeOK, NoFlush
  <2>2. WholePipeline' /\ HashAgrees' /\ EpochBehind'
    BY <2>1 DEF ClearInv, WholePipeline, HashAgrees, EpochBehind, PastEpoch
  <2>3. Covers'
    <3> SUFFICES ASSUME NEW q \in Persisters
                 PROVE  (CoversDirtyIds(q) /\ CoversDeletedIds(q) /\ CoversContents(q))'
      BY DEF Covers
    <3>1. CASE q = p
      BY <2>1, <3>1 DEF CoversDirtyIds, CoversDeletedIds, CoversContents
    <3>2. CASE q # p
      BY <2>1, <3>2 DEF ClearInv, Covers, CoversDirtyIds, CoversDeletedIds, CoversContents,
                        Fresh
    <3>3. QED
      BY <3>1, <3>2
  <2>4. QED
    BY <2>2, <2>3 DEF ClearInv
<1>12. ASSUME NEW p \in Persisters, SkipClear(p) \/ PersistFails(p) PROVE ClearInv'
  <2>1. flush'[p].at = "idle" /\ \A q \in Persisters \ {p} : flush'[q] = flush[q]
    BY <1>12 DEF SkipClear, PersistFails, TypeOK, NoFlush
  <2>2. QED
    BY <1>12, <2>1, ClearInvRead
       DEF SkipClear, PersistFails, PastEpoch, CoversDirtyIds, CoversDeletedIds, CoversContents
<1>13. CASE UNCHANGED vars
  BY <1>13 DEF vars, ClearInv, WholePipeline, HashAgrees, EpochBehind, Covers, PastEpoch,
               CoversDirtyIds, CoversDeletedIds, CoversContents, Fresh
<1>14. QED
  BY <1>1, <1>2, <1>3, <1>4, <1>5, <1>6, <1>7, <1>8, <1>9, <1>10, <1>11, <1>12, <1>13
     DEF Next, ApplyChangeSet, PersistBoard, PersistStep

LEMMA ClearInvariant ==
  ASSUME AtomicPipeline
  PROVE  Spec => []ClearInv
<1>1. TypeOK /\ TypeOK' /\ ClearInv /\ [Next]_vars => ClearInv'
  BY ClearInvStep
<1>2. QED
  BY <1>1, ClearInvInit, TypeCorrect, PTL DEF Spec

(* A marker and the hash never contradict each other, so what               *)
(* persistBoardIncremental deletes is really gone and what it upserts is    *)
(* really there.                                                            *)
THEOREM MarkersAgreeHolds ==
  ASSUME AtomicPipeline
  PROVE  Spec => []MarkersAgree
<1>1. ClearInv => MarkersAgree
  BY DEF ClearInv, HashAgrees, MarkersAgree
<1>2. QED
  BY <1>1, ClearInvariant, PTL

(* The marker of an element is only ever removed by a flush that captured   *)
(* the element's present content, however many processes flush the board:   *)
(* the epoch comparison of persistBoard's script rejects every other clear. *)
THEOREM ClearCoversWindowHolds ==
  ASSUME AtomicPipeline
  PROVE  Spec => ClearCoversWindow
<1> DEFINE Covered == \A e \in Elements :
             Marked(e) /\ ~Marked(e)' =>
                 \E p \in Persisters : /\ flush[p].at = "clear"
                                       /\ e \in flush[p].ids
                                       /\ flush[p].rows[e] = hot[e]
<1>1. ASSUME TypeOK, TypeOK', ClearInv, [Next]_vars PROVE [Covered]_vars
  <2> SUFFICES ASSUME NEW e \in Elements, Marked(e), ~Marked(e)'
               PROVE  \E p \in Persisters : /\ flush[p].at = "clear"
                                            /\ e \in flush[p].ids
                                            /\ flush[p].rows[e] = hot[e]
    OBVIOUS
  <2>1. CASE RunPipeline
    BY <2>1 DEF RunPipeline, MarkBoard, MarkElements, Marked, ClearInv, WholePipeline
  <2>2. ASSUME NEW p \in Persisters, ClearMarkers(p)
        PROVE  e \in flush[p].ids /\ flush[p].rows[e] = hot[e]
    <3>1. e \in dirtyIds \cup deletedIds
      BY DEF Marked
    <3>2. flush[p].at = "clear" /\ Fresh(p)
      BY <2>2 DEF ClearMarkers, Fresh
    <3>3. CoversContents(p)
      BY <1>1 DEF ClearInv, Covers
    <3>4. QED
      BY <3>1, <3>2, <3>3 DEF CoversContents
  <2>3. \/ RunPipeline
        \/ \E p \in Persisters : ClearMarkers(p)
        \/ UNCHANGED <<dirty, dirtyIds, deletedIds>>
    BY <1>1 DEF Next, vars, ApplyChangeSet, PersistBoard, PersistStep, TakeSequence,
       RunPipelineElements, RunPipelineMarkers, RunPipelineElementMarkers, WriterFails,
       StartPersist, ReadEpoch, ReadDirtyIds, ReadDeletedIds, ReadContents, Commit,
       SkipClear, PersistFails, redisVars, ClearInv, WholePipeline
  <2>4. QED
    BY <2>1, <2>2, <2>3 DEF Marked, ClearMarkers
<1>2. TypeOK /\ TypeOK' /\ ClearInv /\ [Next]_vars => [Covered]_vars
  BY <1>1
<1>3. Spec => [][Covered]_vars
  BY <1>2, ClearInvariant, TypeCorrect, PTL DEF Spec
<1>4. QED
  BY <1>3 DEF ClearCoversWindow

-----------------------------------------------------------------------------
(* No lost update, for a board that one process flushes at a time *)

LEMMA FlushInvInit == Init => FlushInv
  BY DEF Init, FlushInv, DivergentMarked, MarkedIsDirty, KeepsDirtyIds, KeepsDeletedIds,
         StaleIsMarked, CommittedIsEqual, NoFlush

(* A step of a flush that changes neither copy nor a marker. *)
LEMMA FlushInvRead ==
  ASSUME OneFlusher, FlushInv, NEW p \in Persisters, UNCHANGED <<redisVars, db>>,
         (KeepsDirtyIds(p) /\ KeepsDeletedIds(p) /\ StaleIsMarked(p) /\ CommittedIsEqual(p))'
  PROVE  FlushInv'
  BY DEF OneFlusher, FlushInv, DivergentMarked, MarkedIsDirty, Marked, redisVars

LEMMA FlushInvStep ==
  ASSUME OneFlusher, AtomicPipeline, TypeOK, TypeOK', ClearInv, FlushInv, [Next]_vars
  PROVE  FlushInv'
<1> USE DEF redisVars
<1>1. ASSUME UNCHANGED <<hot, dirty, epoch, dirtyIds, deletedIds, db, flush>>
      PROVE  FlushInv'
  BY <1>1 DEF FlushInv, DivergentMarked, MarkedIsDirty, Marked, KeepsDirtyIds,
              KeepsDeletedIds, StaleIsMarked, CommittedIsEqual, Fresh
<1>2. CASE RunPipeline
  <2>1. dirty' /\ flush' = flush /\ db' = db /\ epoch' = epoch + 1
    BY <1>2 DEF RunPipeline, MarkBoard
  <2>2. dirtyIds \cup deletedIds \subseteq dirtyIds' \cup deletedIds'
    BY <1>2 DEF RunPipeline, MarkElements
  <2>3. \A e \in Elements : hot'[e] # hot[e] => e \in dirtyIds' \cup deletedIds'
    BY <1>2 DEF RunPipeline, WriteElements, MarkElements, TypeOK, ClearInv, WholePipeline
  <2>4. \A e \in Elements : Marked(e) \/ hot'[e] # hot[e] => Marked(e)'
    BY <2>1, <2>2, <2>3 DEF Marked
  <2>5. DivergentMarked'
    BY <2>1, <2>4 DEF FlushInv, DivergentMarked
  <2>6. MarkedIsDirty'
    BY <2>1 DEF MarkedIsDirty
  <2>7. ASSUME NEW p \in Persisters
        PROVE  KeepsDirtyIds(p)' /\ KeepsDeletedIds(p)'
    BY <2>1, <2>2 DEF FlushInv, KeepsDirtyIds, KeepsDeletedIds
  <2>8. ASSUME NEW p \in Persisters PROVE StaleIsMarked(p)'
    <3>1. flush[p].ids \subseteq Elements
      BY DEF TypeOK, FlushState
    <3>2. QED
      BY <2>1, <2>4, <3>1 DEF FlushInv, StaleIsMarked
  <2>9. ASSUME NEW p \in Persisters PROVE CommittedIsEqual(p)'
    BY <2>1 DEF ClearInv, EpochBehind, PastEpoch, CommittedIsEqual, Fresh, TypeOK, FlushState
  <2>10. QED
    BY <2>5, <2>6, <2>7, <2>8, <2>9 DEF FlushInv
<1>3. ASSUME NEW p \in Persisters, StartPersist(p) \/ SkipClear(p) \/ PersistFails(p)
      PROVE  FlushInv'
  <2>1. flush'[p].at \in {"idle", "epoch"}
    <3>1. CASE StartPersist(p)
      BY <3>1 DEF StartPersist, TypeOK, NoFlush
    <3>2. CASE SkipClear(p) \/ PersistFails(p)
      BY <3>2 DEF SkipClear, PersistFails, TypeOK, NoFlush
    <3>3. QED
      BY <1>3, <3>1, <3>2
  <2>2. QED
    BY <1>3, <2>1, FlushInvRead
       DEF StartPersist, SkipClear, PersistFails, KeepsDirtyIds, KeepsDeletedIds,
           StaleIsMarked, CommittedIsEqual
<1>4. ASSUME NEW p \in Persisters, ReadEpoch(p) PROVE FlushInv'
  <2>1. flush'[p].at = IF Incremental THEN "dirtyIds" ELSE "contents"
    BY <1>4 DEF ReadEpoch, TypeOK, FlushState
  <2>2. QED
    BY <1>4, <2>1, FlushInvRead
       DEF ReadEpoch, KeepsDirtyIds, KeepsDeletedIds, StaleIsMarked, CommittedIsEqual
<1>5. ASSUME NEW p \in Persisters, ReadDirtyIds(p) PROVE FlushInv'
  <2>1. flush'[p].at = "deletedIds" /\ flush'[p].dirtyIds = dirtyIds
    BY <1>5 DEF ReadDirtyIds, TypeOK, FlushState
  <2>2. QED
    BY <1>5, <2>1, FlushInvRead
       DEF ReadDirtyIds, KeepsDirtyIds, KeepsDeletedIds, StaleIsMarked, CommittedIsEqual
<1>6. ASSUME NEW p \in Persisters, ReadDeletedIds(p) PROVE FlushInv'
  <2>1. /\ flush'[p].at = "contents"
        /\ flush'[p].dirtyIds = flush[p].dirtyIds
        /\ flush'[p].deletedIds = deletedIds
    BY <1>6 DEF ReadDeletedIds, TypeOK, FlushState
  <2>2. KeepsDirtyIds(p)
    BY DEF FlushInv
  <2>3. QED
    BY <1>6, <2>1, <2>2, FlushInvRead
       DEF ReadDeletedIds, KeepsDirtyIds, KeepsDeletedIds, StaleIsMarked, CommittedIsEqual
<1>7. ASSUME NEW p \in Persisters, ReadContents(p) PROVE FlushInv'
  <2>1. /\ flush'[p].at = IF CapturedIds(flush[p]) = {} THEN "clear" ELSE "commit"
        /\ flush'[p].epoch = flush[p].epoch
        /\ flush'[p].ids = CapturedIds(flush[p])
        /\ flush'[p].rows = CapturedRows(flush[p])
    BY <1>7 DEF ReadContents, TypeOK, FlushState
  <2>2. StaleIsMarked(p)'
    <3> SUFFICES ASSUME NEW e \in CapturedIds(flush[p]),
                        CapturedRows(flush[p])[e] # hot[e]
                 PROVE  Marked(e)
      BY <1>7, <2>1 DEF StaleIsMarked, Marked, ReadContents
    <3>1. e \in Elements
      BY DEF CapturedIds, TypeOK, FlushState
    <3>2. Incremental /\ e \in flush[p].deletedIds
      BY <3>1 DEF CapturedIds, CapturedRows
    <3>3. e \in dirtyIds \cup deletedIds
      BY <1>7, <3>2 DEF ReadContents, FlushInv, KeepsDeletedIds
    <3>4. dirty
      BY <3>2, <3>3 DEF FlushInv, MarkedIsDirty
    <3>5. QED
      BY <3>3, <3>4 DEF Marked
  <2>3. CommittedIsEqual(p)'
    <3> SUFFICES ASSUME CapturedIds(flush[p]) = {}, Fresh(p)
                 PROVE  db = hot
      BY <1>7, <2>1 DEF CommittedIsEqual, Fresh, ReadContents
    <3>1. CASE Incremental
      <4>1. dirtyIds \subseteq flush[p].dirtyIds /\ deletedIds \subseteq flush[p].deletedIds
        BY <1>7, <3>1 DEF ReadContents, ClearInv, Covers, CoversDirtyIds, CoversDeletedIds
      <4>2. dirtyIds \cup deletedIds = {}
        BY <3>1, <4>1 DEF CapturedIds
      <4>3. \A e \in Elements : db[e] = hot[e]
        BY <4>2 DEF FlushInv, DivergentMarked, Marked
      <4>4. QED
        BY <4>3 DEF TypeOK
    <3>2. CASE ~Incremental
      BY <3>2 DEF CapturedIds, TypeOK
    <3>3. QED
      BY <3>1, <3>2
  <2>4. QED
    BY <1>7, <2>1, <2>2, <2>3, FlushInvRead
       DEF ReadContents, KeepsDirtyIds, KeepsDeletedIds
<1>8. ASSUME NEW p \in Persisters, Commit(p) PROVE FlushInv'
  <2>1. /\ flush'[p].at = "clear"
        /\ flush'[p].epoch = flush[p].epoch
        /\ \A e \in Elements :
             db'[e] = IF e \in flush[p].ids THEN flush[p].rows[e] ELSE db[e]
        /\ UNCHANGED <<hot, dirty, epoch, dirtyIds, deletedIds>>
    BY <1>8 DEF Commit, TypeOK, FlushState
  <2>2. \A e \in Elements : db'[e] # hot[e] => Marked(e)
    BY <1>8, <2>1 DEF Commit, FlushInv, StaleIsMarked, DivergentMarked
  <2>3. DivergentMarked' /\ MarkedIsDirty'
    BY <2>1, <2>2 DEF FlushInv, DivergentMarked, MarkedIsDirty, Marked
  <2>4. CommittedIsEqual(p)'
    <3> SUFFICES ASSUME Fresh(p), NEW e \in Elements, db'[e] # hot[e]
                 PROVE  FALSE
      BY <2>1 DEF CommittedIsEqual, Fresh, TypeOK
    <3>1. e \in dirtyIds \cup deletedIds
      BY <2>2 DEF Marked
    <3>2. e \in flush[p].ids /\ flush[p].rows[e] = hot[e]
      BY <1>8, <3>1 DEF Commit, ClearInv, Covers, CoversContents
    <3>3. QED
      BY <2>1, <3>2
  <2>5. \A q \in Persisters : q = p
    BY DEF OneFlusher
  <2>6. QED
    BY <2>1, <2>3, <2>4, <2>5 DEF FlushInv, KeepsDirtyIds, KeepsDeletedIds, StaleIsMarked
<1>9. ASSUME NEW p \in Persisters, ClearMarkers(p) PROVE FlushInv'
  <2>1. db = hot
    BY <1>9 DEF ClearMarkers, FlushInv, CommittedIsEqual, Fresh
  <2>2. /\ flush'[p].at = "idle"
        /\ db' = hot'
        /\ Incremental => dirtyIds' = {} /\ deletedIds' = {}
    BY <1>9, <2>1 DEF ClearMarkers, TypeOK, NoFlush
  <2>3. \A q \in Persisters : q = p
    BY DEF OneFlusher
  <2>4. QED
    BY <2>2, <2>3 DEF FlushInv, DivergentMarked, MarkedIsDirty, KeepsDirtyIds,
                      KeepsDeletedIds, StaleIsMarked, CommittedIsEqual
<1>10. \/ UNCHANGED <<hot, dirty, epoch, dirtyIds, deletedIds, db, flush>>
       \/ RunPipeline
       \/ \E p \in Persisters : StartPersist(p) \/ PersistStep(p) \/ PersistFails(p)
  BY DEF Next, vars, ApplyChangeSet, PersistBoard, TakeSequence, WriterFails,
         RunPipelineElements, RunPipelineMarkers, RunPipelineElementMarkers,
         ClearInv, WholePipeline
<1>11. QED
  BY <1>1, <1>2, <1>3, <1>4, <1>5, <1>6, <1>7, <1>8, <1>9, <1>10 DEF PersistStep

LEMMA FlushInvariant ==
  ASSUME OneFlusher, AtomicPipeline
  PROVE  Spec => []FlushInv
<1>1. TypeOK /\ TypeOK' /\ ClearInv /\ FlushInv /\ [Next]_vars => FlushInv'
  BY FlushInvStep
<1>2. QED
  BY <1>1, FlushInvInit, ClearInvariant, TypeCorrect, PTL DEF Spec

(* No update is lost: whatever applyChangeSet wrote to Redis is in the      *)
(* database, or marked so that the next flush of the board will store it,   *)
(* through any sequence of changes, failed flushes and crashes.             *)
THEOREM NoLostUpdateHolds ==
  ASSUME OneFlusher, AtomicPipeline
  PROVE  Spec => []NoLostUpdate
<1>1. FlushInv => NoLostUpdate
  BY DEF FlushInv, DivergentMarked, NoLostUpdate
<1>2. QED
  BY <1>1, FlushInvariant, PTL

(* The protocol implements DurableBoard: the rows only change while the     *)
(* board is in boards:dirty, and it leaves that set only when the rows are  *)
(* what the hash holds.                                                     *)
THEOREM KeepsDurablePromiseHolds ==
  ASSUME OneFlusher, AtomicPipeline
  PROVE  Spec => KeepsDurablePromise
<1>1. Init => Durable!Init
  BY DEF Init, Durable!Init, Durable!Copy, Content, Absent
<1>2. ASSUME TypeOK, TypeOK', ClearInv, FlushInv, [Next]_vars
      PROVE  [Durable!Next]_(Durable!vars)
  <2> USE DEF redisVars
  <2>1. CASE RunPipeline
    <3>1. hot' \in Durable!Copy /\ dirty' = TRUE /\ db' = db
      BY <1>2, <2>1 DEF RunPipeline, MarkBoard, TypeOK, Durable!Copy
    <3>2. QED
      BY <3>1 DEF Durable!Next, Durable!Edit
  <2>2. ASSUME NEW p \in Persisters, Commit(p) PROVE [Durable!Next]_(Durable!vars)
    <3>1. db' \in Durable!Copy /\ hot' = hot /\ dirty' = dirty
      BY <1>2, <2>2 DEF Commit, TypeOK, Durable!Copy
    <3>2. CASE dirty
      BY <3>1, <3>2 DEF Durable!Next, Durable!Store
    <3>3. CASE ~dirty
      <4>1. \A e \in Elements : ~Marked(e)
        BY <3>3 DEF Marked
      <4>2. \A e \in Elements : db[e] = hot[e]
        BY <1>2, <4>1 DEF FlushInv, DivergentMarked
      <4>3. \A e \in flush[p].ids : e \in Elements => flush[p].rows[e] = hot[e]
        BY <1>2, <2>2, <4>1 DEF Commit, FlushInv, StaleIsMarked
      <4>4. db' = db
        BY <1>2, <2>2, <4>2, <4>3 DEF Commit, TypeOK
      <4>5. QED
        BY <3>1, <4>4 DEF Durable!vars
    <3>4. QED
      BY <3>2, <3>3
  <2>3. ASSUME NEW p \in Persisters, ClearMarkers(p) PROVE Durable!Next
    <3>1. db = hot
      BY <1>2, <2>3 DEF ClearMarkers, FlushInv, CommittedIsEqual, Fresh
    <3>2. dirty' = FALSE /\ hot' = hot /\ db' = db
      BY <2>3 DEF ClearMarkers
    <3>3. QED
      BY <3>1, <3>2 DEF Durable!Next, Durable!Settle
  <2>4. \/ UNCHANGED <<hot, dirty, db>>
        \/ RunPipeline
        \/ \E p \in Persisters : Commit(p) \/ ClearMarkers(p)
    BY <1>2 DEF Next, vars, ApplyChangeSet, PersistBoard, PersistStep, TakeSequence,
       RunPipelineElements, RunPipelineMarkers, RunPipelineElementMarkers, WriterFails,
       StartPersist, ReadEpoch, ReadDirtyIds, ReadDeletedIds, ReadContents,
       SkipClear, PersistFails, ClearInv, WholePipeline
  <2>5. QED
    BY <2>1, <2>2, <2>3, <2>4 DEF Durable!vars
<1>3. TypeOK /\ TypeOK' /\ ClearInv /\ FlushInv /\ [Next]_vars => [Durable!Next]_(Durable!vars)
  BY <1>2
<1>4. Spec => Durable!Spec
  BY <1>1, <1>3, FlushInvariant, ClearInvariant, TypeCorrect, PTL DEF Spec, Durable!Spec
<1>5. QED
  BY <1>4 DEF KeepsDurablePromise

=============================================================================
