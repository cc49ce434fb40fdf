---------------------------- MODULE MutationBatch ----------------------------
(***************************************************************************)
(* processBatch of mutations/processor.ts on one board: a batch is taken   *)
(* under the mutation lock, the elements it touches and their parents are  *)
(* read once into a context, and its mutations are then checked against    *)
(* the context, turned into change sets from the context, applied to the   *)
(* board, and the context is brought up to date.                           *)
(*                                                                         *)
(* An element is an open record: whatever its kind, a client may write any *)
(* of its fields and no field is compared with another, so that every      *)
(* board below is a board the program can be in.  Kept of an element is    *)
(* what the decisions look at: its parents, its lock, its month range, its *)
(* place (x, y, orders, grid cells) and its z-index.                       *)
(* UPDATE_ELEMENT is UPDATE_ELEMENTS with one update.                      *)
(***************************************************************************)
EXTENDS Integers, Sequences, FiniteSets, Functions, BoardElements

CONSTANTS
  Places, ZIndexes, MonthRanges, Locks,
                          \* the values the fields take
  PatchShapes,            \* the sets of fields that updates carry
  OpTypes,                \* types of the mutations that clients send
  Span,                   \* bound on the elements that one mutation lists
  MaxBatch                \* bound on the mutations of a batch

FieldNames ==
  {"containerId", "metaContainerId", "locked", "monthRange", "place", "zIndex"}

ASSUME FieldValues ==
  /\ MonthRanges \subseteq {"undefined", "null", "range"}
  /\ Locks \subseteq BOOLEAN
  /\ PatchShapes \subseteq SUBSET (FieldNames \cup {"id"})
ASSUME KnownTypes ==
  OpTypes \subseteq {"CREATE_ELEMENT", "UPDATE_ELEMENTS", "MOVE_ELEMENTS",
                     "REORDER_ELEMENT", "DELETE_ELEMENTS", "RECONCILE_MONTH_RANGE"}
ASSUME Bounds == Span \in Nat \ {0} /\ MaxBatch \in Nat \ {0}

VARIABLES
  board,    \* the elements hash
  batch,    \* the mutations of the batch that are still to be processed
  context   \* elementsById

vars == <<board, batch, context>>

-----------------------------------------------------------------------------
(* Elements, mutations and batches that clients send. *)

Elements ==
  [containerId     : Ids \cup {None},
   metaContainerId : Ids \cup {None},
   locked          : Locks,
   monthRange      : MonthRanges,
   place           : Places,
   zIndex          : ZIndexes]

NoElements == [id \in {} |-> None]

IsBoard(elements) ==
  /\ DOMAIN elements \subseteq Ids
  /\ \A id \in DOMAIN elements : elements[id] \in Elements

Boards == UNION {[present -> Elements] : present \in SUBSET Ids}

(* The fields of an update: any of the shapes, the id of an element among  *)
(* them.  A field that is sent is not undefined.                           *)
FieldsOfShape(shape) ==
  {[f \in shape |-> IF f = "id" THEN id ELSE element[f]] :
     id \in Ids,
     element \in {e \in Elements :
                   "monthRange" \in shape => e.monthRange # "undefined"}}

(* A move sets the place and a reorder the z-index, so that with updates   *)
(* they are lists of patches.                                              *)
Updates  == [id : Ids, fields : UNION {FieldsOfShape(shape) : shape \in PatchShapes}]
Moves    == [id : Ids, fields : [place : Places]]
Reorders == [id : Ids, fields : [zIndex : ZIndexes]]
Data     == [id : Ids, data : Elements]

PatchTypes == {"UPDATE_ELEMENTS", "MOVE_ELEMENTS", "REORDER_ELEMENT"}

Lists(S) == UNION {[1..n -> S] : n \in 1..Span}

MutationsOf(type) ==
  CASE type = "CREATE_ELEMENT"  -> [type : {type}, element : Data]
    [] type = "UPDATE_ELEMENTS" -> [type : {type}, patches : Lists(Updates)]
    [] type = "MOVE_ELEMENTS"   -> [type : {type}, patches : Lists(Moves),
                                    transient : BOOLEAN]
    [] type = "REORDER_ELEMENT" -> [type : {type}, patches : [{1} -> Reorders]]
    [] type = "DELETE_ELEMENTS" -> [type : {type}, deletes : SUBSET Ids]
    [] type = "RECONCILE_MONTH_RANGE" ->
         [type : {type}, metaId : Ids, upserts : {<<>>} \cup Lists(Data),
          deletes : {<<>>} \cup Lists(Ids)]

Mutations == UNION {MutationsOf(type) : type \in OpTypes}
Batches   == UNION {[1..n -> Mutations] : n \in 1..MaxBatch}

IdsOf(list) == {list[i].id : i \in DOMAIN list}

-----------------------------------------------------------------------------
(* createCachedBoardContext *)

Touched(op) ==
  CASE op.type \in PatchTypes -> IdsOf(op.patches)
    [] op.type = "RECONCILE_MONTH_RANGE" -> {op.metaId} \cup Range(op.deletes)
    [] OTHER -> {}

(* Mutated form of ReferencedMetas: creations only.                        *)
ReferencedMetasOfCreates(op) ==
  IF op.type = "CREATE_ELEMENT" THEN {op.element.data.metaContainerId} ELSE {}

ReferencedMetas(op) ==
  CASE op.type = "CREATE_ELEMENT"  -> {op.element.data.metaContainerId}
    [] op.type = "UPDATE_ELEMENTS" ->
         {patch.fields.metaContainerId : patch \in
            {p \in Range(op.patches) : "metaContainerId" \in DOMAIN p.fields}}
    [] OTHER -> {}

Parents(element) == {element.containerId, element.metaContainerId} \ {None}

(* Mutated form of createCachedBoardContext: layouts are loaded, columns   *)
(* are not.                                                                *)
ContextWithoutColumns(ops) ==
  LET touched == UNION {Touched(op) : op \in Range(ops)}
      layouts == {board[id].metaContainerId : id \in touched \cap DOMAIN board}
                 \cup (UNION {ReferencedMetas(op) : op \in Range(ops)})
  IN  IF touched = {}
      THEN NoElements
      ELSE Restrict(board, (touched \cup layouts) \cap DOMAIN board)

createCachedBoardContext(ops) ==
  LET touched == UNION {Touched(op) : op \in Range(ops)}
      parents == (UNION {Parents(board[id]) : id \in touched \cap DOMAIN board})
                 \cup (UNION {ReferencedMetas(op) : op \in Range(ops)})
  IN  IF touched = {}
      THEN NoElements
      ELSE Restrict(board, (touched \cup parents) \cap DOMAIN board)

-----------------------------------------------------------------------------
(* lock-enforcement.ts *)

POSITION_FIELDS == {"place", "containerId", "metaContainerId"}

InsideLocked(ctx, id) ==
  \E parent \in Parents(ctx[id]) \cap DOMAIN ctx : ctx[parent].locked

(* monthRange !== undefined: null counts as managed here *)
IsManagedMeta(ctx, id) == id \in DOMAIN ctx /\ ctx[id].monthRange # "undefined"

Immovable(ctx, id) ==
  /\ id \in DOMAIN ctx
  /\ \/ ctx[id].locked
     \/ InsideLocked(ctx, id)
     \/ IsManagedMeta(ctx, ctx[id].metaContainerId)

PatchesIntoManagedMeta(ctx, patch) ==
  /\ patch.id \in DOMAIN ctx
  /\ "metaContainerId" \in DOMAIN patch.fields
  /\ IsManagedMeta(ctx, patch.fields.metaContainerId)
  /\ ctx[patch.id].metaContainerId # patch.fields.metaContainerId

isMutationBlockedByLock(op, ctx) ==
  CASE op.type = "MOVE_ELEMENTS" ->
         \E patch \in Range(op.patches) : Immovable(ctx, patch.id)
    [] op.type = "UPDATE_ELEMENTS" ->
         \E patch \in Range(op.patches) :
           /\ DOMAIN patch.fields \cap POSITION_FIELDS # {}
           /\ \/ Immovable(ctx, patch.id)
              \/ PatchesIntoManagedMeta(ctx, patch)
    [] op.type = "CREATE_ELEMENT" ->
         IsManagedMeta(ctx, op.element.data.metaContainerId)
    [] op.type = "DELETE_ELEMENTS" ->
         \E id \in op.deletes \cap DOMAIN ctx :
           /\ ctx[id].metaContainerId \notin op.deletes
           /\ IsManagedMeta(ctx, ctx[id].metaContainerId)
    [] OTHER -> FALSE

(* Mutated form of validateReconcileMonthRange: deletes are not compared   *)
(* with the context.                                                       *)
ValidateUpsertsOnly(op, ctx) ==
  /\ op.metaId \in DOMAIN ctx => ctx[op.metaId].monthRange = "range"
  /\ op.metaId \in IdsOf(op.upserts)
  /\ op.metaId \notin Range(op.deletes)

(* a monthRange that is an object: null does not count *)
validateReconcileMonthRange(op, ctx) ==
  /\ op.metaId \in DOMAIN ctx => ctx[op.metaId].monthRange = "range"
  /\ op.metaId \in IdsOf(op.upserts)
  /\ Cardinality(IdsOf(op.upserts)) = Len(op.upserts)
  /\ \A u \in Range(op.upserts) :
       IF u.id = op.metaId THEN u.data.monthRange = "range"
                           ELSE u.data.metaContainerId = op.metaId
  /\ op.metaId \notin Range(op.deletes)
  /\ IsInjective(op.deletes)
  /\ Range(op.deletes) \cap IdsOf(op.upserts) = {}
  /\ \A id \in Range(op.deletes) \cap DOMAIN ctx :
       ctx[id].metaContainerId = op.metaId

-----------------------------------------------------------------------------
(* toChangeSet, and applyChangeSet on the elements hash *)

(* Mutated form of Merge: without the spread of the existing element.      *)
MergeFieldsOnly(element, fields) == fields

Merge(element, fields) ==
  [f \in DOMAIN element |-> IF f \in DOMAIN fields THEN fields[f] ELSE element[f]]

(* Of several entries of a list for one id, the last counts:               *)
(* normalizeUpserts.                                                       *)
Last(list, id) ==
  list[CHOOSE i \in DOMAIN list :
         list[i].id = id /\ \A j \in DOMAIN list : list[j].id = id => j <= i]

normalizeUpserts(list) == [id \in IdsOf(list) |-> Last(list, id).data]

(* The fields are spread over the cached element, its id included, and     *)
(* what comes out is stored under the id it then has.                      *)
Target(patch) == IF "id" \in DOMAIN patch.fields THEN patch.fields.id ELSE patch.id

(* toUpsertFromCache over a list of patches: patches of ids that are not   *)
(* cached are dropped.                                                     *)
UpsertsFromCache(ctx, patches) ==
  normalizeUpserts(
    [i \in {j \in DOMAIN patches : patches[j].id \in DOMAIN ctx} |->
       [id   |-> Target(patches[i]),
        data |-> Merge(ctx[patches[i].id], patches[i].fields)]])

toChangeSet(ctx, op) ==
  CASE op.type = "CREATE_ELEMENT"  ->
         [upserts |-> normalizeUpserts(<<op.element>>), deletes |-> {}]
    [] op.type \in PatchTypes ->
         [upserts |-> UpsertsFromCache(ctx, op.patches), deletes |-> {}]
    [] op.type = "DELETE_ELEMENTS" -> [upserts |-> NoElements, deletes |-> op.deletes]
    [] op.type = "RECONCILE_MONTH_RANGE" ->
         [upserts |-> normalizeUpserts(op.upserts), deletes |-> Range(op.deletes)]

(* The change that is applied: deletes with all they contain, and the      *)
(* upserts that are not deleted.                                           *)
PersistedChange(changeSet) ==
  LET deletes == IF changeSet.deletes = {} THEN {}
                 ELSE collectCascadeDeleteIds(board, changeSet.deletes)
  IN  [upserts |-> Restrict(changeSet.upserts, DOMAIN changeSet.upserts \ deletes),
       deletes |-> deletes]

Apply(elements, change) ==
  [id \in (DOMAIN elements \ change.deletes) \cup DOMAIN change.upserts |->
     IF id \in DOMAIN change.upserts THEN change.upserts[id] ELSE elements[id]]

(* Mutated form of the next definition: deletes stay in the context.       *)
ContextKeepsDeleted(ctx, change) ==
  Apply(ctx, [upserts |-> change.upserts, deletes |-> {}])

applyPersistedChangeToContext(ctx, change) == Apply(ctx, change)

-----------------------------------------------------------------------------
Init ==
  /\ board \in Boards
  /\ batch = <<>>
  /\ context = NoElements

ReceiveBatch(ops) ==
  /\ batch = <<>>
  /\ batch' = ops
  /\ context' = createCachedBoardContext(ops)
  /\ UNCHANGED board

(* A mutation that leaves the board alone.  The context is dropped with    *)
(* the last one.                                                           *)
Skip ==
  /\ batch' = Tail(batch)
  /\ context' = IF Len(batch) = 1 THEN NoElements ELSE context
  /\ UNCHANGED board

Op == Head(batch)

IsTransient == Op.type = "MOVE_ELEMENTS" /\ Op.transient

BroadcastOnly ==
  /\ batch # <<>>
  /\ IsTransient
  /\ Skip

(* tryMarkSeen finds the id of an earlier mutation. *)
AlreadyApplied ==
  /\ batch # <<>>
  /\ ~IsTransient
  /\ Skip

LockBlocked ==
  /\ batch # <<>>
  /\ ~IsTransient
  /\ isMutationBlockedByLock(Op, context)
  /\ Skip

ReconcileRejected ==
  /\ batch # <<>>
  /\ ~isMutationBlockedByLock(Op, context)
  /\ Op.type = "RECONCILE_MONTH_RANGE"
  /\ ~validateReconcileMonthRange(Op, context)
  /\ Skip

(* applyChangeSet and applyPersistedChangeToContext.  An empty change      *)
(* changes neither.                                                        *)
ApplyMutation ==
  /\ batch # <<>>
  /\ ~IsTransient
  /\ ~isMutationBlockedByLock(Op, context)
  /\ Op.type = "RECONCILE_MONTH_RANGE" => validateReconcileMonthRange(Op, context)
  /\ LET change == PersistedChange(toChangeSet(context, Op)) IN
     /\ board' = Apply(board, change)
     /\ context' = IF Len(batch) = 1 THEN NoElements
                   ELSE applyPersistedChangeToContext(context, change)
  /\ batch' = Tail(batch)

Next ==
  \/ \E ops \in Batches : ReceiveBatch(ops)
  \/ BroadcastOnly
  \/ AlreadyApplied
  \/ LockBlocked
  \/ ReconcileRejected
  \/ ApplyMutation

Spec == Init /\ [][Next]_vars

-----------------------------------------------------------------------------
(* Whatever is patched, board and context hold whole elements, and a batch *)
(* only gets shorter (toUpsertFromCache spreads fields over an element).   *)
TypeOK ==
  /\ IsBoard(board)
  /\ IsBoard(context)
  /\ Len(batch) <= MaxBatch

(* The change set of a mutation is what it would be if the mutation had    *)
(* been sent alone: the context, read once per batch, shows what the       *)
(* earlier mutations of the batch have made of the board, the elements     *)
(* that a delete took along included (processor.ts 233-243).               *)
ActsOnCurrentBoard ==
  batch # <<>> => toChangeSet(context, Op) = toChangeSet(board, Op)

Position(element) == [f \in POSITION_FIELDS |-> element[f]]

Immobile(id) == board[id].locked \/ InsideLocked(board, id)

(* An element that is locked, or that sits in a locked column or layout,   *)
(* keeps its position and its parents (lock-enforcement.ts 131-138).       *)
LocksAuthoritative ==
  [][\A id \in DOMAIN board \cap DOMAIN board' :
       Immobile(id) => Position(board'[id]) = Position(board[id])]_vars

(* A move, an update or a reorder whose context shows the board as it is:  *)
(* the first of a batch, or one that comes alone.                          *)
Dragging ==
  /\ batch # <<>>
  /\ Op.type \in PatchTypes
  /\ context = createCachedBoardContext(batch)

(* The elements that the patches of a mutation name in an id field. *)
SpreadIds(op) ==
  {patch.fields.id : patch \in {p \in Range(op.patches) : "id" \in DOMAIN p.fields}}

(* A move, an update or a reorder that is checked against a context just   *)
(* read leaves everything where it is that is locked or sits in something  *)
(* locked, in whatever combination it lists elements and fields, unless it *)
(* names the element in the id field of a patch (lock-enforcement.ts       *)
(* 131-175, and the parents that processor.ts 211-228 loads for it).       *)
DragsRespectLocks ==
  [][Dragging => \A id \in (DOMAIN board \cap DOMAIN board') \ SpreadIds(Op) :
       Immobile(id) => Position(board'[id]) = Position(board[id])]_vars

Months(elements, meta) ==
  {id \in DOMAIN elements : elements[id].metaContainerId = meta}

MonthsKept(meta, ids) ==
  /\ Months(board', meta) \cap ids = Months(board, meta) \cap ids
  /\ \A id \in Months(board, meta) \cap ids :
       Position(board'[id]) = Position(board[id])

(* The same mutations put nothing into a managed layout, take nothing out  *)
(* of it and move nothing in it, with the same exception                   *)
(* (lock-enforcement.ts 137-138).                                          *)
ManagedSealed ==
  [][Dragging => \A meta \in Ids :
       IsManagedMeta(board, meta) => MonthsKept(meta, Ids \ SpreadIds(Op))]_vars

(* As long as a meta is managed, only RECONCILE_MONTH_RANGE changes which  *)
(* months it has and where they are (lock-enforcement.ts 137-138).         *)
ManagedOnlyByReconcile ==
  [][\A meta \in Ids :
       /\ IsManagedMeta(board, meta) /\ IsManagedMeta(board', meta)
       /\ batch # <<>> /\ Op.type # "RECONCILE_MONTH_RANGE"
       => MonthsKept(meta, Ids)]_vars

(* When an element goes, everything inside it goes with it: what is left   *)
(* refers to it only where the reconcile that removed it has just written  *)
(* the reference (state-domain.ts 118-128).                                *)
DeleteLeavesNoOrphan ==
  [][\A gone \in DOMAIN board \ DOMAIN board', id \in DOMAIN board' :
       gone \in Parents(board'[id]) =>
         /\ Op.type = "RECONCILE_MONTH_RANGE"
         /\ id \in IdsOf(Op.upserts)]_vars

(* A reconcile that has an effect is one of a meta that is new or managed, *)
(* removes nothing but months of it, what they contain and what still      *)
(* refers to ids that are gone already, and writes nothing but the meta,   *)
(* with a month range, and months of it (lock-enforcement.ts 78-84).       *)
ReconcileIntegrity ==
  [][batch # <<>> /\ Op.type = "RECONCILE_MONTH_RANGE" /\ board' # board =>
       /\ Op.metaId \in DOMAIN board => board[Op.metaId].monthRange = "range"
       /\ DOMAIN board \ DOMAIN board' \subseteq
            collectCascadeDeleteIds(board,
              Months(board, Op.metaId) \cup (Range(Op.deletes) \ DOMAIN board))
       /\ \A id \in DOMAIN board' :
            \/ id \in DOMAIN board /\ board'[id] = board[id]
            \/ id = Op.metaId /\ board'[id].monthRange = "range"
            \/ board'[id].metaContainerId = Op.metaId]_vars

(* A reconcile gives no month range to a layout that exists, has columns   *)
(* and has none (lock-enforcement.ts 78-80).                               *)
PlainMetasStayPlain ==
  [][batch # <<>> /\ Op.type = "RECONCILE_MONTH_RANGE" =>
       \A meta \in DOMAIN board \cap DOMAIN board' :
         Months(board, meta) # {} /\ board[meta].monthRange = "undefined"
         => board'[meta].monthRange = "undefined"]_vars
=============================================================================
