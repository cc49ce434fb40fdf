------------------------- MODULE MutationBatchProofs -------------------------
(***************************************************************************)
(* Theorems about MutationBatch, for every board, every batch and every    *)
(* bound.                                                                  *)
(***************************************************************************)
EXTENDS MutationBatch, WellFoundedInduction, TLAPS

(* The context shows nothing that is not on the board, and everything on   *)
(* the board that the rest of the batch touches.                           *)
ShowsBoard ==
  \A id \in DOMAIN context : id \in DOMAIN board /\ context[id] = board[id]

ShowsTouched ==
  \A i \in DOMAIN batch : Touched(batch[i]) \cap DOMAIN board \subseteq DOMAIN context

ContextInv ==
  /\ batch \in Seq(Mutations)
  /\ ShowsBoard
  /\ ShowsTouched

-----------------------------------------------------------------------------
(* A batch is a sequence of mutations. *)
LEMMA BatchesAreSequences ==
  ASSUME NEW ops \in Batches
  PROVE  ops \in Seq(Mutations)
<1>1. PICK n \in 1..MaxBatch : ops \in [1..n -> Mutations]
  BY DEF Batches
<1> QED
  BY <1>1

(* The tail of a batch keeps what holds of all its mutations. *)
LEMMA TailTouched ==
  ASSUME batch \in Seq(Mutations), batch # <<>>, batch' = Tail(batch),
         NEW i \in DOMAIN batch'
  PROVE  /\ batch' \in Seq(Mutations)
         /\ i + 1 \in DOMAIN batch
         /\ batch'[i] = batch[i + 1]
  OBVIOUS

(* Loading the context establishes the invariant for a new batch. *)
LEMMA ContextLoaded ==
  ASSUME NEW ops \in Batches, ReceiveBatch(ops)
  PROVE  ContextInv'
<1> DEFINE touched == UNION {Touched(op) : op \in Range(ops)}
           parents == (UNION {Parents(board[id]) : id \in touched \cap DOMAIN board})
                      \cup (UNION {ReferencedMetas(op) : op \in Range(ops)})
<1>1. batch' = ops /\ board' = board /\ ops \in Seq(Mutations)
  BY BatchesAreSequences DEF ReceiveBatch
<1>2. \A i \in DOMAIN ops : Touched(ops[i]) \subseteq touched
  BY DEF Range
<1>3. CASE touched = {}
  <2>1. context' = NoElements
    BY <1>3 DEF ReceiveBatch, createCachedBoardContext
  <2> QED
    BY <2>1, <1>1, <1>2, <1>3 DEF ContextInv, ShowsBoard, ShowsTouched, NoElements
<1>4. CASE touched # {}
  <2>1. context' = Restrict(board, (touched \cup parents) \cap DOMAIN board)
    BY <1>4 DEF ReceiveBatch, createCachedBoardContext
  <2>2. /\ DOMAIN context' = (touched \cup parents) \cap DOMAIN board
        /\ \A id \in DOMAIN context' : context'[id] = board[id]
    BY <2>1 DEF Restrict
  <2> HIDE DEF touched, parents
  <2>3. ShowsBoard'
    BY <2>2, <1>1 DEF ShowsBoard
  <2>4. ShowsTouched'
    BY <2>2, <1>1, <1>2 DEF ShowsTouched
  <2> QED
    BY <2>3, <2>4, <1>1 DEF ContextInv
<1> QED
  BY <1>3, <1>4

(* A mutation that is skipped keeps the invariant. *)
LEMMA ContextSkip ==
  ASSUME ContextInv, batch # <<>>, Skip
  PROVE  ContextInv'
<1>1. batch' \in Seq(Mutations) /\ batch' = Tail(batch) /\ board' = board
  BY DEF ContextInv, Skip
<1>2. CASE Len(batch) = 1
  <2>1. context' = NoElements /\ DOMAIN batch' = {}
    BY <1>1, <1>2 DEF Skip, ContextInv
  <2> QED
    BY <2>1, <1>1 DEF ContextInv, ShowsBoard, ShowsTouched, NoElements
<1>3. CASE Len(batch) # 1
  <2>1. context' = context
    BY <1>3 DEF Skip
  <2>2. ShowsBoard'
    BY <2>1, <1>1 DEF ContextInv, ShowsBoard
  <2>3. ShowsTouched'
    BY <2>1, <1>1, TailTouched DEF ContextInv, ShowsTouched
  <2> QED
    BY <2>2, <2>3, <1>1 DEF ContextInv
<1> QED
  BY <1>2, <1>3

(* Applying the same change to the board and to the context keeps what the *)
(* context shows.                                                          *)
LEMMA ContextApply ==
  ASSUME ContextInv, ApplyMutation
  PROVE  ContextInv'
<1> DEFINE change == PersistedChange(toChangeSet(context, Op))
<1>1. batch # <<>> /\ batch' \in Seq(Mutations) /\ batch' = Tail(batch)
  BY DEF ContextInv, ApplyMutation
<1>2. CASE Len(batch) = 1
  <2>1. context' = NoElements /\ DOMAIN batch' = {}
    BY <1>1, <1>2 DEF ApplyMutation, ContextInv
  <2> QED
    BY <2>1, <1>1 DEF ContextInv, ShowsBoard, ShowsTouched, NoElements
<1>3. CASE Len(batch) # 1
  <2>1. board' = Apply(board, change) /\ context' = Apply(context, change)
    BY <1>3 DEF ApplyMutation, applyPersistedChangeToContext
  <2> HIDE DEF change
  <2>2. /\ DOMAIN board' = (DOMAIN board \ change.deletes) \cup DOMAIN change.upserts
        /\ DOMAIN context' = (DOMAIN context \ change.deletes) \cup DOMAIN change.upserts
        /\ \A id \in DOMAIN board' : board'[id] =
             IF id \in DOMAIN change.upserts THEN change.upserts[id] ELSE board[id]
        /\ \A id \in DOMAIN context' : context'[id] =
             IF id \in DOMAIN change.upserts THEN change.upserts[id] ELSE context[id]
    BY <2>1 DEF Apply
  <2>3. ShowsBoard'
    BY <2>2 DEF ContextInv, ShowsBoard
  <2>4. ShowsTouched'
    <3> SUFFICES ASSUME NEW i \in DOMAIN batch',
                        NEW id \in Touched(batch'[i]) \cap DOMAIN board'
                 PROVE  id \in DOMAIN context'
      BY DEF ShowsTouched
    <3>1. i + 1 \in DOMAIN batch /\ batch'[i] = batch[i + 1]
      BY <1>1, TailTouched DEF ContextInv
    <3> QED
      BY <3>1, <2>2 DEF ContextInv, ShowsTouched
  <2> QED
    BY <2>3, <2>4, <1>1 DEF ContextInv
<1> QED
  BY <1>2, <1>3

LEMMA ContextInvInit == Init => ContextInv
  BY DEF Init, ContextInv, ShowsBoard, ShowsTouched, NoElements

LEMMA ContextInvStep == ContextInv /\ [Next]_vars => ContextInv'
<1> SUFFICES ASSUME ContextInv, [Next]_vars PROVE ContextInv'
  OBVIOUS
<1>1. ASSUME NEW ops \in Batches, ReceiveBatch(ops) PROVE ContextInv'
  BY <1>1, ContextLoaded
<1>2. CASE BroadcastOnly
  BY <1>2, ContextSkip DEF BroadcastOnly
<1>3. CASE AlreadyApplied
  BY <1>3, ContextSkip DEF AlreadyApplied
<1>4. CASE LockBlocked
  BY <1>4, ContextSkip DEF LockBlocked
<1>5. CASE ReconcileRejected
  BY <1>5, ContextSkip DEF ReconcileRejected
<1>6. CASE ApplyMutation
  BY <1>6, ContextApply
<1>7. CASE UNCHANGED vars
  BY <1>7 DEF vars, ContextInv, ShowsBoard, ShowsTouched
<1> QED
  BY <1>1, <1>2, <1>3, <1>4, <1>5, <1>6, <1>7 DEF Next

(* The change set of a mutation depends on the elements it touches only. *)
LEMMA ContextInvActs == ContextInv => ActsOnCurrentBoard
<1> SUFFICES ASSUME ContextInv, batch # <<>>
             PROVE  toChangeSet(context, Op) = toChangeSet(board, Op)
  BY DEF ActsOnCurrentBoard
<1>1. Touched(Op) \cap DOMAIN board = Touched(Op) \cap DOMAIN context
  BY DEF ContextInv, ShowsBoard, ShowsTouched, Op
<1>2. CASE Op.type \in PatchTypes
  <2>1. Touched(Op) = IdsOf(Op.patches)
    BY <1>2 DEF Touched, PatchTypes
  <2>2. UpsertsFromCache(context, Op.patches) = UpsertsFromCache(board, Op.patches)
    <3> DEFINE I(ctx) == {j \in DOMAIN Op.patches : Op.patches[j].id \in DOMAIN ctx}
               list(ctx) == [i \in I(ctx) |->
                               [id   |-> Target(Op.patches[i]),
                                data |-> Merge(ctx[Op.patches[i].id], Op.patches[i].fields)]]
    <3>1. \A i \in DOMAIN Op.patches : Op.patches[i].id \in Touched(Op)
      BY <2>1 DEF IdsOf
    <3>2. I(context) = I(board)
      BY <1>1, <3>1
    <3>3. \A i \in I(context) : context[Op.patches[i].id] = board[Op.patches[i].id]
      BY DEF ContextInv, ShowsBoard
    <3>4. list(context) = list(board)
      BY <3>2, <3>3
    <3> HIDE DEF list
    <3>5. normalizeUpserts(list(context)) = normalizeUpserts(list(board))
      BY <3>4
    <3> QED
      BY <3>5 DEF UpsertsFromCache, list
  <2> QED
    BY <1>2, <2>2 DEF toChangeSet
<1>3. CASE Op.type \notin PatchTypes
  BY <1>3 DEF toChangeSet
<1> QED
  BY <1>2, <1>3

(* However long a batch is and whatever it mixes, every one of its         *)
(* mutations is turned into the change set it would have had alone: the    *)
(* context of processor.ts is never stale in what it is used to write.     *)
THEOREM ActsOnCurrentBoardHolds == Spec => []ActsOnCurrentBoard
<1>1. Spec => []ContextInv
  BY ContextInvInit, ContextInvStep, PTL DEF Spec
<1> QED
  BY <1>1, ContextInvActs, PTL
-----------------------------------------------------------------------------
(* Type correctness. *)

(* A list that mentions an id has a last entry for it. *)
LEMMA LargestIndex ==
  ASSUME NEW n \in Nat, NEW I \in SUBSET (1..n), I # {}
  PROVE  \E i \in I : \A j \in I : j <= i
<1> DEFINE T == {n - i : i \in I}
<1>1. T \subseteq Nat /\ T # {}
  <2>1. \A i \in I : n - i \in Nat
    OBVIOUS
  <2>2. PICK i \in I : TRUE
    OBVIOUS
  <2>3. n - i \in T
    BY <2>2
  <2> QED
    BY <2>1, <2>3
<1> DEFINE R == OpToRel(<, Nat)
<1>2. IsWellFoundedOn(R, Nat)
  BY NatLessThanWellFounded
<1>3. \A x, y \in Nat : y < x => <<y, x>> \in R
  BY DEF OpToRel
<1> HIDE DEF R
<1>4. PICK x \in T : \A y \in T : ~(<<y, x>> \in R)
  <2> HIDE DEF T
  <2> QED
    BY <1>1, <1>2, WFMin
<1>5. \A y \in T : ~(y < x)
  BY <1>1, <1>3, <1>4
<1>6. PICK i \in I : x = n - i
  BY <1>4
<1>7. \A j \in I : ~(n - j < n - i)
  BY <1>5, <1>6
<1> QED
  BY <1>7

LEMMA LastIsListed ==
  ASSUME NEW n \in Nat, NEW list, DOMAIN list \subseteq 1..n, NEW id \in IdsOf(list)
  PROVE  \E i \in DOMAIN list : Last(list, id) = list[i] /\ list[i].id = id
<1> DEFINE I == {i \in DOMAIN list : list[i].id = id}
<1>1. I \in SUBSET (1..n) /\ I # {}
  BY DEF IdsOf
<1>2. \E i \in I : \A j \in I : j <= i
  BY <1>1, LargestIndex
<1>3. \E i \in DOMAIN list :
        list[i].id = id /\ \A j \in DOMAIN list : list[j].id = id => j <= i
  BY <1>2
<1> QED
  BY <1>3 DEF Last

(* What a mutation of each type carries. *)
LEMMA OpShape ==
  ASSUME NEW op \in Mutations
  PROVE  /\ op.type \in PatchTypes \cup {"CREATE_ELEMENT", "DELETE_ELEMENTS",
                                         "RECONCILE_MONTH_RANGE"}
         /\ op.type = "CREATE_ELEMENT" => op.element \in Data
         /\ op.type = "UPDATE_ELEMENTS" => op.patches \in Lists(Updates)
         /\ op.type = "MOVE_ELEMENTS" => op.patches \in Lists(Moves)
         /\ op.type = "REORDER_ELEMENT" => op.patches \in [{1} -> Reorders]
         /\ op.type = "DELETE_ELEMENTS" => op.deletes \in SUBSET Ids
         /\ op.type = "RECONCILE_MONTH_RANGE" =>
              /\ op.metaId \in Ids
              /\ op.upserts \in {<<>>} \cup Lists(Data)
              /\ op.deletes \in {<<>>} \cup Lists(Ids)
<1>1. PICK type \in OpTypes : op \in MutationsOf(type)
  BY DEF Mutations
<1>2. CASE type = "CREATE_ELEMENT"
  <2>1. op \in [type : {type}, element : Data]
    BY <1>1, <1>2 DEF MutationsOf
  <2> QED
    BY <2>1, <1>2
<1>3. CASE type = "UPDATE_ELEMENTS"
  <2>1. op \in [type : {type}, patches : Lists(Updates)]
    BY <1>1, <1>3 DEF MutationsOf
  <2> QED
    BY <2>1, <1>3 DEF PatchTypes
<1>4. CASE type = "MOVE_ELEMENTS"
  <2>1. op \in [type : {type}, patches : Lists(Moves), transient : BOOLEAN]
    BY <1>1, <1>4 DEF MutationsOf
  <2> QED
    BY <2>1, <1>4 DEF PatchTypes
<1>5. CASE type = "REORDER_ELEMENT"
  <2>1. op \in [type : {type}, patches : [{1} -> Reorders]]
    BY <1>1, <1>5 DEF MutationsOf
  <2> QED
    BY <2>1, <1>5 DEF PatchTypes
<1>6. CASE type = "DELETE_ELEMENTS"
  <2>1. op \in [type : {type}, deletes : SUBSET Ids]
    BY <1>1, <1>6 DEF MutationsOf
  <2> QED
    BY <2>1, <1>6
<1>7. CASE type = "RECONCILE_MONTH_RANGE"
  <2>1. op \in [type : {type}, metaId : Ids, upserts : {<<>>} \cup Lists(Data),
                deletes : {<<>>} \cup Lists(Ids)]
    BY <1>1, <1>7 DEF MutationsOf
  <2> QED
    BY <2>1, <1>7
<1> QED
  BY <1>2, <1>3, <1>4, <1>5, <1>6, <1>7, KnownTypes

(* A list is finite. *)
LEMMA ListShape ==
  ASSUME NEW S, NEW list \in {<<>>} \cup Lists(S)
  PROVE  \E n \in Nat : list \in [1..n -> S]
<1>1. CASE list \in Lists(S)
  BY <1>1 DEF Lists
<1>2. CASE list = <<>>
  <2>1. list \in [1..0 -> S]
    BY <1>2
  <2> QED
    BY <2>1
<1> QED
  BY <1>1, <1>2

(* The entries of a list of patches, and the fields that each may have. *)
PatchOK(patch) ==
  /\ patch.id \in Ids
  /\ \/ \E shape \in PatchShapes : patch.fields \in FieldsOfShape(shape)
     \/ patch.fields \in [place : Places]
     \/ patch.fields \in [zIndex : ZIndexes]

LEMMA PatchShape ==
  ASSUME NEW op \in Mutations, op.type \in PatchTypes
  PROVE  /\ \E n \in Nat : DOMAIN op.patches \subseteq 1..n
         /\ \A i \in DOMAIN op.patches :
              /\ PatchOK(op.patches[i])
              /\ op.type = "MOVE_ELEMENTS" => op.patches[i].fields \in [place : Places]
              /\ op.type = "REORDER_ELEMENT" =>
                   op.patches[i].fields \in [zIndex : ZIndexes]
<1>1. CASE op.type = "UPDATE_ELEMENTS"
  <2>1. PICK n \in Nat : op.patches \in [1..n -> Updates]
    BY <1>1, OpShape, ListShape
  <2>2. \A patch \in Updates : PatchOK(patch)
    <3> SUFFICES ASSUME NEW patch \in Updates PROVE PatchOK(patch)
      OBVIOUS
    <3>1. /\ patch.id \in Ids
          /\ patch.fields \in UNION {FieldsOfShape(shape) : shape \in PatchShapes}
      BY DEF Updates
    <3>2. \E shape \in PatchShapes : patch.fields \in FieldsOfShape(shape)
      BY <3>1
    <3> QED
      BY <3>1, <3>2 DEF PatchOK
  <2> QED
    BY <1>1, <2>1, <2>2
<1>2. CASE op.type = "MOVE_ELEMENTS"
  <2>1. PICK n \in Nat : op.patches \in [1..n -> Moves]
    BY <1>2, OpShape, ListShape
  <2>2. \A patch \in Moves : patch.id \in Ids /\ patch.fields \in [place : Places]
    BY DEF Moves
  <2> QED
    BY <1>2, <2>1, <2>2 DEF PatchOK
<1>3. CASE op.type = "REORDER_ELEMENT"
  <2>1. op.patches \in [1..1 -> Reorders]
    <3>1. op.patches \in [{1} -> Reorders] /\ {1} = 1..1
      BY <1>3, OpShape
    <3> QED
      BY <3>1
  <2>2. \A patch \in Reorders : patch.id \in Ids /\ patch.fields \in [zIndex : ZIndexes]
    BY DEF Reorders
  <2>3. 1 \in Nat
    OBVIOUS
  <2> QED
    BY <1>3, <2>1, <2>2, <2>3 DEF PatchOK
<1> QED
  BY <1>1, <1>2, <1>3 DEF PatchTypes

(* The fields of a patch are fields of some element, and the id that a     *)
(* patch writes under is an id.                                            *)
LEMMA PatchFields ==
  ASSUME NEW patch, PatchOK(patch), NEW element \in Elements
  PROVE  /\ \E e \in Elements :
              \A f \in DOMAIN patch.fields \cap FieldNames : patch.fields[f] = e[f]
         /\ Target(patch) \in Ids
<1> DEFINE fields == patch.fields
<1>1. ASSUME NEW shape \in PatchShapes, fields \in FieldsOfShape(shape)
      PROVE  /\ \E e \in Elements :
                  \A f \in DOMAIN fields \cap FieldNames : fields[f] = e[f]
             /\ "id" \in DOMAIN fields => fields["id"] \in Ids
  <2>1. PICK id \in Ids, e \in Elements :
          fields = [f \in shape |-> IF f = "id" THEN id ELSE e[f]]
    <3> HIDE DEF fields
    <3> QED
      BY <1>1 DEF FieldsOfShape
  <2>2. "id" \notin FieldNames
    BY DEF FieldNames
  <2> HIDE DEF fields
  <2> QED
    BY <2>1, <2>2
<1>2. CASE fields \in [place : Places]
  <2>1. DOMAIN fields = {"place"} /\ fields["place"] \in Places
    BY <1>2
  <2> DEFINE e == [element EXCEPT !.place = fields["place"]]
  <2>2. e \in Elements /\ e["place"] = fields["place"]
    BY <2>1 DEF Elements
  <2> HIDE DEF e, fields
  <2> QED
    BY <2>1, <2>2, PatchOK(patch) DEF PatchOK, Target, fields
<1>3. CASE fields \in [zIndex : ZIndexes]
  <2>1. DOMAIN fields = {"zIndex"} /\ fields["zIndex"] \in ZIndexes
    BY <1>3
  <2> DEFINE e == [element EXCEPT !.zIndex = fields["zIndex"]]
  <2>2. e \in Elements /\ e["zIndex"] = fields["zIndex"]
    BY <2>1 DEF Elements
  <2> HIDE DEF e, fields
  <2> QED
    BY <2>1, <2>2, PatchOK(patch) DEF PatchOK, Target, fields
<1> QED
  BY <1>1, <1>2, <1>3, PatchOK(patch) DEF PatchOK, Target

(* Merging the fields of a patch gives an element. *)
LEMMA MergeIsElement ==
  ASSUME NEW patch, PatchOK(patch), NEW element \in Elements
  PROVE  Merge(element, patch.fields) \in Elements
<1> DEFINE fields == patch.fields
           merged == Merge(element, fields)
<1>1. PICK e \in Elements : \A f \in DOMAIN fields \cap FieldNames : fields[f] = e[f]
  BY PatchFields
<1>2. DOMAIN element = FieldNames
  BY DEF Elements, FieldNames
<1> HIDE DEF fields
<1>3. merged = [f \in FieldNames |-> IF f \in DOMAIN fields THEN e[f] ELSE element[f]]
  BY <1>1, <1>2 DEF Merge
<1> HIDE DEF merged
<1>4. merged = [containerId |-> merged["containerId"],
                metaContainerId |-> merged["metaContainerId"],
                locked |-> merged["locked"],
                monthRange |-> merged["monthRange"],
                place |-> merged["place"],
                zIndex |-> merged["zIndex"]]
  BY <1>3 DEF FieldNames
<1>5. /\ merged["containerId"] \in Ids \cup {None}
      /\ merged["metaContainerId"] \in Ids \cup {None}
      /\ merged["locked"] \in Locks
      /\ merged["monthRange"] \in MonthRanges
      /\ merged["place"] \in Places
      /\ merged["zIndex"] \in ZIndexes
  BY <1>3 DEF FieldNames, Elements
<1>6. merged \in Elements
  BY <1>4, <1>5 DEF Elements
<1> QED
  BY <1>6 DEF merged, fields

(* Restricting and applying keep a board a board. *)
LEMMA RestrictIsBoard ==
  ASSUME NEW elements, IsBoard(elements), NEW S
  PROVE  IsBoard(Restrict(elements, S \cap DOMAIN elements))
  BY DEF IsBoard, Restrict

LEMMA ApplyIsBoard ==
  ASSUME NEW elements, IsBoard(elements), NEW change, IsBoard(change.upserts)
  PROVE  IsBoard(Apply(elements, change))
  BY DEF IsBoard, Apply

LEMMA NothingIsBoard == IsBoard(NoElements)
  BY DEF IsBoard, NoElements

(* What is upserted from a list of elements, or from the context, is a     *)
(* board.                                                                  *)
LEMMA NormalizedIsBoard ==
  ASSUME NEW n \in Nat, NEW list, DOMAIN list \subseteq 1..n,
         \A i \in DOMAIN list : list[i].id \in Ids /\ list[i].data \in Elements
  PROVE  IsBoard(normalizeUpserts(list))
<1>1. DOMAIN normalizeUpserts(list) = IdsOf(list)
  BY DEF normalizeUpserts
<1>2. IdsOf(list) \subseteq Ids
  BY DEF IdsOf
<1>3. ASSUME NEW id \in IdsOf(list)
      PROVE  normalizeUpserts(list)[id] \in Elements
  <2>1. PICK i \in DOMAIN list : Last(list, id) = list[i]
    BY LastIsListed
  <2>2. normalizeUpserts(list)[id] = Last(list, id).data
    BY DEF normalizeUpserts
  <2> QED
    BY <2>1, <2>2
<1> QED
  BY <1>1, <1>2, <1>3 DEF IsBoard

LEMMA DataIsBoard ==
  ASSUME NEW n \in Nat, NEW list \in [1..n -> Data]
  PROVE  IsBoard(normalizeUpserts(list))
<1>1. \A entry \in Data : entry.id \in Ids /\ entry.data \in Elements
  BY DEF Data
<1> QED
  BY <1>1, NormalizedIsBoard

LEMMA UpsertsIsBoard ==
  ASSUME NEW ctx, IsBoard(ctx), NEW op \in Mutations, op.type \in PatchTypes
  PROVE  IsBoard(UpsertsFromCache(ctx, op.patches))
<1> DEFINE patches == op.patches
           list == [i \in {j \in DOMAIN patches : patches[j].id \in DOMAIN ctx} |->
                      [id   |-> Target(patches[i]),
                       data |-> Merge(ctx[patches[i].id], patches[i].fields)]]
<1>1. PICK n \in Nat : DOMAIN patches \subseteq 1..n
  BY PatchShape
<1>2. DOMAIN list \subseteq 1..n
  BY <1>1
<1>3. ASSUME NEW i \in DOMAIN list
      PROVE  list[i].id \in Ids /\ list[i].data \in Elements
  <2>1. i \in DOMAIN patches /\ patches[i].id \in DOMAIN ctx
    OBVIOUS
  <2>2. PatchOK(patches[i]) /\ ctx[patches[i].id] \in Elements
    BY <2>1, PatchShape DEF IsBoard
  <2>3. /\ Target(patches[i]) \in Ids
        /\ Merge(ctx[patches[i].id], patches[i].fields) \in Elements
    BY <2>2, PatchFields, MergeIsElement
  <2>4. list[i].id = Target(patches[i])
        /\ list[i].data = Merge(ctx[patches[i].id], patches[i].fields)
    OBVIOUS
  <2> QED
    BY <2>3, <2>4
<1> HIDE DEF list
<1>4. IsBoard(normalizeUpserts(list))
  BY <1>2, <1>3, NormalizedIsBoard
<1> QED
  BY <1>4 DEF list, UpsertsFromCache

(* Whatever a mutation is, what it upserts is a board. *)
LEMMA ChangeIsBoard ==
  ASSUME NEW ctx, IsBoard(ctx), NEW op \in Mutations
  PROVE  IsBoard(PersistedChange(toChangeSet(ctx, op)).upserts)
<1> DEFINE changeSet == toChangeSet(ctx, op)
<1>1. IsBoard(changeSet.upserts)
  <2>1. CASE op.type = "CREATE_ELEMENT"
    <3>1. changeSet.upserts = normalizeUpserts(<<op.element>>)
      BY <2>1 DEF toChangeSet, PatchTypes
    <3>2. op.element \in Data
      BY <2>1, OpShape
    <3>3. <<op.element>> \in [1..1 -> Data] /\ 1 \in Nat
      BY <3>2
    <3> QED
      BY <3>1, <3>3, DataIsBoard
  <2>2. CASE op.type \in PatchTypes
    <3>1. changeSet.upserts = UpsertsFromCache(ctx, op.patches)
      BY <2>2 DEF toChangeSet, PatchTypes
    <3> QED
      BY <3>1, <2>2, UpsertsIsBoard
  <2>3. CASE op.type = "DELETE_ELEMENTS"
    <3>1. changeSet.upserts = NoElements
      BY <2>3 DEF toChangeSet
    <3> QED
      BY <3>1, NothingIsBoard
  <2>4. CASE op.type = "RECONCILE_MONTH_RANGE"
    <3>1. changeSet.upserts = normalizeUpserts(op.upserts)
      BY <2>4 DEF toChangeSet
    <3>2. PICK n \in Nat : op.upserts \in [1..n -> Data]
      BY <2>4, OpShape, ListShape
    <3> QED
      BY <3>1, <3>2, DataIsBoard
  <2> QED
    BY <2>1, <2>2, <2>3, <2>4, OpShape
<1> HIDE DEF changeSet
<1>2. \E S : PersistedChange(changeSet).upserts =
               Restrict(changeSet.upserts, S \cap DOMAIN changeSet.upserts)
  <2> DEFINE deletes == IF changeSet.deletes = {} THEN {}
                        ELSE collectCascadeDeleteIds(board, changeSet.deletes)
             S == DOMAIN changeSet.upserts \ deletes
  <2>1. PersistedChange(changeSet).upserts = Restrict(changeSet.upserts, S)
    BY DEF PersistedChange
  <2>2. S \cap DOMAIN changeSet.upserts = S
    OBVIOUS
  <2> HIDE DEF S
  <2> QED
    BY <2>1, <2>2
<1>3. IsBoard(PersistedChange(changeSet).upserts)
  BY <1>1, <1>2, RestrictIsBoard
<1> QED
  BY <1>3 DEF changeSet

(* The invariant of this section: types, and what the context shows. *)
BatchInv == TypeOK /\ ContextInv

LEMMA LoadedIsBoard ==
  ASSUME IsBoard(board), NEW ops
  PROVE  IsBoard(createCachedBoardContext(ops))
<1>1. \/ createCachedBoardContext(ops) = NoElements
      \/ \E S : createCachedBoardContext(ops) = Restrict(board, S \cap DOMAIN board)
  <2> DEFINE touched == UNION {Touched(op) : op \in Range(ops)}
             parents == (UNION {Parents(board[id]) : id \in touched \cap DOMAIN board})
                        \cup (UNION {ReferencedMetas(op) : op \in Range(ops)})
             both == touched \cup parents
  <2>1. createCachedBoardContext(ops) =
          IF touched = {} THEN NoElements ELSE Restrict(board, both \cap DOMAIN board)
    BY DEF createCachedBoardContext
  <2> HIDE DEF both, touched
  <2> QED
    BY <2>1
<1> QED
  BY <1>1, RestrictIsBoard, NothingIsBoard

LEMMA BatchTypesInit == Init => TypeOK
<1> SUFFICES ASSUME Init PROVE TypeOK
  OBVIOUS
<1>1. IsBoard(board) /\ IsBoard(context)
  <2>1. PICK present \in SUBSET Ids : board \in [present -> Elements]
    BY DEF Init, Boards
  <2> QED
    BY <2>1, NothingIsBoard DEF Init, IsBoard
<1>2. Len(batch) <= MaxBatch
  BY Bounds DEF Init
<1> QED
  BY <1>1, <1>2 DEF TypeOK

(* One mutation less in the batch. *)
LEMMA TailTypes ==
  ASSUME BatchInv, batch # <<>>, batch' = Tail(batch)
  PROVE  Len(batch') <= MaxBatch
<1>1. Len(batch') = Len(batch) - 1 /\ Len(batch) \in Nat
  BY DEF BatchInv, ContextInv
<1> QED
  BY <1>1, Bounds DEF BatchInv, TypeOK

LEMMA HeadIsMutation ==
  ASSUME BatchInv, batch # <<>>
  PROVE  Op \in Mutations
  BY DEF BatchInv, ContextInv, Op

LEMMA BatchTypesStep == BatchInv /\ [Next]_vars => TypeOK'
<1> SUFFICES ASSUME BatchInv, [Next]_vars PROVE TypeOK'
  OBVIOUS
<1>1. ASSUME NEW ops \in Batches, ReceiveBatch(ops) PROVE TypeOK'
  <2>1. board' = board /\ batch' = ops /\ context' = createCachedBoardContext(ops)
    BY <1>1 DEF ReceiveBatch
  <2>2. IsBoard(board') /\ IsBoard(context')
    BY <2>1, LoadedIsBoard DEF BatchInv, TypeOK
  <2>3. PICK n \in 1..MaxBatch : ops \in [1..n -> Mutations]
    BY DEF Batches
  <2>4. Len(ops) <= MaxBatch
    BY <2>3, Bounds
  <2> QED
    BY <2>1, <2>2, <2>4 DEF TypeOK
<1>2. ASSUME batch # <<>>, Skip PROVE TypeOK'
  <2>1. board' = board /\ batch' = Tail(batch) /\ context' \in {NoElements, context}
    BY <1>2 DEF Skip
  <2>2. IsBoard(board') /\ IsBoard(context')
    BY <2>1, NothingIsBoard DEF BatchInv, TypeOK
  <2> QED
    BY <1>2, <2>1, <2>2, TailTypes DEF TypeOK
<1>3. CASE ApplyMutation
  <2> DEFINE change == PersistedChange(toChangeSet(context, Op))
  <2>1. /\ batch # <<>> /\ batch' = Tail(batch) /\ board' = Apply(board, change)
        /\ context' \in {NoElements, Apply(context, change)}
    BY <1>3 DEF ApplyMutation, applyPersistedChangeToContext
  <2>2. IsBoard(change.upserts)
    BY <2>1, HeadIsMutation, ChangeIsBoard DEF BatchInv, TypeOK
  <2> HIDE DEF change
  <2>3. IsBoard(board') /\ IsBoard(context')
    BY <2>1, <2>2, ApplyIsBoard, NothingIsBoard DEF BatchInv, TypeOK
  <2> QED
    BY <2>1, <2>3, TailTypes DEF TypeOK
<1>4. CASE UNCHANGED vars
  BY <1>4 DEF vars, BatchInv, TypeOK, IsBoard
<1> QED
  BY <1>1, <1>2, <1>3, <1>4
     DEF Next, BroadcastOnly, AlreadyApplied, LockBlocked, ReconcileRejected

LEMMA BatchInvStep == BatchInv /\ [Next]_vars => BatchInv'
  BY BatchTypesStep, ContextInvStep DEF BatchInv

LEMMA BatchInvariant == Spec => []BatchInv
<1>1. Init => BatchInv
  BY BatchTypesInit, ContextInvInit DEF BatchInv
<1> QED
  BY <1>1, BatchInvStep, PTL DEF Spec

(* Whatever clients send and however batches mix it, what is on the board  *)
(* is a complete element: no patch of processor.ts, whatever fields and    *)
(* ids it names, stores one that lacks a field or under a key that is no   *)
(* id.                                                                     *)
THEOREM BatchTypes == Spec => []TypeOK
<1>1. BatchInv => TypeOK
  BY DEF BatchInv
<1> QED
  BY <1>1, BatchInvariant, PTL

-----------------------------------------------------------------------------
(* Deletes.  The cascade that collectCascadeDeleteIds chooses exists for   *)
(* every board: it is the intersection of all the closed sets.             *)
LEMMA CascadeExists ==
  ASSUME NEW elements, NEW req
  PROVE  IsCascade(elements, req, collectCascadeDeleteIds(elements, req))
<1> DEFINE U == Universe(elements, req)
           Good(T) == req \subseteq T /\ ClosedUnderContainment(elements, T)
           S == {x \in U : \A T \in SUBSET U : Good(T) => x \in T}
<1>1. S \in SUBSET U /\ req \subseteq S
  BY DEF Universe
<1>2. ClosedUnderContainment(elements, S)
  <2> SUFFICES ASSUME NEW id \in S, NEW e \in Children(elements, id)
               PROVE  e \in S
    BY DEF ClosedUnderContainment
  <2>1. e \in U
    BY DEF Universe, Children
  <2>2. ASSUME NEW T \in SUBSET U, Good(T) PROVE e \in T
    <3>1. id \in T
      BY <2>2
    <3> QED
      BY <3>1, <2>2 DEF ClosedUnderContainment
  <2> QED
    BY <2>1, <2>2
<1>3. \A T \in SUBSET U : Good(T) => S \subseteq T
  OBVIOUS
<1> HIDE DEF S
<1>4. IsCascade(elements, req, S)
  BY <1>1, <1>2, <1>3 DEF IsCascade
<1> QED
  BY <1>1, <1>4 DEF collectCascadeDeleteIds

(* A larger request takes away no less. *)
LEMMA CascadeMonotone ==
  ASSUME NEW elements, NEW small, NEW large, small \subseteq large
  PROVE  collectCascadeDeleteIds(elements, small)
           \subseteq collectCascadeDeleteIds(elements, large)
<1> DEFINE A == collectCascadeDeleteIds(elements, small)
           B == collectCascadeDeleteIds(elements, large)
           T == B \cap Universe(elements, small)
<1>1. IsCascade(elements, small, A) /\ IsCascade(elements, large, B)
  BY CascadeExists
<1> HIDE DEF A, B
<1>2. small \subseteq T
  BY <1>1 DEF IsCascade, Universe
<1>3. ClosedUnderContainment(elements, T)
  BY <1>1 DEF IsCascade, ClosedUnderContainment, Children, Universe
<1>4. A \subseteq T
  BY <1>1, <1>2, <1>3 DEF IsCascade
<1> QED
  BY <1>4 DEF A, B

(* What applying a mutation does to the board, with the deletes and the    *)
(* upserts told apart.                                                     *)
LEMMA ApplyEffect ==
  ASSUME BatchInv, ApplyMutation
  PROVE  LET changeSet == toChangeSet(board, Op)
             deletes == IF changeSet.deletes = {} THEN {}
                        ELSE collectCascadeDeleteIds(board, changeSet.deletes)
             upserts == DOMAIN changeSet.upserts \ deletes
         IN  /\ DOMAIN board' = (DOMAIN board \ deletes) \cup upserts
             /\ \A id \in DOMAIN board' :
                  board'[id] = IF id \in upserts THEN changeSet.upserts[id]
                                                 ELSE board[id]
<1> DEFINE changeSet == toChangeSet(board, Op)
           change == PersistedChange(changeSet)
           deletes == IF changeSet.deletes = {} THEN {}
                      ELSE collectCascadeDeleteIds(board, changeSet.deletes)
           upserts == DOMAIN changeSet.upserts \ deletes
<1>1. batch # <<>> /\ ActsOnCurrentBoard
  BY ContextInvActs DEF BatchInv, ApplyMutation
<1>2. toChangeSet(context, Op) = changeSet
  BY <1>1 DEF ActsOnCurrentBoard
<1>3. board' = Apply(board, change)
  BY <1>2 DEF ApplyMutation
<1> HIDE DEF changeSet
<1>4. /\ change.deletes = deletes
      /\ change.upserts = Restrict(changeSet.upserts, upserts)
  BY DEF PersistedChange
<1> HIDE DEF change, deletes, upserts
<1>5. /\ DOMAIN change.upserts = upserts
      /\ \A id \in upserts : change.upserts[id] = changeSet.upserts[id]
  BY <1>4 DEF Restrict
<1>6. /\ DOMAIN board' = (DOMAIN board \ deletes) \cup upserts
      /\ \A id \in DOMAIN board' :
           board'[id] = IF id \in upserts THEN changeSet.upserts[id] ELSE board[id]
  BY <1>3, <1>4, <1>5 DEF Apply
<1> QED
  BY <1>6 DEF changeSet, deletes, upserts

(* A board that changes is changed by the mutation that is applied. *)
LEMMA OnlyApplyChanges ==
  ASSUME [Next]_vars
  PROVE  board' = board \/ ApplyMutation
  BY DEF Next, ReceiveBatch, BroadcastOnly, AlreadyApplied, LockBlocked,
         ReconcileRejected, Skip, vars

(* A delete, of one mutation or inside a reconcile, leaves nothing behind  *)
(* that refers to what is gone, except for what the reconcile writes.      *)
LEMMA ApplyLeavesNoOrphan ==
  ASSUME BatchInv, ApplyMutation,
         NEW gone \in DOMAIN board \ DOMAIN board', NEW id \in DOMAIN board',
         gone \in Parents(board'[id])
  PROVE  Op.type = "RECONCILE_MONTH_RANGE" /\ id \in IdsOf(Op.upserts)
<1> DEFINE changeSet == toChangeSet(board, Op)
           deletes == IF changeSet.deletes = {} THEN {}
                      ELSE collectCascadeDeleteIds(board, changeSet.deletes)
           upserts == DOMAIN changeSet.upserts \ deletes
<1>1. /\ DOMAIN board' = (DOMAIN board \ deletes) \cup upserts
      /\ board'[id] = IF id \in upserts THEN changeSet.upserts[id] ELSE board[id]
  BY ApplyEffect
<1>2. Op \in Mutations
  BY HeadIsMutation DEF ApplyMutation
<1>3. gone \in deletes /\ changeSet.deletes # {}
  BY <1>1
<1>4. deletes = collectCascadeDeleteIds(board, changeSet.deletes)
  BY <1>3
<1>5. id \in upserts
  <2> SUFFICES ASSUME id \notin upserts PROVE FALSE
    OBVIOUS
  <2>1. id \in DOMAIN board \ deletes /\ board'[id] = board[id]
    BY <1>1
  <2>2. id \in Children(board, gone)
    BY <2>1 DEF Children, Parents
  <2>3. ClosedUnderContainment(board, deletes)
    BY <1>4, CascadeExists DEF IsCascade
  <2> HIDE DEF deletes
  <2> QED
    BY <1>3, <2>1, <2>2, <2>3 DEF ClosedUnderContainment
<1>6. Op.type = "RECONCILE_MONTH_RANGE"
  <2>1. CASE Op.type \in PatchTypes \cup {"CREATE_ELEMENT"}
    BY <2>1, <1>3 DEF toChangeSet, PatchTypes
  <2>2. CASE Op.type = "DELETE_ELEMENTS"
    <3>1. changeSet.upserts = NoElements
      BY <2>2 DEF toChangeSet
    <3> QED
      BY <3>1, <1>5 DEF NoElements
  <2> QED
    BY <2>1, <2>2, <1>2, OpShape
<1>7. DOMAIN changeSet.upserts = IdsOf(Op.upserts)
  BY <1>6 DEF toChangeSet, normalizeUpserts
<1> QED
  BY <1>5, <1>6, <1>7

(* For any batch of any mutations on any board: when an element goes,      *)
(* everything inside it goes with it (collectCascadeDeleteIds within       *)
(* applyChangeSet).  What is left refers to it only where the reconcile    *)
(* that removed it wrote so in the same change.                            *)
THEOREM NoOrphans == Spec => DeleteLeavesNoOrphan
<1> DEFINE Clean ==
      \A gone \in DOMAIN board \ DOMAIN board', id \in DOMAIN board' :
        gone \in Parents(board'[id]) =>
          /\ Op.type = "RECONCILE_MONTH_RANGE"
          /\ id \in IdsOf(Op.upserts)
<1>1. BatchInv /\ [Next]_vars => [Clean]_vars
  <2> SUFFICES ASSUME BatchInv, [Next]_vars PROVE Clean
    OBVIOUS
  <2>1. CASE board' = board
    BY <2>1
  <2>2. CASE ApplyMutation
    BY <2>2, ApplyLeavesNoOrphan
  <2> QED
    BY <2>1, <2>2, OnlyApplyChanges
<1> QED
  BY <1>1, BatchInvariant, PTL DEF Spec, DeleteLeavesNoOrphan

-----------------------------------------------------------------------------
(* Reconciles.  The context has the meta and the deleted ids of every      *)
(* reconcile of the batch, so that validateReconcileMonthRange judges the  *)
(* board as it is.                                                         *)
LEMMA ReconcileSeesBoard ==
  ASSUME BatchInv, batch # <<>>, Op.type = "RECONCILE_MONTH_RANGE",
         validateReconcileMonthRange(Op, context)
  PROVE  validateReconcileMonthRange(Op, board)
<1>1. Touched(Op) = {Op.metaId} \cup Range(Op.deletes)
  BY DEF Touched
<1>2. Touched(Op) \cap DOMAIN board = Touched(Op) \cap DOMAIN context
  BY DEF BatchInv, ContextInv, ShowsBoard, ShowsTouched, Op
<1>3. \A id \in Touched(Op) \cap DOMAIN board : context[id] = board[id]
  BY <1>2 DEF BatchInv, ContextInv, ShowsBoard
<1> QED
  BY <1>1, <1>2, <1>3 DEF validateReconcileMonthRange

(* Asking for less than the months of the meta removes nothing else. *)
LEMMA ReconcileRemoves ==
  ASSUME BatchInv, ApplyMutation, Op.type = "RECONCILE_MONTH_RANGE",
         NEW gone \in DOMAIN board \ DOMAIN board'
  PROVE  gone \in collectCascadeDeleteIds(board,
           Months(board, Op.metaId) \cup (Range(Op.deletes) \ DOMAIN board))
<1> DEFINE changeSet == toChangeSet(board, Op)
           deletes == IF changeSet.deletes = {} THEN {}
                      ELSE collectCascadeDeleteIds(board, changeSet.deletes)
           upserts == DOMAIN changeSet.upserts \ deletes
           may == Months(board, Op.metaId) \cup (Range(Op.deletes) \ DOMAIN board)
<1>1. DOMAIN board' = (DOMAIN board \ deletes) \cup upserts
  BY ApplyEffect
<1>2. changeSet.deletes = Range(Op.deletes)
  BY DEF toChangeSet
<1>3. gone \in collectCascadeDeleteIds(board, Range(Op.deletes))
  BY <1>1, <1>2
<1>4. validateReconcileMonthRange(Op, board)
  BY ReconcileSeesBoard DEF ApplyMutation
<1>5. Range(Op.deletes) \subseteq may
  BY <1>4 DEF validateReconcileMonthRange, Months
<1> HIDE DEF may
<1>6. gone \in collectCascadeDeleteIds(board, may)
  BY <1>3, <1>5, CascadeMonotone
<1> QED
  BY <1>6 DEF may

(* What a reconcile writes is its meta, with a month range, or an element  *)
(* that is then in the meta.                                               *)
LEMMA ReconcileWrites ==
  ASSUME BatchInv, ApplyMutation, Op.type = "RECONCILE_MONTH_RANGE",
         NEW id \in DOMAIN board'
  PROVE  \/ id \in DOMAIN board /\ board'[id] = board[id]
         \/ id = Op.metaId /\ board'[id].monthRange = "range"
         \/ board'[id].metaContainerId = Op.metaId
<1> DEFINE changeSet == toChangeSet(board, Op)
           deletes == IF changeSet.deletes = {} THEN {}
                      ELSE collectCascadeDeleteIds(board, changeSet.deletes)
           upserts == DOMAIN changeSet.upserts \ deletes
<1>1. /\ DOMAIN board' = (DOMAIN board \ deletes) \cup upserts
      /\ board'[id] = IF id \in upserts THEN changeSet.upserts[id] ELSE board[id]
  BY ApplyEffect
<1>2. CASE id \notin upserts
  BY <1>1, <1>2
<1>3. CASE id \in upserts
  <2>1. Op \in Mutations /\ validateReconcileMonthRange(Op, context)
    BY HeadIsMutation DEF ApplyMutation
  <2>2. changeSet.upserts = normalizeUpserts(Op.upserts)
    BY DEF toChangeSet
  <2>3. id \in IdsOf(Op.upserts) /\ board'[id] = Last(Op.upserts, id).data
    BY <1>1, <1>3, <2>2 DEF normalizeUpserts
  <2>4. PICK n \in Nat : Op.upserts \in [1..n -> Data]
    BY <2>1, OpShape, ListShape
  <2>5. PICK i \in DOMAIN Op.upserts :
          Last(Op.upserts, id) = Op.upserts[i] /\ Op.upserts[i].id = id
    BY <2>3, <2>4, LastIsListed
  <2>6. Op.upserts[i] \in Range(Op.upserts)
    BY <2>5 DEF Range
  <2> QED
    BY <2>1, <2>3, <2>5, <2>6 DEF validateReconcileMonthRange
<1> QED
  BY <1>2, <1>3

(* For any batch on any board: a reconcile is one of a new or a managed    *)
(* layout, removes nothing but its months, what they contain and what      *)
(* refers to ids that are gone, and writes nothing outside it.  It may     *)
(* come late in a batch: the context that lock-enforcement.ts reads shows  *)
(* what came before it.                                                    *)
THEOREM ReconcilesKeepIntegrity == Spec => ReconcileIntegrity
<1> DEFINE Keeps ==
      batch # <<>> /\ Op.type = "RECONCILE_MONTH_RANGE" /\ board' # board =>
        /\ Op.metaId \in DOMAIN board => board[Op.metaId].monthRange = "range"
        /\ DOMAIN board \ DOMAIN board' \subseteq
             collectCascadeDeleteIds(board,
               Months(board, Op.metaId) \cup (Range(Op.deletes) \ DOMAIN board))
        /\ \A id \in DOMAIN board' :
             \/ id \in DOMAIN board /\ board'[id] = board[id]
             \/ id = Op.metaId /\ board'[id].monthRange = "range"
             \/ board'[id].metaContainerId = Op.metaId
<1>1. BatchInv /\ [Next]_vars => [Keeps]_vars
  <2> SUFFICES ASSUME BatchInv, [Next]_vars, batch # <<>>,
                      Op.type = "RECONCILE_MONTH_RANGE", board' # board
               PROVE  Keeps
    OBVIOUS
  <2>1. ApplyMutation
    BY OnlyApplyChanges
  <2>2. Op.metaId \in DOMAIN board => board[Op.metaId].monthRange = "range"
    BY <2>1, ReconcileSeesBoard DEF ApplyMutation, validateReconcileMonthRange
  <2>3. DOMAIN board \ DOMAIN board' \subseteq
          collectCascadeDeleteIds(board,
            Months(board, Op.metaId) \cup (Range(Op.deletes) \ DOMAIN board))
    BY <2>1, ReconcileRemoves
  <2> QED
    BY <2>1, <2>2, <2>3, ReconcileWrites
<1> QED
  BY <1>1, BatchInvariant, PTL DEF Spec, ReconcileIntegrity

-----------------------------------------------------------------------------
(* Locks and managed layouts, for the mutation that a context was loaded   *)
(* for.  Later in a batch the parents that were loaded with it need not be *)
(* the parents that a mutation finds.                                      *)

(* What a move, an update or a reorder does to the board: of the elements  *)
(* that no patch names in its id field, each stays as it is or has one of  *)
(* its own patches merged into it.                                         *)
LEMMA PatchEffect ==
  ASSUME BatchInv, ApplyMutation, Op.type \in PatchTypes
  PROVE  /\ DOMAIN board \subseteq DOMAIN board'
         /\ \A id \in DOMAIN board' \ SpreadIds(Op) :
              /\ id \in DOMAIN board
              /\ \/ board'[id] = board[id]
                 \/ /\ id \in Touched(Op)
                    /\ \E i \in DOMAIN Op.patches :
                         /\ Op.patches[i].id = id
                         /\ board'[id] = Merge(board[id], Op.patches[i].fields)
<1> DEFINE patches == Op.patches
           list == [i \in {j \in DOMAIN patches : patches[j].id \in DOMAIN board} |->
                      [id   |-> Target(patches[i]),
                       data |-> Merge(board[patches[i].id], patches[i].fields)]]
           U == normalizeUpserts(list)
<1>1. Op \in Mutations /\ Touched(Op) = IdsOf(patches)
  BY HeadIsMutation DEF ApplyMutation, Touched, PatchTypes
<1>2. toChangeSet(board, Op) = [upserts |-> U, deletes |-> {}]
  BY DEF toChangeSet, PatchTypes, UpsertsFromCache
<1> HIDE DEF U
<1>3. /\ DOMAIN board' = DOMAIN board \cup DOMAIN U
      /\ \A id \in DOMAIN board' :
           board'[id] = IF id \in DOMAIN U THEN U[id] ELSE board[id]
  BY <1>2, ApplyEffect
<1>4. PICK n \in Nat : DOMAIN patches \subseteq 1..n
  BY <1>1, PatchShape
<1>5. DOMAIN list \subseteq 1..n
  BY <1>4
<1>6. \A i \in DOMAIN list :
        /\ i \in DOMAIN patches /\ patches[i].id \in DOMAIN board
        /\ list[i].id = Target(patches[i])
        /\ list[i].data = Merge(board[patches[i].id], patches[i].fields)
  OBVIOUS
<1> HIDE DEF list
<1>7. ASSUME NEW id \in DOMAIN U, id \notin SpreadIds(Op)
      PROVE  /\ id \in DOMAIN board /\ id \in Touched(Op)
             /\ \E i \in DOMAIN patches :
                  patches[i].id = id /\ U[id] = Merge(board[id], patches[i].fields)
  <2>1. id \in IdsOf(list) /\ U[id] = Last(list, id).data
    BY <1>7 DEF U, normalizeUpserts
  <2>2. PICK i \in DOMAIN list : Last(list, id) = list[i] /\ list[i].id = id
    BY <1>5, <2>1, LastIsListed
  <2>3. id = Target(patches[i]) /\ i \in DOMAIN patches
    BY <1>6, <2>2
  <2>4. "id" \notin DOMAIN patches[i].fields
    BY <1>7, <2>3 DEF Target, SpreadIds, Range
  <2>5. patches[i].id = id
    BY <2>3, <2>4 DEF Target
  <2>6. U[id] = Merge(board[id], patches[i].fields)
    BY <1>6, <2>1, <2>2, <2>5
  <2>7. id \in IdsOf(patches)
    BY <2>3, <2>5 DEF IdsOf
  <2> QED
    BY <1>1, <1>6, <2>2, <2>3, <2>5, <2>6, <2>7
<1> QED
  BY <1>3, <1>7

LEMMA ElementFields ==
  ASSUME BatchInv, NEW id \in DOMAIN board
  PROVE  DOMAIN board[id] = FieldNames
<1>1. board[id] \in Elements
  BY DEF BatchInv, TypeOK, IsBoard
<1> QED
  BY <1>1 DEF Elements, FieldNames

(* Merging fields that are not positions leaves the position alone. *)
LEMMA MergeKeepsPosition ==
  ASSUME NEW element, NEW fields, POSITION_FIELDS \subseteq DOMAIN element,
         DOMAIN fields \cap POSITION_FIELDS = {}
  PROVE  Position(Merge(element, fields)) = Position(element)
<1>1. \A f \in POSITION_FIELDS : Merge(element, fields)[f] = element[f]
  BY DEF Merge
<1> QED
  BY <1>1 DEF Position

(* What a mutation touches is loaded with its parents and with the layouts *)
(* that an update puts it in.                                              *)
LEMMA ParentsAreLoaded ==
  ASSUME NEW ops, context = createCachedBoardContext(ops), NEW op \in Range(ops),
         NEW id \in Touched(op) \cap DOMAIN board,
         NEW parent \in Parents(board[id]) \cup ReferencedMetas(op),
         parent \in DOMAIN board
  PROVE  /\ id \in DOMAIN context /\ context[id] = board[id]
         /\ parent \in DOMAIN context /\ context[parent] = board[parent]
<1> DEFINE touched == UNION {Touched(o) : o \in Range(ops)}
           own == UNION {Parents(board[i]) : i \in touched \cap DOMAIN board}
           referenced == UNION {ReferencedMetas(o) : o \in Range(ops)}
<1>1. id \in touched
  OBVIOUS
<1>2. Parents(board[id]) \subseteq own /\ ReferencedMetas(op) \subseteq referenced
  BY <1>1
<1>3. context = Restrict(board, (touched \cup (own \cup referenced)) \cap DOMAIN board)
  BY <1>1 DEF createCachedBoardContext
<1> HIDE DEF touched, own, referenced
<1>4. /\ DOMAIN context = (touched \cup (own \cup referenced)) \cap DOMAIN board
      /\ \A i \in DOMAIN context : context[i] = board[i]
  BY <1>3 DEF Restrict
<1> QED
  BY <1>1, <1>2, <1>4

LEMMA TouchedIsLoaded ==
  ASSUME NEW ops, context = createCachedBoardContext(ops), NEW op \in Range(ops),
         NEW id \in Touched(op) \cap DOMAIN board
  PROVE  id \in DOMAIN context /\ context[id] = board[id]
<1> DEFINE touched == UNION {Touched(o) : o \in Range(ops)}
           parents == (UNION {Parents(board[i]) : i \in touched \cap DOMAIN board})
                      \cup (UNION {ReferencedMetas(o) : o \in Range(ops)})
<1>1. id \in touched
  OBVIOUS
<1>2. context = Restrict(board, (touched \cup parents) \cap DOMAIN board)
  BY <1>1 DEF createCachedBoardContext
<1> HIDE DEF touched, parents
<1> QED
  BY <1>1, <1>2 DEF Restrict

(* The check of the context finds every lock on the board. *)
LEMMA LocksAreLoaded ==
  ASSUME NEW ops, context = createCachedBoardContext(ops), NEW op \in Range(ops),
         NEW id \in Touched(op) \cap DOMAIN board, Immobile(id)
  PROVE  Immovable(context, id)
<1>1. id \in DOMAIN context /\ context[id] = board[id]
  BY TouchedIsLoaded
<1>2. CASE board[id].locked
  BY <1>1, <1>2 DEF Immovable
<1>3. CASE InsideLocked(board, id)
  <2>1. PICK parent \in Parents(board[id]) \cap DOMAIN board : board[parent].locked
    BY <1>3 DEF InsideLocked
  <2>2. parent \in DOMAIN context /\ context[parent] = board[parent]
    BY <2>1, ParentsAreLoaded
  <2>3. InsideLocked(context, id)
    BY <1>1, <2>1, <2>2 DEF InsideLocked
  <2> QED
    BY <1>1, <2>3 DEF Immovable
<1> QED
  BY <1>2, <1>3 DEF Immobile

(* An element that the check finds immovable keeps its position. *)
LEMMA PatchKeepsImmovable ==
  ASSUME BatchInv, ApplyMutation, Op.type \in PatchTypes,
         NEW id \in DOMAIN board, Immovable(context, id),
         NEW i \in DOMAIN Op.patches, Op.patches[i].id = id
  PROVE  Position(Merge(board[id], Op.patches[i].fields)) = Position(board[id])
<1> DEFINE patch == Op.patches[i]
<1>1. /\ Op \in Mutations /\ ~isMutationBlockedByLock(Op, context)
      /\ patch \in Range(Op.patches)
  BY HeadIsMutation DEF ApplyMutation, Range
<1>2. DOMAIN patch.fields \cap POSITION_FIELDS = {}
  <2>1. CASE Op.type = "MOVE_ELEMENTS"
    BY <2>1, <1>1 DEF isMutationBlockedByLock
  <2>2. CASE Op.type = "UPDATE_ELEMENTS"
    BY <2>2, <1>1 DEF isMutationBlockedByLock
  <2>3. CASE Op.type = "REORDER_ELEMENT"
    <3>1. patch.fields \in [zIndex : ZIndexes]
      BY <2>3, <1>1, PatchShape
    <3>2. DOMAIN patch.fields = {"zIndex"}
      BY <3>1
    <3> QED
      BY <3>2 DEF POSITION_FIELDS
  <2> QED
    BY <2>1, <2>2, <2>3 DEF PatchTypes
<1>3. POSITION_FIELDS \subseteq DOMAIN board[id]
  BY ElementFields DEF POSITION_FIELDS, FieldNames
<1> QED
  BY <1>2, <1>3, MergeKeepsPosition

LEMMA HeadIsListed ==
  ASSUME BatchInv, batch # <<>>
  PROVE  Op \in Range(batch)
<1>1. batch \in Seq(Mutations) /\ 1 \in DOMAIN batch /\ Op = batch[1]
  BY DEF BatchInv, ContextInv, Op
<1> QED
  BY <1>1 DEF Range

(* On any board, whatever elements and fields it lists: a move, an update  *)
(* or a reorder that is checked against a context just read moves nothing  *)
(* that is locked or sits in something locked, unless a patch names it in  *)
(* its id field.  The check of lock-enforcement.ts is complete for what    *)
(* processor.ts loads and for everything but that field.                   *)
THEOREM DragsRespectLocksHolds == Spec => DragsRespectLocks
<1> DEFINE Keeps ==
      Dragging => \A id \in (DOMAIN board \cap DOMAIN board') \ SpreadIds(Op) :
        Immobile(id) => Position(board'[id]) = Position(board[id])
<1>1. BatchInv /\ [Next]_vars => [Keeps]_vars
  <2> SUFFICES ASSUME BatchInv, [Next]_vars, Dragging,
                      NEW id \in (DOMAIN board \cap DOMAIN board') \ SpreadIds(Op),
                      Immobile(id)
               PROVE  Position(board'[id]) = Position(board[id])
    OBVIOUS
  <2>1. CASE board'[id] = board[id]
    BY <2>1
  <2>2. ASSUME ApplyMutation, id \in Touched(Op), NEW i \in DOMAIN Op.patches,
               Op.patches[i].id = id, board'[id] = Merge(board[id], Op.patches[i].fields)
        PROVE  Position(board'[id]) = Position(board[id])
    <3>1. Immovable(context, id)
      BY <2>2, LocksAreLoaded, HeadIsListed DEF Dragging
    <3> QED
      BY <2>2, <3>1, PatchKeepsImmovable DEF Dragging
  <2> QED
    BY <2>1, <2>2, OnlyApplyChanges, PatchEffect DEF Dragging
<1> QED
  BY <1>1, BatchInvariant, PTL DEF Spec, DragsRespectLocks

(* One element: a patch neither takes it out of a managed layout nor puts  *)
(* it into one, and in one it keeps its position.                          *)
LEMMA PatchKeepsMonths ==
  ASSUME BatchInv, Dragging, ApplyMutation,
         NEW meta \in Ids, IsManagedMeta(board, meta),
         NEW id \in DOMAIN board \ SpreadIds(Op)
  PROVE  /\ board[id].metaContainerId = meta =>
              Position(board'[id]) = Position(board[id])
         /\ board[id].metaContainerId = meta <=> board'[id].metaContainerId = meta
<1>1. CASE board'[id] = board[id]
  BY <1>1
<1>2. ASSUME id \in Touched(Op), NEW i \in DOMAIN Op.patches, Op.patches[i].id = id,
             board'[id] = Merge(board[id], Op.patches[i].fields)
      PROVE  /\ board[id].metaContainerId = meta =>
                  Position(board'[id]) = Position(board[id])
             /\ board[id].metaContainerId = meta <=> board'[id].metaContainerId = meta
  <2> DEFINE patch == Op.patches[i]
  <2>1. context = createCachedBoardContext(batch) /\ Op \in Range(batch)
    BY HeadIsListed DEF Dragging
  <2>2. /\ Op \in Mutations /\ ~isMutationBlockedByLock(Op, context)
        /\ Op.type \in PatchTypes /\ patch \in Range(Op.patches)
    BY HeadIsMutation DEF ApplyMutation, Dragging, Range
  <2>3. "metaContainerId" \in DOMAIN board[id] /\ "metaContainerId" \in POSITION_FIELDS
    BY ElementFields DEF POSITION_FIELDS, FieldNames
  <2>4. meta \in DOMAIN board /\ board[meta].monthRange # "undefined"
    BY DEF IsManagedMeta
  <2>5. CASE board[id].metaContainerId = meta
    <3>1. meta \in Parents(board[id])
      BY <2>5, NoneIsNoId DEF Parents
    <3>2. /\ id \in DOMAIN context /\ context[id] = board[id]
          /\ meta \in DOMAIN context /\ context[meta] = board[meta]
      BY <1>2, <2>1, <2>4, <3>1, ParentsAreLoaded
    <3>3. Immovable(context, id)
      BY <2>4, <2>5, <3>2 DEF Immovable, IsManagedMeta
    <3>4. Position(board'[id]) = Position(board[id])
      BY <1>2, <2>2, <3>3, PatchKeepsImmovable
    <3>5. board'[id].metaContainerId = board[id].metaContainerId
      BY <3>4, <2>3 DEF Position
    <3> QED
      BY <3>4, <3>5, <2>5
  <2>6. CASE board[id].metaContainerId # meta
    <3> SUFFICES ASSUME board'[id].metaContainerId = meta PROVE FALSE
      BY <2>6
    <3>1. "metaContainerId" \in DOMAIN patch.fields /\ patch.fields.metaContainerId = meta
      BY <1>2, <2>3, <2>6 DEF Merge
    <3>2. Op.type = "UPDATE_ELEMENTS"
      <4>1. /\ Op.type = "MOVE_ELEMENTS" => patch.fields \in [place : Places]
            /\ Op.type = "REORDER_ELEMENT" => patch.fields \in [zIndex : ZIndexes]
        BY <1>2, <2>2, PatchShape
      <4>2. /\ Op.type = "MOVE_ELEMENTS" => DOMAIN patch.fields = {"place"}
            /\ Op.type = "REORDER_ELEMENT" => DOMAIN patch.fields = {"zIndex"}
        BY <4>1
      <4> QED
        BY <2>2, <3>1, <4>2 DEF PatchTypes
    <3>3. meta \in ReferencedMetas(Op)
      BY <2>2, <3>1, <3>2 DEF ReferencedMetas
    <3>4. /\ id \in DOMAIN context /\ context[id] = board[id]
          /\ meta \in DOMAIN context /\ context[meta] = board[meta]
      BY <1>2, <2>1, <2>4, <3>3, ParentsAreLoaded
    <3>5. PatchesIntoManagedMeta(context, patch)
      BY <1>2, <2>4, <2>6, <3>1, <3>4 DEF PatchesIntoManagedMeta, IsManagedMeta
    <3>6. isMutationBlockedByLock(Op, context)
      BY <2>2, <2>3, <3>1, <3>2, <3>5 DEF isMutationBlockedByLock
    <3> QED
      BY <2>2, <3>6
  <2> QED
    BY <2>5, <2>6
<1> QED
  BY <1>1, <1>2, PatchEffect DEF Dragging, ApplyMutation

(* On any board: a move, an update or a reorder that is checked against a  *)
(* context just read leaves a managed layout sealed.  No element enters,   *)
(* leaves or moves in it, except one that a patch names in its id field.   *)
THEOREM ManagedStaysSealed == Spec => ManagedSealed
<1> DEFINE Sealed ==
      Dragging => \A meta \in Ids :
        IsManagedMeta(board, meta) => MonthsKept(meta, Ids \ SpreadIds(Op))
<1>1. BatchInv /\ [Next]_vars => [Sealed]_vars
  <2> SUFFICES ASSUME BatchInv, [Next]_vars, Dragging,
                      NEW meta \in Ids, IsManagedMeta(board, meta)
               PROVE  MonthsKept(meta, Ids \ SpreadIds(Op))
    OBVIOUS
  <2>1. CASE board' = board
    BY <2>1 DEF MonthsKept, Months
  <2>2. CASE ApplyMutation
    <3>1. /\ DOMAIN board \subseteq DOMAIN board'
          /\ \A id \in DOMAIN board' \ SpreadIds(Op) : id \in DOMAIN board
      BY <2>2, PatchEffect DEF Dragging
    <3>2. \A id \in DOMAIN board \ SpreadIds(Op) :
            /\ board[id].metaContainerId = meta =>
                 Position(board'[id]) = Position(board[id])
            /\ board[id].metaContainerId = meta <=> board'[id].metaContainerId = meta
      BY <2>2, PatchKeepsMonths
    <3> QED
      BY <3>1, <3>2 DEF MonthsKept, Months
  <2> QED
    BY <2>1, <2>2, OnlyApplyChanges
<1> QED
  BY <1>1, BatchInvariant, PTL DEF Spec, ManagedSealed
=============================================================================
