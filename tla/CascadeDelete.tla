---------------------------- MODULE CascadeDelete ----------------------------
(***************************************************************************)
(* The work list of collectCascadeDeleteIds (board-state/state-utils.ts,   *)
(* and once more in boards/utils.ts): one step per iteration of its loop.  *)
(* The order of the list does not matter for the result, so it is a set    *)
(* from which any id may be taken next; what holds here holds for the      *)
(* first-in-first-out order of the code.                                   *)
(***************************************************************************)
EXTENDS BoardElements

VARIABLES
  elements,          \* the parameter allElements
  requestedDeletes,  \* the parameter requestedDeletes
  pending,           \* ids whose children have not been looked at
  deletes            \* the ids collected so far

loopVars == <<elements, requestedDeletes, pending, deletes>>

Parentage == [containerId : Ids \cup {None}, metaContainerId : Ids \cup {None}]

(* Types of the state of the loop; pending ids are collected ids. *)
LoopTypeOK ==
  /\ DOMAIN elements \subseteq Ids
  /\ elements \in [DOMAIN elements -> Parentage]
  /\ requestedDeletes \subseteq Ids
  /\ deletes \subseteq Ids
  /\ pending \subseteq deletes

LoopInit ==
  /\ \E present \in SUBSET Ids : elements \in [present -> Parentage]
  /\ requestedDeletes \in SUBSET Ids
  /\ pending = requestedDeletes
  /\ deletes = requestedDeletes

(* Mutated form of Expand: the children are collected but not looked at    *)
(* themselves.                                                             *)
ExpandOneLevel(id) ==
  /\ id \in pending
  /\ pending' = pending \ {id}
  /\ deletes' = deletes \cup Children(elements, id)
  /\ UNCHANGED <<elements, requestedDeletes>>

(* Mutated form of Expand: without the test of deletes.has(childId).       *)
ExpandAgain(id) ==
  /\ id \in pending
  /\ pending' = (pending \ {id}) \cup Children(elements, id)
  /\ deletes' = deletes \cup Children(elements, id)
  /\ UNCHANGED <<elements, requestedDeletes>>

(* pending.shift(), then the children of the id that are not collected yet *)
(* are added to both.                                                      *)
Expand(id) ==
  LET found == Children(elements, id) \ deletes IN
  /\ id \in pending
  /\ pending' = (pending \ {id}) \cup found
  /\ deletes' = deletes \cup found
  /\ UNCHANGED <<elements, requestedDeletes>>

Return ==
  /\ pending = {}
  /\ UNCHANGED loopVars

LoopNext == Return \/ \E id \in Ids : Expand(id)

LoopSpec == LoopInit /\ [][LoopNext]_loopVars

(* The loop is synchronous code: nothing keeps it from its next iteration. *)
LoopFair == WF_loopVars(\E id \in Ids : Expand(id))

-----------------------------------------------------------------------------
(* When the loop ends, it has collected exactly the requested ids and what *)
(* they contain, directly or through others, dangling parents and cycles   *)
(* of containment included (state-utils.ts 38-51).                         *)
CollectsCascade ==
  pending = {} => deletes = collectCascadeDeleteIds(elements, requestedDeletes)

(* Cycles of containment do not keep the loop busy for ever, because an id *)
(* enters the work list only when it is first collected.                   *)
Terminates == <>(pending = {})
=============================================================================
