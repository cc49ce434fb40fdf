------------------------- MODULE CascadeDeleteProofs -------------------------
(***************************************************************************)
(* For every board and every request, the loop of collectCascadeDeleteIds  *)
(* ends with the least set that contains the request and is closed under   *)
(* containment.                                                            *)
(***************************************************************************)
EXTENDS CascadeDelete, TLAPS

(* Every collected id that is no longer pending has had its children       *)
(* collected, and nothing is collected that some closed set containing the *)
(* request could do without.                                               *)
Expanded ==
  \A id \in deletes \ pending : Children(elements, id) \subseteq deletes

NothingExtra ==
  \A T \in SUBSET Universe(elements, requestedDeletes) :
    /\ requestedDeletes \subseteq T
    /\ ClosedUnderContainment(elements, T)
    => deletes \subseteq T

LoopInv ==
  /\ LoopTypeOK
  /\ requestedDeletes \subseteq deletes
  /\ deletes \subseteq Universe(elements, requestedDeletes)
  /\ Expanded
  /\ NothingExtra

-----------------------------------------------------------------------------
(* There is only one set of the kind that IsCascade describes, so that the *)
(* choice in collectCascadeDeleteIds is that set.                          *)
LEMMA CascadeUnique ==
  ASSUME NEW els, NEW req, NEW S, IsCascade(els, req, S)
  PROVE  S = collectCascadeDeleteIds(els, req)
<1> DEFINE R == collectCascadeDeleteIds(els, req)
<1>1. S \in SUBSET Universe(els, req)
  BY DEF IsCascade
<1>2. R \in SUBSET Universe(els, req) /\ IsCascade(els, req, R)
  BY <1>1 DEF collectCascadeDeleteIds
<1>3. S \subseteq R
  BY <1>2 DEF IsCascade
<1>4. R \subseteq S
  BY <1>1, <1>2 DEF IsCascade
<1> QED
  BY <1>3, <1>4

(* Before the first iteration the invariant holds: all that is collected   *)
(* was asked for, and all of it is pending.                                *)
LEMMA LoopInvInit == LoopInit => LoopInv
<1> SUFFICES ASSUME LoopInit PROVE LoopInv
  OBVIOUS
<1>1. LoopTypeOK
  <2>1. PICK present \in SUBSET Ids : elements \in [present -> Parentage]
    BY DEF LoopInit
  <2> QED
    BY <2>1 DEF LoopInit, LoopTypeOK
<1>2. Expanded
  BY DEF LoopInit, Expanded
<1> QED
  BY <1>1, <1>2 DEF LoopInit, LoopInv, NothingExtra, Universe

(* One iteration keeps the invariant: the children it adds belong to every *)
(* closed set that has their parent.                                       *)
LEMMA LoopInvStep == LoopInv /\ [LoopNext]_loopVars => LoopInv'
<1> SUFFICES ASSUME LoopInv, [LoopNext]_loopVars PROVE LoopInv'
  OBVIOUS
<1> USE DEF LoopInv
<1>1. CASE UNCHANGED loopVars
  BY <1>1 DEF loopVars, LoopTypeOK, Expanded, NothingExtra, Universe,
              Children, ClosedUnderContainment
<1>2. ASSUME NEW id \in Ids, Expand(id) PROVE LoopInv'
  <2> DEFINE found == Children(elements, id) \ deletes
  <2>1. /\ id \in pending
        /\ pending' = (pending \ {id}) \cup found
        /\ deletes' = deletes \cup found
        /\ elements' = elements
        /\ requestedDeletes' = requestedDeletes
    BY <1>2 DEF Expand
  <2>2. found \subseteq DOMAIN elements
    BY DEF Children
  <2>3. LoopTypeOK'
    BY <2>1, <2>2 DEF LoopTypeOK
  <2>4. /\ (requestedDeletes \subseteq deletes)'
        /\ (deletes \subseteq Universe(elements, requestedDeletes))'
    BY <2>1, <2>2 DEF Universe
  <2>5. Expanded'
    <3> SUFFICES ASSUME NEW e \in deletes' \ pending'
                 PROVE  Children(elements, e) \subseteq deletes'
      BY <2>1 DEF Expanded
    <3>1. CASE e = id
      BY <3>1, <2>1
    <3>2. CASE e # id
      <4>1. e \in deletes \ pending
        BY <3>2, <2>1
      <4> QED
        BY <4>1, <2>1 DEF Expanded
    <3> QED
      BY <3>1, <3>2
  <2>6. NothingExtra'
    <3> SUFFICES ASSUME NEW T \in SUBSET Universe(elements, requestedDeletes),
                        requestedDeletes \subseteq T,
                        ClosedUnderContainment(elements, T)
                 PROVE  deletes \cup found \subseteq T
      BY <2>1 DEF NothingExtra
    <3>1. deletes \subseteq T
      BY DEF NothingExtra
    <3>2. id \in T
      BY <3>1, <2>1 DEF LoopTypeOK
    <3>3. found \subseteq T
      BY <3>2 DEF ClosedUnderContainment
    <3> QED
      BY <3>1, <3>3
  <2> QED
    BY <2>3, <2>4, <2>5, <2>6
<1> QED
  BY <1>1, <1>2 DEF LoopNext, Return

(* With nothing pending, what is collected is closed under containment,    *)
(* and the rest of IsCascade is the invariant.                             *)
LEMMA LoopInvCollects == LoopInv => CollectsCascade
<1> SUFFICES ASSUME LoopInv, pending = {}
             PROVE  deletes = collectCascadeDeleteIds(elements, requestedDeletes)
  BY DEF CollectsCascade
<1>1. IsCascade(elements, requestedDeletes, deletes)
  BY DEF LoopInv, Expanded, NothingExtra, ClosedUnderContainment, IsCascade
<1> QED
  BY <1>1, CascadeUnique

(* Whatever the containment of a board looks like, cyclic or dangling, the *)
(* loop of state-utils.ts returns exactly the requested ids and what they  *)
(* contain.                                                                *)
THEOREM CollectsCascadeHolds == LoopSpec => []CollectsCascade
<1>1. LoopSpec => []LoopInv
  BY LoopInvInit, LoopInvStep, PTL DEF LoopSpec
<1> QED
  BY <1>1, LoopInvCollects, PTL
=============================================================================
