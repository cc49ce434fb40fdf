---------------------------- MODULE BoardElements ----------------------------
(***************************************************************************)
(* The containment of a board.  The elements hash is a function from the   *)
(* ids that are present to records with a containerId (the column that an  *)
(* element sits in) and a metaContainerId (the layout that it sits in).    *)
(* Containment comes from clients and is not checked when it is written:   *)
(* a parent may be absent, and an element may contain itself.              *)
(***************************************************************************)
CONSTANTS
  Ids,        \* element ids
  None        \* "no parent"

ASSUME NoneIsNoId == None \notin Ids

(* Mutated form of the next definition: notes go with their column, columns *)
(* stay when their layout goes.                                            *)
ChildrenOfColumn(elements, id) ==
  {e \in DOMAIN elements : elements[e].containerId = id}

Children(elements, id) ==
  {e \in DOMAIN elements : \/ elements[e].containerId = id
                           \/ elements[e].metaContainerId = id}

ClosedUnderContainment(elements, S) ==
  \A id \in S : Children(elements, id) \subseteq S

Universe(elements, requestedDeletes) == requestedDeletes \cup DOMAIN elements

(* What a cascading delete promises: everything that was asked for and     *)
(* everything inside it, and nothing that could have stayed.               *)
IsCascade(elements, requestedDeletes, S) ==
  /\ S \subseteq Universe(elements, requestedDeletes)
  /\ requestedDeletes \subseteq S
  /\ ClosedUnderContainment(elements, S)
  /\ \A T \in SUBSET Universe(elements, requestedDeletes) :
       /\ requestedDeletes \subseteq T
       /\ ClosedUnderContainment(elements, T)
       => S \subseteq T

collectCascadeDeleteIds(elements, requestedDeletes) ==
  CHOOSE S \in SUBSET Universe(elements, requestedDeletes) :
    IsCascade(elements, requestedDeletes, S)
=============================================================================
