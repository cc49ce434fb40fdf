-------------------------- MODULE MCMutationBatch --------------------------
(***************************************************************************)
(* One job per behaviour: the loop of a cascading delete on a board with   *)
(* any containment, or one batch on a small board.  Every board is one the *)
(* program can be in, so one batch from each shows what a batch can do.    *)
(*   context    two mutations of any type, locks and places left aside     *)
(*   drag       one move, update or reorder, with locks and month ranges   *)
(*   reconcile  one reconcile of the layout a, with month ranges           *)
(***************************************************************************)
EXTENDS MutationBatch, CascadeDelete

CONSTANTS a, b, c,   \* the ids
          Jobs       \* the jobs of a run

VARIABLE job         \* the job, "sent" once its batch is received

Plain == [containerId |-> None, metaContainerId |-> None, locked |-> FALSE,
          monthRange |-> "undefined", place |-> 1, zIndex |-> 0]
In(container, meta) == [Plain EXCEPT !.containerId = container, !.metaContainerId = meta]
Locked(elements_, locks) == {[e EXCEPT !.locked = l] : e \in elements_, l \in locks}
Ranged(elements_, ranges) == {[e EXCEPT !.monthRange = r] : e \in elements_, r \in ranges}

BoardsOf(As, Bs, Cs) ==
  UNION {{[id \in present |-> CASE id = a -> x [] id = b -> y [] id = c -> z] :
            x \in As, y \in Bs, z \in Cs} : present \in SUBSET Ids}

BoardsFor(j) ==
  CASE j = "context" ->
         BoardsOf({Plain, In(c, None)}, {Plain, In(None, a), In(c, None)},
                  {Plain, In(b, None), In(None, a), In(None, b)})
    [] j = "drag" ->
         BoardsOf(Locked({In(x, y) : x \in {None, b, c}, y \in {None, b, c}}, Locks),
                  Locked(Ranged({Plain, In(None, c)}, {"undefined", "range"}), Locks),
                  Locked(Ranged({Plain}, MonthRanges), Locks))
    [] j = "reconcile" ->
         BoardsOf(Ranged({Plain, In(b, None)}, MonthRanges),
                  Ranged({In(None, y) : y \in {None, a, c}} \cup {In(c, None)},
                         {"undefined", "range"}),
                  {In(x, y) : x \in {None, b}, y \in {None, a, b}})
    [] OTHER -> {NoElements}

Patch(id, field, value) == [id |-> id, fields |-> [f \in {field} |-> value]]
Update(patches) == [type |-> "UPDATE_ELEMENTS", patches |-> patches]
Move(id, place, transient) ==
  [type |-> "MOVE_ELEMENTS", patches |-> <<[id |-> id, fields |-> [place |-> place]]>>,
   transient |-> transient]
Reorders1 == [type : {"REORDER_ELEMENT"}, patches : [{1} -> Reorders]]
Reconcile(upserts, dels) ==
  [type |-> "RECONCILE_MONTH_RANGE", metaId |-> a, upserts |-> upserts, deletes |-> dels]
Entry(id, data) == [id |-> id, data |-> data]
Managed == [Plain EXCEPT !.monthRange = "range"]

ContextOps ==
  [type : {"CREATE_ELEMENT"}, element : [id : Ids, data : {Plain, In(b, None), In(None, a)}]]
  \cup {Update(<<p>>) : p \in {Patch(id, "place", 2) : id \in Ids}
                              \cup {Patch(id, "containerId", b) : id \in Ids}
                              \cup {Patch(id, "id", c) : id \in Ids}}
  \cup {Move(id, 2, t) : id \in Ids, t \in BOOLEAN}
  \cup Reorders1
  \cup [type : {"DELETE_ELEMENTS"}, deletes : SUBSET Ids]
  \cup {Reconcile(<<Entry(a, Managed)>>, dels) : dels \in {<<>>, <<b>>}}

DragOps ==
  {Update(<<p>>) : p \in Updates}
  \cup {Update(<<p, Patch(id, "place", 2)>>) :
          p \in {p \in Updates : DOMAIN p.fields \in {{"locked"}, {"id"}}}, id \in Ids}
  \cup {Move(id, place, FALSE) : id \in Ids, place \in Places}
  \cup Reorders1

ReconcileOps ==
  LET metas == {Entry(a, Plain), Entry(a, Managed), Entry(a, [Managed EXCEPT !.containerId = b])}
      months == {Entry(id, e) : id \in {b, c},
                   e \in Ranged({In(x, y) : x \in {None, b, c}, y \in {None, a}},
                                {"undefined", "range"})}
  IN  {Reconcile(upserts, dels) :
         upserts \in {<<>>} \cup {<<m>> : m \in metas \cup months}
                     \cup {<<m, x>> : m \in metas, x \in months \cup metas},
         dels \in {<<>>, <<a>>, <<b>>, <<c>>, <<c, b>>, <<b, b>>}}

(* What a job sends is among what clients can send. *)
ASSUME JobsSendMutations ==
  \A op \in ContextOps \cup DragOps \cup ReconcileOps : op \in MutationsOf(op.type)

-----------------------------------------------------------------------------
NoLoop ==
  /\ elements = NoElements
  /\ requestedDeletes = {} /\ pending = {} /\ deletes = {}

JobInit ==
  /\ job \in Jobs
  /\ board \in BoardsFor(job)
  /\ batch = <<>>
  /\ context = NoElements
  /\ IF job = "cascade" THEN LoopInit ELSE NoLoop

Send(ops) ==
  /\ ReceiveBatch(ops)
  /\ job' = "sent"
  /\ UNCHANGED loopVars

Process ==
  /\ BroadcastOnly \/ AlreadyApplied \/ LockBlocked \/ ReconcileRejected \/ ApplyMutation
  /\ UNCHANGED <<job, loopVars>>

Loop ==
  /\ job = "cascade"
  /\ LoopNext
  /\ UNCHANGED <<vars, job>>

(* The board waits for what comes next. *)
Idle == job = "sent" /\ batch = <<>> /\ UNCHANGED <<vars, loopVars, job>>

JobNext ==
  \/ job = "context" /\ \E op \in ContextOps : Send(<<op>>)
  \/ job = "context" /\ \E op1, op2 \in ContextOps : Send(<<op1, op2>>)
  \/ job = "drag" /\ \E op \in DragOps : Send(<<op>>)
  \/ job = "reconcile" /\ \E op \in ReconcileOps : Send(<<op>>)
  \/ Process
  \/ Loop
  \/ Idle

JobSpec == JobInit /\ [][JobNext]_<<vars, loopVars, job>> /\ LoopFair
=============================================================================
