--------------------------- MODULE FlushScheduler ---------------------------
(***************************************************************************)
(* Which dirty boards the repeatable flush job writes to Postgres, and     *)
(* when: app/background-jobs.ts starts one pass at a time, and             *)
(* persistDirtyBoards takes a limited number of boards, oldest first, from *)
(* the sorted set of dirty boards and tries each a few times.  A board     *)
(* keeps its place until a write clears it, so that boards whose write     *)
(* always fails stay in front.  What one write does is in FlushProtocol.   *)
(***************************************************************************)
EXTENDS Integers, Sequences, FiniteSets
LOCAL INSTANCE SequencesExt

CONSTANTS
  DirtyBoards,        \* boards that are edited
  Stuck,              \* boards whose write always fails
  Limit,              \* boards a pass takes
  RetryAttempts,
  MaxEdits, MaxSlips  \* bounds on edits, and on other failures

ASSUME SchedulerConstants ==
  /\ Stuck \subseteq DirtyBoards /\ IsFiniteSet(DirtyBoards)
  /\ {Limit, RetryAttempts} \subseteq Nat \ {0}
  /\ {MaxEdits, MaxSlips} \subseteq Nat
  /\ Cardinality(Stuck) < Limit

VARIABLES
  byAge,    \* the sorted set of dirty boards, the oldest first
  aged,     \* those that have been dirty for minDirtyAgeMs
  pass,     \* boards the pass under way has still to do
  running,  \* a pass is under way
  tries,    \* writes it has begun of the board it is at
  edited,   \* that board was edited since the write began
  edits, slips

schedulerVars == <<byAge, aged, pass, running, tries, edited, edits, slips>>

SchedulerInit ==
  /\ byAge = <<>> /\ aged = {}
  /\ pass = <<>> /\ running = FALSE /\ tries = 0 /\ edited = FALSE
  /\ edits = 0 /\ slips = 0

(* applyChangeSet: ZADD NX leaves a board that is there where it is. *)
EditBoard(b) ==
  /\ edits < MaxEdits /\ edits' = edits + 1
  /\ byAge' = IF Contains(byAge, b) THEN byAge ELSE Append(byAge, b)
  /\ edited' = (edited \/ (tries > 0 /\ Head(pass) = b))
  /\ UNCHANGED <<aged, pass, running, tries, slips>>

(* Time passes; boards age in the order in which they became dirty. *)
BoardAges ==
  \E i \in DOMAIN byAge :
    /\ byAge[i] \notin aged /\ \A j \in 1..(i - 1) : byAge[j] \in aged
    /\ aged' = aged \cup {byAge[i]}
    /\ UNCHANGED <<byAge, pass, running, tries, edited, edits, slips>>

PassStarts ==
  LET due == SelectSeq(byAge, LAMBDA b : b \in aged) IN
  /\ ~running /\ due # <<>>
  /\ running' = TRUE
  /\ pass' = SubSeq(due, 1, IF Len(due) < Limit THEN Len(due) ELSE Limit)
  /\ tries' = 0 /\ edited' = FALSE
  /\ UNCHANGED <<byAge, aged, edits, slips>>

NextBoard == pass' = Tail(pass) /\ tries' = 0 /\ edited' = FALSE

(* A board that was cleared meanwhile and has become dirty again is young  *)
(* and is left out; for any other the first attempt begins.                *)
CheckAge ==
  /\ running /\ pass # <<>> /\ tries = 0
  /\ IF Contains(byAge, Head(pass)) /\ Head(pass) \notin aged
     THEN NextBoard
     ELSE tries' = 1 /\ edited' = FALSE /\ UNCHANGED pass
  /\ UNCHANGED <<byAge, aged, running, edits, slips>>

(* persistBoard, which clears the board unless it was edited meanwhile. *)
PersistSucceeds ==
  /\ running /\ tries > 0 /\ Head(pass) \notin Stuck
  /\ IF edited
     THEN UNCHANGED <<byAge, aged>>
     ELSE /\ byAge' = SelectSeq(byAge, LAMBDA b : b # Head(pass))
          /\ aged' = aged \ {Head(pass)}
  /\ NextBoard
  /\ UNCHANGED <<running, edits, slips>>

(* Mutated form of PersistThrows: the pass ends at a failure. *)
PassEndsAtFailure ==
  /\ running /\ tries > 0
  /\ IF Head(pass) \in Stuck THEN UNCHANGED slips
     ELSE slips < MaxSlips /\ slips' = slips + 1
  /\ pass' = <<>> /\ tries' = 0 /\ edited' = FALSE
  /\ UNCHANGED <<byAge, aged, running, edits>>

(* It throws: once more, and after the last attempt the next board. *)
PersistThrows ==
  /\ running /\ tries > 0
  /\ IF Head(pass) \in Stuck THEN UNCHANGED slips
     ELSE slips < MaxSlips /\ slips' = slips + 1
  /\ IF tries < RetryAttempts
     THEN tries' = tries + 1 /\ edited' = FALSE /\ UNCHANGED pass
     ELSE NextBoard
  /\ UNCHANGED <<byAge, aged, running, edits>>

PassEnds ==
  /\ running /\ pass = <<>>
  /\ running' = FALSE
  /\ UNCHANGED <<byAge, aged, pass, tries, edited, edits, slips>>

(* The worker dies in the middle of a pass. *)
PassDies ==
  /\ running /\ slips < MaxSlips /\ slips' = slips + 1
  /\ running' = FALSE /\ pass' = <<>> /\ tries' = 0 /\ edited' = FALSE
  /\ UNCHANGED <<byAge, aged, edits>>

(* The solo path and the eviction sweep write the board as well. *)
PersistElsewhere(b) ==
  /\ Contains(byAge, b) /\ b \notin Stuck
  /\ byAge' = SelectSeq(byAge, LAMBDA c : c # b)
  /\ aged' = aged \ {b}
  /\ UNCHANGED <<pass, running, tries, edited, edits, slips>>

StuckThrows == running /\ tries > 0 /\ Head(pass) \in Stuck /\ PersistThrows
PassRuns == PassStarts \/ CheckAge \/ PersistSucceeds \/ StuckThrows \/ PassEnds

SchedulerNext ==
  \/ \E b \in DirtyBoards : EditBoard(b) \/ PersistElsewhere(b)
  \/ BoardAges \/ PassStarts \/ CheckAge \/ PersistSucceeds \/ PersistThrows
  \/ PassEnds \/ PassDies

(* Boards age, the job is repeated, and every pass goes on to its end. *)
SchedulerSpec == /\ SchedulerInit /\ [][SchedulerNext]_schedulerVars
                 /\ WF_schedulerVars(BoardAges) /\ WF_schedulerVars(PassRuns)

-----------------------------------------------------------------------------
(* Properties. *)

(* As long as fewer boards are stuck than a pass takes, every other dirty  *)
(* board is written in the end: the stuck ones, which are always the       *)
(* oldest, leave room in every pass and do not end it.                     *)
HealthyBoardsFlushed ==
  \A b \in DirtyBoards \ Stuck : Contains(byAge, b) ~> ~Contains(byAge, b)

=============================================================================
