---------------------------- MODULE BoardPreviews ----------------------------
(***************************************************************************)
(* How a change of one board reaches its preview picture: the domain       *)
(* events of shared/events.ts, the worker's subscriptions, and the render  *)
(* jobs of previews/preview-job.service.ts, which read the board from      *)
(* Postgres, where the write-behind flush puts it.                         *)
(*                                                                         *)
(* Delays and windows count down in steps of Tick.  BullMQ is external: a  *)
(* job with a deduplication id is ignored while the id's window is open,   *)
(* or, with replace, takes the place of a job that is still delayed.  The  *)
(* window of a preview job is as long as its delay, so that it is open as  *)
(* long as the job is delayed.  A job that failed waits for its backoff    *)
(* among those that are due, which may wait for any time.                  *)
(***************************************************************************)
EXTENDS Integers, FiniteSets

CONSTANTS
  MutatedWindow, LeftWindow,  \* DEDUP_TTL_MS
  Debounce,                   \* PREVIEW_DEBOUNCE_WINDOW_MS
  FlushDelay,                 \* PREVIEW_FLUSH_DELAY_MS
  MinInterval,                \* PREVIEW_MIN_INTERVAL_MS
  RenderAttempts,             \* DEFAULT_JOB_ATTEMPTS
  SaveTime,                   \* within which the write-behind job stores a change
  MaxChangesMade, MaxLeaves,  \* bounds on changes and on editors that leave
  MaxMishaps                  \* bound on lost or repeated deliveries and failed renders

ASSUME PreviewConstants ==
  /\ {MutatedWindow, LeftWindow, FlushDelay, SaveTime, Debounce, MinInterval,
      RenderAttempts} \subseteq Nat \ {0}
  /\ {MaxChangesMade, MaxLeaves, MaxMishaps} \subseteq Nat
  /\ MutatedWindow + SaveTime < Debounce /\ Debounce < MinInterval
  /\ FlushDelay < Debounce

EventNames == {"mutated", "editorsLeft"}
Renders == {"debounced", "flush"}

(* A render job on one of its attempts. *)
Jobs == [kind : Renders, try : 1..RenderAttempts]
Job(k, t) == [kind |-> k, try |-> t]

VARIABLES
  changes,    \* changes made to the board
  due,        \* changes when the last one was announced
  stored,     \* changes that Postgres has
  saveIn,     \* time left for storing the others
  leaves,     \* editors that have left
  window,     \* open deduplication windows of the events
  queued,     \* event jobs that wait
  delayed,    \* time until the delayed render job is due, 0 without one
  ready,      \* how many render jobs are due, per kind and attempt
  rendering,  \* renders under way, with the changes they have read
  cooldown,   \* time until the minimal interval since the last render is over
  preview,    \* changes that the preview shows
  mishaps,    \* deliveries lost or repeated and renders failed so far
  degraded    \* since the last fresh job an announcement or a job was lost

previewVars == <<changes, due, stored, saveIn, leaves, window, queued, delayed, ready,
                 rendering, cooldown, preview, mishaps, degraded>>

Window(e) == IF e = "mutated" THEN MutatedWindow ELSE LeftWindow

PreviewInit ==
  /\ changes = 0 /\ due = 0 /\ stored = 0 /\ saveIn = 0 /\ leaves = 0
  /\ window = [e \in EventNames |-> 0]
  /\ queued = [e \in EventNames |-> 0]
  /\ delayed = [k \in Renders |-> 0]
  /\ ready = [j \in Jobs |-> 0]
  /\ rendering = {} /\ cooldown = 0 /\ preview = 0
  /\ mishaps = 0 /\ degraded = FALSE

Fault == mishaps < MaxMishaps /\ mishaps' = mishaps + 1

-----------------------------------------------------------------------------
(* The bus.  emit never rejects: an enqueue that fails or times out is     *)
(* logged, and the job may be there or not.                                *)

EmitOnto(e) ==
  IF window[e] > 0
  THEN UNCHANGED <<window, queued>>
  ELSE /\ window' = [window EXCEPT ![e] = Window(e)]
       /\ queued' = [queued EXCEPT ![e] = @ + 1]

emit(e) ==
  \/ EmitOnto(e) /\ UNCHANGED <<mishaps, degraded>>
  \/ Fault /\ degraded' = TRUE /\ UNCHANGED <<window, queued>>

ChangeBoard ==
  /\ changes < MaxChangesMade
  /\ changes' = changes + 1
  /\ saveIn' = IF stored = changes THEN SaveTime ELSE saveIn

(* The handlers of a mutation batch: the change, and BOARD_MUTATED. *)
MutateBoard ==
  /\ ChangeBoard
  /\ due' = changes'
  /\ emit("mutated")
  /\ UNCHANGED <<stored, leaves, delayed, ready, rendering, cooldown, preview>>

(* The flush of a CRDT room changes the board and emits nothing; nor does  *)
(* the batch of a socket that has left the board meanwhile.                *)
FlushCrdtRoom ==
  /\ ChangeBoard
  /\ UNCHANGED <<due, stored, leaves, window, queued, delayed, ready, rendering, cooldown,
                 preview, mishaps, degraded>>

(* The disconnect handler of a socket with edit permission. *)
EditorLeaves ==
  /\ leaves < MaxLeaves
  /\ leaves' = leaves + 1
  /\ emit("editorsLeft")
  /\ UNCHANGED <<changes, due, stored, saveIn, delayed, ready, rendering, cooldown, preview>>

Store ==
  /\ stored < changes
  /\ stored' = changes /\ saveIn' = 0
  /\ UNCHANGED <<changes, due, leaves, window, queued, delayed, ready, rendering, cooldown,
                 preview, mishaps, degraded>>

-----------------------------------------------------------------------------
(* Preview jobs *)

(* Mutated form of enqueue: the first job keeps its timer. *)
EnqueueFirst(k) ==
  delayed' = [delayed EXCEPT ![k] = IF @ > 0 THEN @
                                    ELSE IF k = "flush" THEN FlushDelay ELSE Debounce]

(* enqueue and enqueueFlush: a fresh timer, in place of a delayed job *)
enqueue(k) ==
  delayed' = [delayed EXCEPT ![k] = IF k = "flush" THEN FlushDelay ELSE Debounce]

(* handleDomainEventJob and dispatch to the worker's handler.  A stalled   *)
(* consumer has its job delivered once more; an enqueue that fails is      *)
(* logged by the handler, so that the job counts as done.                  *)
Consume(e) ==
  LET k == IF e = "mutated" THEN "debounced" ELSE "flush"
      Fresh == enqueue(k) /\ degraded' = (degraded /\ e # "mutated")
  IN
  /\ queued[e] > 0
  /\ \/ Fresh /\ queued' = [queued EXCEPT ![e] = @ - 1] /\ UNCHANGED mishaps
     \/ Fresh /\ Fault /\ UNCHANGED queued
     \/ /\ Fault /\ degraded' = TRUE
        /\ queued' = [queued EXCEPT ![e] = @ - 1]
        /\ UNCHANGED delayed
  /\ UNCHANGED <<changes, due, stored, saveIn, leaves, window, ready, rendering, cooldown,
                 preview>>

(* processBoardPreview: a debounced render that comes too early puts       *)
(* itself off, in place of a delayed job if there is one,                  *)
Defer(j) ==
  /\ ready[j] > 0 /\ j.kind = "debounced" /\ cooldown > 0
  /\ ready' = [ready EXCEPT ![j] = @ - 1]
  /\ delayed' = [delayed EXCEPT !["debounced"] = cooldown]
  /\ degraded' = (degraded \/ (delayed["debounced"] > cooldown))
  /\ UNCHANGED <<changes, due, stored, saveIn, leaves, window, queued, rendering, cooldown,
                 preview, mishaps>>

(* or it reads the rows, as a flush does at any time, *)
StartRender(j) ==
  /\ ready[j] > 0 /\ (j.kind = "flush" \/ cooldown = 0)
  /\ ready' = [ready EXCEPT ![j] = @ - 1]
  /\ rendering' = rendering \cup {[job |-> j, shows |-> stored]}
  /\ UNCHANGED <<changes, due, stored, saveIn, leaves, window, queued, delayed, cooldown,
                 preview, mishaps, degraded>>

(* and writes the picture; *)
FinishRender(r) ==
  /\ r \in rendering
  /\ rendering' = rendering \ {r}
  /\ preview' = r.shows
  /\ cooldown' = MinInterval
  /\ UNCHANGED <<changes, due, stored, saveIn, leaves, window, queued, delayed, ready,
                 mishaps, degraded>>

(* or fails: then the job is tried again, and given up on its last attempt, *)
Retry(j, others) ==
  /\ Fault
  /\ IF j.try < RenderAttempts
     THEN ready' = [others EXCEPT ![Job(j.kind, j.try + 1)] = @ + 1] /\ UNCHANGED degraded
     ELSE ready' = others /\ degraded' = TRUE

(* when it cannot render or write, *)
RenderFails(r) ==
  /\ r \in rendering
  /\ rendering' = rendering \ {r}
  /\ Retry(r.job, ready)
  /\ UNCHANGED <<changes, due, stored, saveIn, leaves, window, queued, delayed, cooldown,
                 preview>>

(* or cannot even read. *)
ReadFails(j) ==
  /\ ready[j] > 0
  /\ Retry(j, [ready EXCEPT ![j] = @ - 1])
  /\ UNCHANGED <<changes, due, stored, saveIn, leaves, window, queued, delayed, rendering,
                 cooldown, preview>>

-----------------------------------------------------------------------------
Down(n) == IF n > 0 THEN n - 1 ELSE 0

(* Renders are quick, and a change is stored in time. *)
Tick ==
  /\ rendering = {} /\ (stored < changes => saveIn > 0)
  /\ saveIn' = Down(saveIn)
  /\ cooldown' = Down(cooldown)
  /\ window' = [e \in EventNames |-> Down(window[e])]
  /\ delayed' = [k \in Renders |-> Down(delayed[k])]
  /\ ready' = [j \in Jobs |-> IF j.try = 1 /\ delayed[j.kind] = 1 THEN ready[j] + 1
                              ELSE ready[j]]
  /\ UNCHANGED <<changes, due, stored, leaves, queued, rendering, preview, mishaps, degraded>>

PreviewProgress ==
  \/ Tick \/ Store
  \/ \E e \in EventNames : Consume(e)
  \/ \E j \in Jobs : Defer(j) \/ StartRender(j)
  \/ \E r \in rendering : FinishRender(r)

PreviewNext ==
  \/ MutateBoard \/ FlushCrdtRoom \/ EditorLeaves \/ PreviewProgress
  \/ \E j \in Jobs : ReadFails(j)
  \/ \E r \in rendering : RenderFails(r)

(* Workers run and time passes. *)
PreviewSpec == PreviewInit /\ [][PreviewNext]_previewVars /\ WF_previewVars(PreviewProgress)

-----------------------------------------------------------------------------
(* Properties. *)

(* Types of the state. *)
PreviewTypeOK ==
  /\ changes \in 0..MaxChangesMade /\ due \in 0..changes
  /\ stored \in 0..changes /\ preview \in 0..stored
  /\ window \in [EventNames -> Nat] /\ queued \in [EventNames -> Nat]
  /\ delayed \in [Renders -> 0..MinInterval] /\ ready \in [Jobs -> Nat]
  /\ rendering \subseteq [job : Jobs, shows : 0..stored]

(* The preview shows the last announced change in the end, although        *)
(* announcements are coalesced, renders are put off and read a copy that   *)
(* lags behind: unless, since the last render job that was scheduled for   *)
(* an announcement, an announcement was lost, a job failed for good, or a  *)
(* render that put itself off took the place of one that was to wait       *)
(* longer.  A later change that was not announced may stay unseen.         *)
PreviewCatchesUp == <>[](degraded \/ preview >= due)

=============================================================================
