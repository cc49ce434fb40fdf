# Verification of the notebortt backend

TLA+ models of the collaborative board backend: how the hot copy of a board in
Redis is loaded, changed, written to Postgres and evicted, by several processes
at once; how sockets join, drag, retry and are told of each other; and the rows in
Postgres that decide who is logged in, has paid and may open a board. What survives
when these meet at the wrong moment is what the properties are about.

All paths are relative to the repository, which is checked out under `src/`
(so `src/src/modules/...` is the code).

## 1. The system and its parts

Three kinds of process share one Redis and one Postgres: **api** (REST),
**realtime** (Socket.IO) and **worker** (jobs). None of them owns a board.

| Part | State it keeps | Operations | What makes it correct |
|---|---|---|---|
| board-state changes (`state-domain.ts`) | elements hash, `seq`, dirty sets and epoch, change log, `seen` keys | applyChangeSet, tryMarkSeen, getChangesAfter, getSnapshot | markers tell the flush everything it has to write |
| board-state persistence (`persistence-domain.ts`) | `boards:dirty`, `last_flushed_*`, the `elements` table | persistBoard, persistDirtyBoards, flushBoard | no change is lost between hash and table |
| board-state loading (`load-domain.ts`) | `load_lock`; `seq` means "loaded" | loadBoard, waitForBoardLoad | a loaded board is complete and is not reset |
| mutation lock (`mutation-lock-domain.ts`) | `mutation_lock` | acquire with 2 s limit, renew, release | one change at a time per board |
| presence (`presence-domain.ts`) | clients, leases, viewer sessions, collab marker, `last_active` | trackClient, removeClient, touchViewerSession, getSyncWriteMode | boards in use are not evicted; solo writes are flushed at once |
| mutation processor (`mutations/`) | a context of elements per batch | processMutation, processBatch, lock enforcement | locks and managed metas hold, a batch is its mutations in order |
| redis cleanup (`redis-cleanup.service.ts`, `app/background-jobs.ts`) | none of its own | cleanupInactiveBoards, cleanupTransientDataByIdleTime | only idle, flushed boards go |
| socket sessions (`realtime/socketio/`) | board context, join attempts, roster, rooms | join, mutation batch, presence, disconnect | no ghost in the roster, room cap, viewers see what the board has |
| tick and CRDT buffers | pending moves and timers per board and node | queue, flush, clear | no move is forgotten in memory |
| domain events, previews | queues, dedup ids, delayed jobs | emit, consume, enqueue, defer, render | the picture catches up with what was announced |
| auth sessions (`auth/routes/`) | `refresh_tokens` | login, refresh, logout | one live token per session, ended sessions stay ended |
| billing (`billing/`) | events, customers, subscriptions | checkout, webhook, profile | an event counts once, who pays is served |
| board access, workspaces | roles, members, invitations, share links | invite, accept, decline, revoke, share, remove, delete | invitations grant once, dead links stay dead |

Parts interact in three ways: calls inside a process; Redis keys and Postgres
rows shared between processes, with locks that expire; jobs and events in
BullMQ. The hard behaviours are the second kind: a Node process gives up control
at every `await`, so between any two Redis commands all other processes may run,
and locks are separate commands from what they protect.

## 2. Modules

| Module | Models |
|---|---|
| `DurableBoard` | what write-behind persistence promises: a settled board may be dropped |
| `FlushProtocol` | one loaded board: `applyChangeSet` and `persistBoard`, one step per Redis command or transaction |
| `FlushProtocolProofs` | theorems about `FlushProtocol` |
| `BoardLifecycle` | one board from load to eviction: REST requests, sockets, the worker's flush and the maintenance sweep |
| `BoardElements` | containment on a board, and what a cascading delete has to return |
| `CascadeDelete` | the work list of `collectCascadeDeleteIds`, both copies |
| `CascadeDeleteProofs` | theorem about `CascadeDelete` |
| `MutationBatch` | `processBatch` on one board: context, lock enforcement, reconcile, change sets |
| `MutationBatchProofs` | theorems about `MutationBatch` |
| `MutationDelivery` | deliveries and retries of a batch: promise chain, mutation lock with its lease, claims of mutation ids |
| `RoomSessions` | sockets that join, switch and leave boards, and the roster of participants |
| `RoomBroadcast` | what the viewers of a board are sent: snapshots, broadcasts of batches, live moves |
| `MoveBuffers` | moves of ticks and CRDT updates, from the socket to the board |
| `FlushScheduler` | which dirty boards a pass of the flush job takes |
| `BoardPreviews` | board events, preview jobs, renders |
| `RefreshTokens` | logins and the rotation of refresh tokens |
| `Billing` | checkout, webhook and profile of one user; Stripe external |
| `Sharing` | roles, members, invitations and links of one board in one workspace |
| `BoardLifecycleProofs`, `RoomSessionsProofs` | theorems about these modules |
| `RealtimeProofs` | theorems about `MutationDelivery`, `RoomBroadcast` and `MoveBuffers` |
| `AccountProofs` | theorems about `RefreshTokens`, `Billing` and `Sharing` |
| `ServicesProofs` | theorems about `BoardPreviews`, and about the services side by side |
| `MCFlushProtocol`, `MCBoardLifecycle` | symmetry sets for TLC |
| `MCMutationBatch` | jobs: the cascade loop, and batches on small boards of open records |
| `MCRoomSessions` | two sockets, two boards, and their bounds |
| `MCServices` | `MutationDelivery`, `RoomBroadcast`, `MoveBuffers`, `FlushScheduler`, `BoardPreviews`, `RefreshTokens`, `Billing` and `Sharing`, side by side |

Modules compose in three ways. `DurableBoard` is the abstract specification that
`FlushProtocol` refines; `MutationBatch` uses the cascade that `CascadeDelete` is
shown to compute; and a module takes as one step what another has in detail:
`BoardLifecycle` a whole flush, `FlushScheduler` a whole write, `MoveBuffers` a whole
join, `RoomBroadcast` a whole application of a mutation.

### FlushProtocol

`hot`, `seq`, `dirtyIds`, `deletedIds`, `epoch`, `dirty` and `lastFlushedSeq` are
the Redis keys of the board, `db` its rows. Contents are named by the sequence
number of the change that wrote them. `writer` is the `applyChangeSet` call that
holds the mutation lock; it takes a sequence number in one round trip
(`TakeSequence`) and then sends its pipeline, which Redis either runs whole
(`RunPipeline`, constant `AtomicPipeline`) or in the three groups in which the
code queues the commands. `flush[p]` is the `persistBoard` call of process `p`:
sequence, epoch, dirty ids, deleted ids and contents are read by five commands,
`Commit` is the transaction, `ClearMarkers` and `SkipClear` are the two results of
the Lua script. `PersistFails` covers a crash or an error at any step.
`Incremental` is `enableIncrementalPersistence`.

### BoardLifecycle

`proc[p]` is a request: a REST call (`Arrive`, the `Load...` actions, `Lock` to
`Ack`) or a socket, which loads and is registered (`Track`), then changes the
board without loading it again (`SocketMutates`), refreshes its lease, and leaves
(`Leave`, `Drain`). Every step is one Redis command or transaction, except that
`waitForBoardLoad` and the command after it are one step where nothing depends on
the gap; before `INCR` they are two. `Persist` is a whole flush.
`sweep` is `cleanupInactiveBoards` followed by `flushBoard`: flush, eviction lock,
idle check, `SCAN`, `DEL`, index removal, release. `SCAN` may miss keys created
while it runs, and `DEL` removes lock keys as well. Processes die at any step and
leave their locks, which expire.

The three locks of a board are leases of Redis. The load lock and the eviction lock are
`SET ... PX 30000` and nobody renews them (`LoadLockExpires`, `EvictionLockExpires`); the
mutation lock is renewed by a timer, which may be late, so in the model it runs out at any
moment, under a live holder as under a dead one.

Four assumptions on timing are constants, because the code does not enforce them:

* `QuiescentEviction`: the eviction lock is not taken while a request is working or a
  change waits for a flush;
* `ActiveSockets`: a joined socket sends something every 90 s;
* `LoadsInTime`: a load ends within the 30 s of its lock;
* `SweepsInTime`: so does the eviction of one board.

A run or a theorem says which of them it needs; section 3 says what happens without each.

### CascadeDelete and MutationBatch

`CascadeDelete` takes one id from the work list per step; `BoardElements` has the
reference definition, the least set that contains the request and is closed under
containment. `MutationBatch` uses the reference, which the proof justifies.

In `MutationBatch`, `board` is the elements hash, `batch` the mutations that are
left, `context` the map `elementsById`. `ReceiveBatch` reads the context as
`createCachedBoardContext` does; after it each mutation takes one of the five exits of
`processMutationWithContext`: transient, already applied, blocked by a lock,
reconcile rejected, applied. The mutation lock makes a batch atomic towards
others, so there is one actor. Whether a mutation id was seen before is a free choice.

An element is an open record, as `BoardElement` is: whatever its kind, a client may write
its two parents, `locked`, `monthRange` (where `null` and `undefined` differ, as they do in
the two checks of the code), its place and its z-index, in any combination. Updates, moves
and reorders are lists of patches. An update carries one of the sets of fields in
`PatchShapes`, `id` among them: the code spreads the fields over the cached element, so the
result is stored under the id that the patch brings along (`Target`), and an update of A
may replace B. When a list names an id twice, the last entry counts, which is what
`normalizeUpserts` makes of it. Which mutations clients send is the constant `OpTypes`.

### MutationDelivery

An attempt (`step[a]`) is one delivery of a batch, over a socket or REST. It waits in
the promise chain of its process (`localLocks`), takes the mutation lock in Redis or
gives up after two seconds (`AcquireTimesOut`), and then does each mutation of the
batch in two steps: `tryMarkSeen` claims the id, `ApplyClaimed` makes the change.
`LeaseEnds` lets the lock of a live holder run out (a timer that starves, an
extension that fails), after which the holder goes on, as in the code, and another
process may enter; `releaseMutationLock` compares the token. Attempts fail, and processes
die and leave the key. `ClaimExpires` is the TTL of a claim; `BoardEvicted` is the `DEL` of
an eviction, which takes claims away and the lock key of whoever is in the lock. `keyless`
are the attempts whose key was lost, to the end of the lease or to an eviction.
A claim is not taken back when the apply fails; `dropped` records the mutations that
are lost this way.

### RoomSessions

A handler (`job[p]`) is one of a socket's joins or its disconnect; each await is a
step, so joins overlap each other, the disconnect, the heartbeat and the refresh of an
activity event. `roster`, `live` and `due` are the participants hash and the expiry
set; `admitParticipant` is the Lua script, `SelectExpired` and `pruneExpired` the two
commands of a pruning. `disturbed` marks a socket whose joins overlapped, whose handler
failed or whose entry was pruned between its renewal and the delete; what the others
are shown of such a socket may be wrong until it leaves, so two of the properties
exempt it. The cap and the fading of ghosts exempt nothing.

### RoomBroadcast and MoveBuffers

A viewer enters the room, reads the snapshot and is sent it (`EnterRoom`,
`getSnapshot`, `SendSnapshot`); in between, broadcasts reach it. A delivery claims its
mutation, applies it and broadcasts it after the lock is released, or does not:
`BatchFails`, `SenderLeft`, `RestResponds` leave the change in `silent`. Live moves are
broadcast first and applied when the buffer is flushed. `MoveBuffers` has that buffer:
one per node and kind, with a debounce and a max-wait timer, flushes under way, and the
cleanup of a node that sees the room empty.

### FlushScheduler and BoardPreviews

`byAge` is the sorted set of dirty boards; a pass takes `Limit` of them and tries each
`RetryAttempts` times. `Stuck` boards always fail. In `BoardPreviews`, time is counted
in ticks: deduplication windows, delays of jobs, the minimal interval between renders
and the time within which the write-behind job stores a change, which the render reads.
A change of a batch or of a tick flush emits BOARD_MUTATED (`MutateBoard`); the flush of a
CRDT room, and a batch whose sender left while it was processed, change the board and
announce nothing (`FlushCrdtRoom`). `due` is the board as it was at the last announcement.
A render is tried `RenderAttempts` times (three in the code) and then given up.

### RefreshTokens, Billing, Sharing

`/refresh` is four statements, each a step that requests come between and die after.
In `Billing` the events of Stripe lie in an `outbox` from which they are delivered in
any order and again; recording and processing are two steps, an upsert writes the customer
link and the row in two statements, and the lookup and the storing of a customer and of a
subscription are steps of their own. `getPlanFromPriceId` turns a price into a plan, and a
price that is not configured into "free"; Stripe is asked for `ListLimit` subscriptions (20
in the code), the newest; customers are found by address, and may have lost it or have been
erased. An "updated" event is upserted whatever its status, and only "deleted" marks a row
as cancelled. Stripe is external, and `Ordinary` says what a user is like whom only the
application has touched there. In `Sharing` a request is first
authorised and then acts, with other requests in between; the unique indexes and
cascades of `drizzle/0000_init.sql` are part of the tables.

## 3. Runs

| Run | Configuration | Result |
|---|---|---|
| `flush_single` | 1 process, 2 elements, 2 changes, fairness | `NoLostUpdate`, `MarkersAgree`, `ClearCoversWindow`, `KeepsDurablePromise`, `EventuallyDurable` hold |
| `flush_full` | full-snapshot mode, pipeline in pieces, 3 changes | `NoLostUpdate` holds |
| `flush_race` | 2 processes | `NoLostUpdate` is violated |
| `lifecycle_quiescent` | 1 REST request, 1 socket, 2 elements, 2 changes, all four assumptions on timing | `TypeOK`, `AckedSurvives`, `LoadedComplete`, `LoadNeverClobbers`, `EvictsOnlyDeserted` hold |
| `lifecycle_quiet` | 2 sockets that may fall silent, 2 changes, loads that may outlive their lock | `RowsNeverErased` holds |
| `lifecycle_evict_acked` | eviction at any time | `AckedSurvives` is violated |
| `batch` | the cascade loop on every containment of 3 ids; batches of 2 mutations of any type; single drags on boards with locks; single reconciles of up to 2 upserts and 2 deletes | `TypeOK`, `ActsOnCurrentBoard`, `CollectsCascade`, `Terminates`, `DeleteLeavesNoOrphan`, `DragsRespectLocks`, `ManagedSealed`, `ReconcileIntegrity` hold |
| `batch_locks` | batches of 2 moves or updates | `LocksAuthoritative` is violated |
| `batch_managed` | single updates and deletions | `ManagedOnlyByReconcile` is violated |
| `batch_hijack` | single reconciles | `PlainMetasStayPlain` is violated |
| `rooms` | 2 sockets, 2 boards, room for 1; 3 joins, 1 event, 1 fault | `SlotsBounded`, `RosterTruthful`, `LeaversAnnounced`, `GhostsFade` hold |
| `services` | eight components side by side | the fifteen properties below hold |

`services` starts in one of eight components (variable `service`) and stays there: they
share no variable, so their product would add interleavings and no behaviour. Each has
the fairness of its own specification.

| Component | Instance | Properties |
|---|---|---|
| `MoveBuffers` | 2 sockets on one node, 2 moves, 2 visits each, 1 failed flush | `MovesSafe`: a move is in one place until settled, and a timer waits for it. `EveryMoveSettles` |
| `MutationDelivery` | 3 attempts at 2 processes, 2 mutations, 2 upsets | `LockExcludes`, `DeliveredOnce`, `EveryAttemptEnds` |
| `RoomBroadcast` | 1 viewer entering twice, a mutation sent twice, once over REST, 1 live move | `ViewersSeeTheBoard` |
| `FlushScheduler` | 3 boards, 1 stuck, 2 per pass, 4 edits | `HealthyBoardsFlushed` |
| `BoardPreviews` | 2 changes, 1 editor leaving, 2 mishaps, 2 attempts per render | `PreviewCatchesUp` |
| `RefreshTokens` | 3 tokens, 2 requests | `OneLivePerFamily`, `FamilyStaysDead` |
| `Billing` | 2 customers, 2 subscriptions of which 1 is listed, 2 prices of which 1 is configured, 2 changes, 2 checkouts, 1 profile request | `AppliedAtMostOnce`, `PaidIsServed` |
| `Sharing` | 2 people, 2 invitations, 2 requests at a time | `TablesConsistent`, `LinkNeverRises` |
| all but `FlushScheduler` | | `ServicesTypeOK` |

What the violations show:

* **flush_race.** `persistLocks` is a map inside one process, and a solo change in
  the api, a drain in realtime and the job in the worker all flush. Process A
  reads an element, the element changes, process B flushes it and clears the
  markers, A's transaction writes the old content. The table is behind and
  nothing is marked; the next eviction loses the change. The epoch guards the
  clear, not the transaction.
* **lifecycle_evict_acked.** A change that finished waiting before the eviction
  lock was taken writes after the sweep's flush. `DEL` removes it; the change's own
  `persistBoard` finds no `seq`, takes the board off the indexes and returns
  normally; the caller is told `applied`.
* **batch_locks.** The parents in the context are those from before the batch. A
  mutation puts a note into a locked column that is not loaded; the next mutation
  of the batch moves the note out. A single update violates the property as well once it
  may carry an id (`PatchShapes = {{"id"}}`, `MaxBatch = 1`): it is no position patch, its
  own element is not locked, and what it replaces is not looked at.
* **batch_managed.** A batch of deletions alone touches nothing, so no context is loaded,
  and the check that keeps the months of a managed layout from being deleted finds no
  month. The check is unit-tested with a context that the test fills
  (`test/lock-enforcement.month-range.test.ts:88`, 'blocks deleting a month while its
  managed meta remains').
* **batch_hijack.** An upsert of a reconcile is accepted when it names the reconciled
  layout as its `metaContainerId`. Another layout, which exists and is plain, may be
  upserted like that with a `monthRange`, and is managed from then on, although
  `lock-enforcement.ts:78-80` says that a plain meta can never be hijacked. What a
  reconcile does keep is `ReconcileIntegrity`.

Other settings of the constants lead to more behaviours that a reader should
know of, for which no run is kept:

* `AtomicPipeline = FALSE` in `FlushSingle.cfg` violates `ClearCoversWindow`. The
  pipeline increments the epoch before it adds the ids; if Redis serves it in
  pieces, a flush in between owns the new epoch and the old ids, and its clear is
  accepted.
* `QuiescentEviction = FALSE` violates `LoadNeverClobbers` too: the late change
  recreates `seq` between the loader's last check and its pipeline, which then
  resets the board.
* `ActiveSockets = FALSE` violates `EvictsOnlyDeserted`: the heartbeat of a silent
  socket renews its roster entry only. After 90 s its client lease and viewer
  session are gone, after three minutes its board is evicted, and its next batch
  starts a partial board. `lifecycle_quiet` shows that even then no row is erased.
* `LoadsInTime = FALSE` violates `AckedSurvives`, `LoadedComplete` and
  `LoadNeverClobbers`: a loader that is past its last check of `seq` when its lock runs out
  writes the rows that it selected over a board that another request has loaded and changed
  meanwhile. `EvictsOnlyDeserted` and `RowsNeverErased` hold without it.
* `SweepsInTime = FALSE` violates `EvictsOnlyDeserted` and `RowsNeverErased`: a client joins
  after the lock of a slow sweep is gone, and `DEL` takes the board away under it, or some
  of its keys.
* Creations violate `LocksAuthoritative` and `ManagedOnlyByReconcile`: a creation with the
  id of a locked element overwrites it (`PATCH /elements` sends all its upserts as
  creations), and a batch of creations alone has an empty context.
* As many stuck boards as a pass takes violate `HealthyBoardsFlushed` (the module
  assumes fewer): they keep the front of the sorted set, and no other board is written
  by the job.

The exceptions that properties name are behaviours too. `DeliveredOnce` has to allow a
mutation that is answered `already_applied` and was never applied, because the attempt
that claimed it failed. `ViewersSeeTheBoard` has to allow changes that nobody is sent
(over REST, or when the sender leaves while its batch is processed) and live moves that
were broadcast before a viewer entered and applied after its snapshot; `server.ts:125`
says that clients have applied them already. `FamilyStaysDead` calls a session dead
only when no rotation is under way, because one that has claimed its token inserts the
new one after a revocation of the family. `DragsRespectLocks` and `ManagedSealed` speak of
mutations that are checked against a context just read, because for later ones of a batch
the parents are stale, and exempt elements that a patch names in its `id` field; creations,
deletions and reconciles do not look at `locked`. `DeleteLeavesNoOrphan` exempts the elements that
a reconcile writes itself: one may name a month that the same reconcile deletes as its
container. `ReconcileIntegrity` lets a reconcile take a column that is at the moment in
another layout, because only the payload's `metaContainerId` is compared. `PaidIsServed` is
about `Ordinary` users: a user for whom two checkouts at once made two Stripe customers,
whose customer has another address, whose price is not configured or who has more
subscriptions than are listed may be shown the free plan while paying. `PreviewCatchesUp`
is about changes that were announced, and excludes an announcement that was lost, a render
that failed for good, and a render that put itself off and so replaced a job that was to
wait longer; a later change that was not announced stays unseen until the next one.

### Bounds

`MaxSeq` and `MaxWrites` bound the changes of a behaviour. Two changes suffice for
every race found (one that a flush captures, one that it misses); what holds for
two changes in `flush_single` is proved for any number, liveness apart. Two elements
distinguish the element that is changed from one that must not be disturbed. Two processes or requests are the
smallest number that race; symmetry is over interchangeable elements, requests and
processes.

The batch runs start from boards with any of two or three ids present, whose elements have
the fields that the job of the run tells apart; clients can write every one of them. Three
ids are the whole chain note, column, layout, or a layout with a month to keep and one to
delete; two are enough for `batch_locks` and `batch_managed`. A second place tells moves apart. Two mutations
are enough for one to invalidate what was loaded for the other, and for longer batches there
are the theorems. Each job of `batch` leaves fields aside that its mutations do not look at:
`context` locks, `drag` all containment but that of one element in the other two and of the
second in the third, `reconcile` locks and places. The theorems have none of these bounds.

In `rooms`, a room for one makes two sockets compete; two boards let one of them switch,
and its second join overlap the first; one fault is a handler that fails or heartbeats
that stop. `SlotsBounded`, `RosterTruthful` and `LeaversAnnounced` are proved for any
numbers.

In `services`, three attempts at two processes give two that share a promise chain and
one that competes through Redis; two upsets let a lease run out and the new holder fail.
Three tokens are a login and two rotations, or two sessions. A viewer that enters twice
meets what an earlier visit left behind.
In `Billing`, one subscription more than is listed and one price more than is configured
make both limits matter; of what makes a user unusual (`Oddities` of `MCServices`: a second
checkout, an unknown price, a trial, a changed address, an erased customer, a tag, a failed
event, overlapping events) one occurs at a time, and profiles are asked for while somebody
pays. Two attempts per render are one that is repeated and one that is the last. The theorems
about both components have none of these bounds. Three boards with two per pass, one of them
stuck, make a board wait for a later pass; the windows of `BoardPreviews` keep the order of the
real ones (event window and saving, then debounce, then minimal interval). Two requests at
a time and two invitations are the smallest numbers that interleave. Bounds on counters
(`MaxMoves`, `MaxUpsets`, `MaxEdits`, `MaxChanges`, `MaxCalls` and so on) are guards of the actions of
the environment, never of the code's own steps; deadlock is not checked in `rooms` and
`services`, where nothing has to happen once the bounds are used up.

### Fairness

`FairSpec` assumes that the worker's repeatable job starts a flush of a dirty
board again and again (`WF` of `StartPersist` while dirty), that a command that is
sent again and again is in the end served although flushes may fail in between
(`SF` of the steps), and that a change that has its number is sent or fails. The
job is repeatable and `persistDirtyBoards` retries; Postgres that is down for ever
is excluded.

The other specifications assume weak fairness of progress and nothing of clients or
faults: in `RoomSessions` awaits settle and leases run out, in `MoveBuffers` timers fire
and flushes end, in `MutationDelivery` a process that is alive goes on, in
`FlushScheduler` the job is repeated and a pass goes on, with failures of boards that are
not stuck bounded, in `BoardPreviews` workers run and time passes. None is strong.

## 4. Proofs

`FlushProtocolProofs` proves, for every set of elements and processes and every
bound:

* `TypeCorrect`, without further assumption.
* `MarkersAgreeHolds`, assuming `AtomicPipeline`: between the pieces of a pipeline the two
  marker sets and the hash disagree.
* `ClearCoversWindowHolds`, assuming `AtomicPipeline`, for any number of flushing
  processes. The inductive invariant `ClearInv` says of every flush that its epoch
  is not ahead of the board's (`EpochBehind`) and that, as long as the two are
  equal, what it has read so far is what is there now (`Covers`): equality of the
  epochs means no pipeline has run since. Without `WholePipeline` this fails:
  a pipeline in pieces moves the epoch before the ids.
* `NoLostUpdateHolds` and `KeepsDurablePromiseHolds`, assuming `AtomicPipeline` and
  one flushing process. `FlushInv` adds that a row differs from the hash only if
  the element is marked (`DivergentMarked`), that a flush has every marked id it
  will need (`KeepsDirtyIds`, `KeepsDeletedIds`), that what it has read and is not
  current any more is marked again (`StaleIsMarked`), and that after its commit the
  rows are what it read (`CommittedIsEqual`). With two processes `StaleIsMarked` is
  not inductive, which is `flush_race`.

`CascadeDeleteProofs` proves `CollectsCascadeHolds` for every set of ids and every
board. The invariant `LoopInv`: ids no longer pending have their children
collected, and what is collected lies in every closed set that contains the
request. There is only one least such set (`CascadeUnique`), so it is the one the
reference definition chooses.

`MutationBatchProofs` proves

* `ActsOnCurrentBoardHolds`: the context agrees with the board on what it shows, and shows
  whatever the rest of the batch touches and the board has (`ContextInv`). The same change
  applied to both keeps both facts.
* `BatchTypes`, `NoOrphans` and `ReconcilesKeepIntegrity`, from `BatchInv`, which is `TypeOK`
  and `ContextInv`. The cascade that `collectCascadeDeleteIds` chooses exists for every board
  and grows with the request (`CascadeExists`, `CascadeMonotone`); `ApplyEffect` says what an
  applied change leaves. `ReconcileSeesBoard` carries the verdict of the validation from the
  context to the board; it does so wherever in the batch the reconcile stands, because the
  context has every id that the reconcile touches.
* `DragsRespectLocksHolds` and `ManagedStaysSealed`: everything that a mutation touches is in
  a context just read together with its parents (`ParentsAreLoaded`), so the check sees every
  lock (`LocksAreLoaded`), and a patch that passes it leaves a locked element in its place
  (`PatchKeepsImmovable`) and the months of a managed layout as they are
  (`PatchKeepsMonths`), whatever fields it has and whichever patch of a list comes last.

None of these assumes anything of boards or batches: elements are open records, a batch is
any sequence of any mutations. What does not hold in general is an exemption in the property
(section 3), and `batch_locks`, `batch_managed` and `batch_hijack` show why.

`BoardLifecycleProofs` proves, for any elements, REST requests and sockets:

* `LifecycleTypes`, without assumption on timing.
* `EvictionIsAlone` and `RowsStay`, assuming `QuiescentEviction` and `SweepsInTime`.
  `EvictionInv` says what the eviction lock is worth: whoever takes it found no request at
  work and nothing marked, and until it is given up no request passes `waitForBoardLoad`, so
  that nothing is marked and nobody writes (`BarredInv`); the sweep holds the lock in the
  steps that need it, and what it has scanned contains the sequence key and, if there is any
  content, the hash (`SweepInv`). Therefore `DEL` never leaves a sequence key without its hash
  or contents without their sequence key.
* `EvictedIsDeserted`, assuming `ActiveSockets` as well: a socket on the board counts as a
  client (`ClientInv`).
* `AcknowledgedSurvives`, `LoadedIsComplete` and `LoadsNeverClobber`, assuming all four.
  `AckedSurvives` is not inductive: a change between its pipeline and its acknowledgement has
  to be there already (`PendingInv`), a request past its load has to work on a loaded board,
  and a loader has to have the load lock and rows that are still those of the table
  (`LoadInv`), which is what `LoadsInTime` gives; `ClientInv` is needed again, or the sweep
  takes the board away under a socket, and a board that is not loaded has to have left
  nothing behind (`UnloadedEmpty`).

The mutation lock may run out under a live holder in all of them. Each assumption is needed:
`lifecycle_evict_acked` drops the first, and section 3 says what happens without the others.

`AccountProofs` proves `RotationIsExclusive` and `RevocationIsFinal` for any tokens
and requests. `OneLivePerFamily` alone is not inductive: `FamilyInv` adds that a family
with a rotation between claim and insert has no live token and only one such rotation,
which the conditional update of `Claim` establishes, and `NamedInv` that families are
named by tokens that were issued, so that a login starts an empty one.

It proves `EventsApplyOnce` and `PayersAreServed` for any customers, subscriptions, prices,
limits, checkouts and profile requests. `BillingInv` has four parts. An event that took effect
is recorded and not being worked on (`EffectInv`), so neither a redelivery nor another process
repeats it. Whoever pays, or is tagged, or is in a checkout event, is a customer that this
user was given, and what Stripe shows of a subscription it has sent (`StripeInv`). The plan of
a row that counts as paid is that of a price that Stripe sent, and one customer is linked
(`TableInv`). What a request is owed is still being paid for, and what it found at Stripe is
paid (`FetchInv`). For an ordinary user the lookup at Stripe cannot miss the subscription,
whatever the webhook has stored (`PayerIsFound`).

And it proves `SharingTablesStay` and `LinksNeverRise` for any people,
invitations and overlapping requests. `TablesConsistent` is inductive once the tables are
typed (`TableTypes`): what the second half of a request relies on is what the unique
indexes and the conditions of its own statement give, never what its first half read.
Links need `LinkInv`: tokens are numbered as they are made, two links never share one and
a link that is on has one.

`RealtimeProofs` proves `LockIsExclusive` and `MutationsApplyOnce` for any
attempts, processes, batch size and number of upsets. `ChainInv` says that of the
attempts of a process at most the first of its chain is past the chain; `LeaseInv`
that whoever is in the lock and is not `keyless` owns the key, which only a release that
compares tokens keeps, and neither the end of a lease nor the `DEL` of an eviction breaks;
`CoverInv` that a mutation that is claimed, or that an attempt
is past, is applied, being applied or dropped; `CountInv` that applications and
claimers together are paid for by claims taken.

`RoomSessionsProofs` proves `RoomTypes`, `SlotsStayBounded`, `RosterIsTruthful` and
`LeaversAreAnnounced` for any sockets, boards and bounds. The cap needs only that the
script counts and adds at once, and that every entry has an expiry. The other two rest
on `DetachInv` (a disconnect begins once and takes the context away) and `CalmInv`, which
says of an undisturbed socket that it has one join under way, on whose position its
context depends (`JoinCalm`), and that it is shown, listed and in a room only where its
context is or where a handler is about to detach it (`ShownCalm`, `RosterCalm`).

`RealtimeProofs` also proves `ViewersSeeTheBoardHolds` for any viewers, deliveries and
live moves. The property speaks of viewers that have their snapshot; `Covered` extends
it to the time between reading and sending, when the join holds the snapshot, and
`HeardInv`, `ReadingInv` and `BatchInv` tie audiences, snapshots and handlers to the
board. Entering the room before reading is what makes `Covered` hold when the snapshot
is read.

And it proves `MovesAreSafe` for any sockets, nodes, visits and timers. The invariant
`MovesInv` says of each move that was sent that it is in exactly one of the four places
(an event under way, a buffer, a flush, a cleanup) or settled (`AccountOf`), that each place holds a
move once (`Unique`), and that a socket that is on the board has no cleanup of its own
left (`NoneCleaning`), so that its next cleanup starts empty-handed.

`ServicesProofs` proves `ChangesAreRemembered` for any windows and delays in the order
that the code's have (flush 3 s and debounce 90 s before the minimal interval of 180 s, and
the window of BOARD_MUTATED together with a save shorter than the debounce), any number of
changes, editors, attempts and mishaps. It is the safety half of `PreviewCatchesUp`: unless an
announcement was lost, a job failed for good or a deferral replaced a fresher job, an announced
change that the preview does not show is waiting as an event, or has a job that is due after it
is stored, or is stored and being drawn. Coalescing is what makes this delicate: a change made
while the window is open is announced by no event of its own, and rests on the job of the first
one. `WindowInv` says that this job has more time left than the window and one save together,
`SaveInv` that an unstored change is stored before the job is due, `PictureInv` that a picture
which is out of date has a successor. `NoChangeForgotten` is checked by no run; TLC was run on
it once on the previews' instance of `services`.

The same module proves `ServicesTypes`, the types of the services, from the invariants of
each: a step of one leaves the state of the others alone (`StepsAreOwn`). Types of
`FlushScheduler` are not part of it.

Constants carry the assumptions that TLC evaluates (`TokenConstants`, `RoomConstants`,
`BroadcastConstants`, `ElementAssumption`, `KnownTypes`, `Bounds` and so on).
`AtomicPipeline`, one flushing process, `QuiescentEviction`, `ActiveSockets`, `LoadsInTime`
and `SweepsInTime` are the only assumptions on behaviour. Each is stated in the theorem that
needs it, and section 3 says what happens without it. `TypeOK` of `FlushProtocol` and
`RoomTypeOK` are proved and no longer checked by a run.

Every inductive invariant was checked by TLC on the instance of the run whose properties
it serves before it was proved.

Model-checked only: liveness (`EventuallyDurable`, `Terminates`, `GhostsFade`,
`EveryAttemptEnds`, `HealthyBoardsFlushed`, `EveryMoveSettles`, `PreviewCatchesUp`), which is
out of the prover's reach. `FlushScheduler` has liveness only, and no theorem.

## 5. Not modelled

* Viewer sessions apart from clients: they live equally long and are touched together.
* `getChangesAfter` and the change log it reads: no caller.
* Boards that are deleted in Postgres or have ids that are not UUIDs while they are in
  Redis; the search for eviction candidates across boards;
  `cleanupTransientDataByIdleTime`.
* Loss of Redis data itself, and a pipeline cut off half-way by a lost connection.
* Handshake authentication, identities and colours of sockets, rate limits, payload
  validation, the exchange with Google, the signing of access tokens, dates and currencies,
  organizations, usage limits, names, ordering and mails: data that no property here tells
  apart.
* The list of a user's boards (`catalog.ts` 73-143), which computes access again in one query
  and looks at workspace role and membership in the opposite order, so that list and check
  may differ for somebody who has both.
* The in-process event bus used without Redis, and dead letters that are parked.
* HTTP surface, OpenAPI, metrics, tracing and the drawing of previews hold no state a
  property could be about; the entry points only start and stop what is modelled.

## 6. Plan

What is left, the most valuable first:

1. `FlushProtocol` with an eviction: `flushBoard` deletes the dirty epoch, which then
   repeats values that a flush from before the eviction may compare with.
2. `PATCH /elements`, whose cascade is computed from a read before the mutation lock, as
   a second actor of `MutationBatch`.
3. Proofs: that `BoardLifecycle` implements `DurableBoard` when eviction is quiescent;
   types of `FlushScheduler`.
4. Boards without a row in Postgres, from the first failed flush to their removal.
