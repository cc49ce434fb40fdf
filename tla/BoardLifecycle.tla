---------------------------- MODULE BoardLifecycle ----------------------------
(***************************************************************************)
(* The life of ONE board's hot state: loaded from Postgres on first use,   *)
(* changed under the board's mutation lock, persisted, and evicted from    *)
(* Redis by the maintenance job once nobody is present.                    *)
(*                                                                         *)
(* Requests are REST calls, which load the board and mutate it without any *)
(* presence, and sockets, which load it, register as clients, mutate it    *)
(* without loading it again, and leave.  One job sweeps idle boards.  The  *)
(* flush itself is one step here: FlushProtocol takes it apart.            *)
(*                                                                         *)
(* Four assumptions about timing that the code does not enforce, each a    *)
(* constant so that a run or a theorem says which it needs.                *)
(* QuiescentEviction: the eviction lock is never taken while a request is  *)
(* in the middle of its work on the board, or while a change made since    *)
(* the sweep's own flush still waits for one.  ActiveSockets: a joined     *)
(* socket sends something before the 90 s of its client lease are over.    *)
(* LoadsInTime, SweepsInTime: a load, and the eviction of one board, are   *)
(* over before the 30 s of their locks, which nobody renews.  The mutation *)
(* lock is renewed by a timer that may be late: it can run out under a     *)
(* holder at any moment.                                                   *)
(*                                                                         *)
(* A change creates or overwrites one element; FlushProtocol also deletes. *)
(***************************************************************************)
EXTENDS Integers, FiniteSets

CONSTANTS
    Elements,
    Rest,               \* REST requests
    Sockets,            \* socket connections
    NoProc,             \* no holder of a lock
    QuiescentEviction,
    ActiveSockets,
    LoadsInTime,
    SweepsInTime,
    MaxWrites,          \* bound: changes applied in one behaviour
    MaxSeq              \* bound: the sequence of the board

Procs == Rest \cup Sockets

ASSUME ElementAssumption == Elements # {}
ASSUME ProcAssumption == Rest \cap Sockets = {} /\ NoProc \notin Procs
ASSUME TimingAssumption ==
    {QuiescentEviction, ActiveSockets, LoadsInTime, SweepsInTime} \subseteq BOOLEAN
ASSUME BoundAssumption == MaxWrites \in Nat /\ MaxSeq \in Nat

VARIABLES
    db,            \* rows of the elements table
    seq,           \* board:<id>:seq; its existence means "loaded"
    hot,           \* board:<id>:elements
    marked,        \* board:<id>:dirty_element_ids
    dirty,         \* boards:dirty and boards:dirty_by_age hold the board
    clients,       \* board:<id>:clients
    collab,        \* board:<id>:collab_mode_until is alive
    recent,        \* last_active, or the last use of seq, is under three minutes old
    loadLock,      \* board:<id>:load_lock
    mutationLock,  \* board:<id>:mutation_lock
    evictionLock,  \* board:<id>:eviction_lock: free, held, or left by a dead sweep
    proc,          \* per request: where it is, what it writes, the rows it selected
    sweep,         \* cleanupInactiveBoards on this board
    writes,        \* changes applied so far; names the content each one writes
    acked          \* content of the last change to each element that was acknowledged

locks == <<loadLock, mutationLock, evictionLock>>
presence == <<clients, collab, recent>>
board == <<seq, hot, marked, dirty>>
vars == <<db, board, presence, locks, proc, sweep, writes, acked>>

-----------------------------------------------------------------------------
NoKey == -1
Absent == -1
Content == {Absent} \cup Nat

Keys == {"seq", "elements", "markers", "clients", "collab", "loadLock", "mutationLock",
         "evictionLock"}

EmptyHash == [e \in Elements |-> Absent]

ProcSteps == {"idle", "load", "loadSeq", "loadLock", "loadWait", "loadRecheck", "loadSelect",
              "loadVerify", "loadWrite", "loadRelease", "track", "joined", "lock", "mode",
              "await", "incr", "pipeline", "persist", "rearm", "ack", "drain", "dead"}
SweepSteps == {"idle", "persist", "lock", "check", "scan", "scanning", "del", "unindex",
               "release"}

Request(at, el, rows, content, solo) ==
    [at |-> at, el |-> el, rows |-> rows, content |-> content, solo |-> solo]

(* Every step but the last few of a request carries only the element to write. *)
Fresh(at, el) == Request(at, el, EmptyHash, 0, FALSE)

AnyElement == CHOOSE e \in Elements : TRUE
Idle == Fresh("idle", AnyElement)
Joined == Fresh("joined", AnyElement)
Rested(p) == IF p \in Sockets THEN Joined ELSE Idle

(* Types of the state: keys of Redis, rows, requests and the sweep. *)
TypeOK ==
    /\ db \in [Elements -> Content]
    /\ seq \in {NoKey} \cup Nat
    /\ hot \in [Elements -> Content]
    /\ marked \subseteq Elements
    /\ dirty \in BOOLEAN
    /\ clients \subseteq Sockets
    /\ collab \in BOOLEAN
    /\ recent \in BOOLEAN
    /\ loadLock \in Procs \cup {NoProc}
    /\ mutationLock \in Procs \cup {NoProc}
    /\ evictionLock \in {"free", "held", "orphan"}
    /\ proc \in [Procs -> [at : ProcSteps, el : Elements, rows : [Elements -> Content],
                           content : Nat, solo : BOOLEAN]]
    /\ sweep \in [at : SweepSteps, found : SUBSET Keys]
    /\ writes \in 0..MaxWrites
    /\ acked \in [Elements -> Nat]

(* A board that exists in Postgres and is not loaded. *)
Init ==
    /\ db \in [Elements -> {Absent, 0}]
    /\ seq = NoKey
    /\ hot = EmptyHash
    /\ marked = {}
    /\ dirty = FALSE
    /\ clients = {}
    /\ collab = FALSE
    /\ recent = FALSE
    /\ loadLock = NoProc
    /\ mutationLock = NoProc
    /\ evictionLock = "free"
    /\ proc = [p \in Procs |-> Idle]
    /\ sweep = [at |-> "idle", found |-> {}]
    /\ writes = 0
    /\ acked = [e \in Elements |-> 0]

-----------------------------------------------------------------------------
At(p, step) == proc[p].at = step

Goto(p, step) == proc' = [proc EXCEPT ![p].at = step]

(* waitForBoardLoad returns: also on a board that is not loaded, provided   *)
(* nobody is loading it.                                                    *)
CanProceed ==
    /\ evictionLock = "free"
    /\ seq # NoKey \/ loadLock = NoProc

(* Mutant: onConflictDoNothing, which leaves the row of a known element. *)
PersistInsertOnly ==
    /\ dirty' = FALSE
    /\ db' = [e \in Elements |-> IF e \in marked /\ db[e] = Absent THEN hot[e] ELSE db[e]]
    /\ marked' = {}
    /\ UNCHANGED <<seq, hot>>

(* Mutant: the hash replaces the table, whatever the markers say. *)
PersistEverything ==
    /\ dirty' = FALSE
    /\ db' = IF seq = NoKey THEN db ELSE hot
    /\ marked' = IF seq = NoKey THEN marked ELSE {}
    /\ UNCHANGED <<seq, hot>>

(* persistBoard as one step.  A board without a sequence key is taken off   *)
(* the indexes and reported as persisted; a marked element that the hash    *)
(* does not hold is deleted from the table.                                 *)
Persist ==
    /\ dirty' = FALSE
    /\ IF seq = NoKey
       THEN UNCHANGED <<db, marked>>
       ELSE /\ db' = [e \in Elements |-> IF e \in marked THEN hot[e] ELSE db[e]]
            /\ marked' = {}
    /\ UNCHANGED <<seq, hot>>

-----------------------------------------------------------------------------
(* loadBoard *)

(* A request arrives; the element it will change is its input. *)
Arrive(p) ==
    /\ At(p, "idle")
    /\ \E e \in Elements : proc' = [proc EXCEPT ![p] = Fresh("load", e)]
    /\ UNCHANGED <<db, board, presence, locks, sweep, writes, acked>>

AfterLoad(p) == IF p \in Sockets THEN "track" ELSE "lock"

(* Each look at a key is a round trip of its own. *)
LoadCheck(p) ==
    /\ At(p, "load")
    /\ evictionLock = "free"
    /\ Goto(p, "loadSeq")
    /\ UNCHANGED <<db, board, presence, locks, sweep, writes, acked>>

LoadCheckSeq(p) ==
    /\ At(p, "loadSeq")
    /\ Goto(p, IF seq # NoKey THEN AfterLoad(p) ELSE "loadLock")
    /\ UNCHANGED <<db, board, presence, locks, sweep, writes, acked>>

(* Mutant: SET without NX. *)
LoadAcquireAlways(p) ==
    /\ At(p, "loadLock")
    /\ loadLock' = p
    /\ Goto(p, "loadRecheck")
    /\ UNCHANGED <<db, board, presence, mutationLock, evictionLock, sweep, writes, acked>>

(* acquireBoardLoadLock: SET NX PX *)
LoadAcquire(p) ==
    /\ At(p, "loadLock")
    /\ loadLock' = IF loadLock = NoProc THEN p ELSE loadLock
    /\ Goto(p, IF loadLock = NoProc THEN "loadRecheck" ELSE "loadWait")
    /\ UNCHANGED <<db, board, presence, mutationLock, evictionLock, sweep, writes, acked>>

LoadWait(p) ==
    /\ At(p, "loadWait")
    /\ CanProceed
    /\ Goto(p, "load")
    /\ UNCHANGED <<db, board, presence, locks, sweep, writes, acked>>

LoadRecheck(p) ==
    /\ At(p, "loadRecheck")
    /\ Goto(p, IF seq # NoKey THEN "loadRelease" ELSE "loadSelect")
    /\ UNCHANGED <<db, board, presence, locks, sweep, writes, acked>>

LoadSelect(p) ==
    /\ At(p, "loadSelect")
    /\ proc' = [proc EXCEPT ![p].at = "loadVerify", ![p].rows = db]
    /\ UNCHANGED <<db, board, presence, locks, sweep, writes, acked>>

(* The second look at the sequence key, after the rows have been read... *)
LoadVerify(p) ==
    /\ At(p, "loadVerify")
    /\ Goto(p, IF seq # NoKey THEN "loadRelease" ELSE "loadWrite")
    /\ UNCHANGED <<db, board, presence, locks, sweep, writes, acked>>

(* ... is not one command with the pipeline that writes them. *)
LoadWrite(p) ==
    /\ At(p, "loadWrite")
    /\ hot' = [e \in Elements |-> IF proc[p].rows[e] # Absent THEN proc[p].rows[e] ELSE hot[e]]
    /\ seq' = 0
    /\ recent' = TRUE
    /\ Goto(p, "loadRelease")
    /\ UNCHANGED <<db, marked, dirty, clients, collab, locks, sweep, writes, acked>>

(* releaseBoardLoadLock: only a key that still holds the token is deleted. *)
LoadRelease(p) ==
    /\ At(p, "loadRelease")
    /\ loadLock' = IF loadLock = p THEN NoProc ELSE loadLock
    /\ proc' = [proc EXCEPT ![p] = Fresh(AfterLoad(p), proc[p].el)]
    /\ UNCHANGED <<db, board, presence, mutationLock, evictionLock, sweep, writes, acked>>

-----------------------------------------------------------------------------
(* Presence *)

(* The collab marker is alive, or two participants are present. *)
InCollab == collab \/ Cardinality(clients) >= 2

(* Mutant: the member is built without the connection. *)
TrackNoConnection(p) ==
    /\ CanProceed
    /\ clients' = clients \cup {NoProc}
    /\ collab' = (collab \/ Cardinality(clients \cup {NoProc}) >= 2)
    /\ recent' = TRUE

(* SADD of the member and SET of its lease; a second client starts collab   *)
(* mode.  touchViewerSession, always called with it, adds a session with    *)
(* the same life and sets last_active.                                      *)
TrackClient(p) ==
    /\ CanProceed
    /\ clients' = clients \cup {p}
    /\ collab' = (collab \/ Cardinality(clients \cup {p}) >= 2)
    /\ recent' = TRUE

Track(p) ==
    /\ At(p, "track")
    /\ TrackClient(p)
    /\ proc' = [proc EXCEPT ![p] = Joined]
    /\ UNCHANGED <<db, board, locks, sweep, writes, acked>>

(* refreshSocketActivity, throttled, on a cursor move or a selection. *)
Refresh(p) ==
    /\ At(p, "joined")
    /\ TrackClient(p)
    /\ UNCHANGED <<db, board, locks, proc, sweep, writes, acked>>

(* The lease of a socket that is connected but sends nothing runs out, and  *)
(* pruneStaleClients forgets it: the heartbeat renews only the roster.      *)
QuietLeaseExpires(p) ==
    /\ ~ActiveSockets
    /\ At(p, "joined")
    /\ p \in clients
    /\ clients' = clients \ {p}
    /\ UNCHANGED <<db, board, collab, recent, locks, proc, sweep, writes, acked>>

(* detachFromBoard: removeClient, then persistBoardOnGlobalDrain. *)
Leave(p) ==
    /\ At(p, "joined")
    /\ CanProceed
    /\ clients' = clients \ {p}
    /\ Goto(p, "drain")
    /\ UNCHANGED <<db, board, collab, recent, locks, sweep, writes, acked>>

Drain(p) ==
    /\ At(p, "drain")
    /\ CanProceed
    /\ IF Cardinality(clients) <= 1 THEN Persist ELSE UNCHANGED <<db, board>>
    /\ proc' = [proc EXCEPT ![p] = Idle]
    /\ UNCHANGED <<presence, locks, sweep, writes, acked>>

(* The 90 s of the collab marker run out. *)
CollabExpires ==
    /\ collab
    /\ collab' = FALSE
    /\ UNCHANGED <<db, board, clients, recent, locks, proc, sweep, writes, acked>>

-----------------------------------------------------------------------------
(* A mutation: processBatch under withBoardMutationLock *)

(* The handler refreshes the client lease, unless throttled, and does not   *)
(* load the board.                                                          *)
SocketMutates(p) ==
    /\ At(p, "joined")
    /\ TrackClient(p) \/ UNCHANGED presence
    /\ \E e \in Elements : proc' = [proc EXCEPT ![p] = Fresh("lock", e)]
    /\ UNCHANGED <<db, board, locks, sweep, writes, acked>>

Lock(p) ==
    /\ At(p, "lock")
    /\ mutationLock = NoProc
    /\ mutationLock' = p
    /\ Goto(p, "mode")
    /\ UNCHANGED <<db, board, presence, loadLock, evictionLock, sweep, writes, acked>>

(* 503 after two seconds *)
LockTimesOut(p) ==
    /\ At(p, "lock")
    /\ mutationLock # NoProc
    /\ proc' = [proc EXCEPT ![p] = Rested(p)]
    /\ UNCHANGED <<db, board, presence, locks, sweep, writes, acked>>

(* getSyncWriteMode; with two clients it also extends the marker. *)
GetSyncWriteMode(p) ==
    /\ At(p, "mode")
    /\ CanProceed
    /\ collab' = InCollab
    /\ proc' = [proc EXCEPT ![p].at = "await", ![p].solo = ~InCollab]
    /\ UNCHANGED <<db, board, clients, recent, locks, sweep, writes, acked>>

(* getSequence waits, as every operation on the board does... *)
AwaitLoad(p) ==
    /\ At(p, "await")
    /\ CanProceed
    /\ Goto(p, "incr")
    /\ UNCHANGED <<db, board, presence, locks, sweep, writes, acked>>

(* ... and then sends INCR, which creates the key when it is missing. *)
Incr(p) ==
    /\ At(p, "incr")
    /\ writes < MaxWrites /\ seq < MaxSeq
    /\ seq' = IF seq = NoKey THEN 1 ELSE seq + 1
    /\ Goto(p, "pipeline")
    /\ recent' = (recent \/ seq = NoKey)
    /\ UNCHANGED <<db, hot, marked, dirty, clients, collab, locks, sweep, writes, acked>>

Pipeline(p) ==
    /\ At(p, "pipeline")
    /\ writes < MaxWrites
    /\ writes' = writes + 1
    /\ hot' = [hot EXCEPT ![proc[p].el] = writes + 1]
    /\ marked' = marked \cup {proc[p].el}
    /\ dirty' = TRUE
    /\ recent' = TRUE
    /\ proc' = [proc EXCEPT ![p].at = IF proc[p].solo THEN "persist" ELSE "rearm",
                            ![p].content = writes + 1]
    /\ UNCHANGED <<db, seq, clients, collab, locks, sweep, acked>>

PersistSolo(p) ==
    /\ At(p, "persist")
    /\ CanProceed
    /\ Persist
    /\ Goto(p, "rearm")
    /\ UNCHANGED <<presence, locks, sweep, writes, acked>>

(* Postgres refuses: the request fails and its change stays marked. *)
PersistSoloFails(p) ==
    /\ At(p, "persist")
    /\ mutationLock' = IF mutationLock = p THEN NoProc ELSE mutationLock
    /\ proc' = [proc EXCEPT ![p] = Rested(p)]
    /\ UNCHANGED <<db, board, presence, loadLock, evictionLock, sweep, writes, acked>>

(* extendCollabMode after a collab batch, rearmCollabModeIfActive after a   *)
(* solo one.                                                                *)
RearmCollabMode(p) ==
    /\ At(p, "rearm")
    /\ proc[p].solo /\ ~collab => CanProceed
    /\ collab' = (~proc[p].solo \/ InCollab)
    /\ Goto(p, "ack")
    /\ UNCHANGED <<db, board, clients, recent, locks, sweep, writes, acked>>

(* releaseMutationLock by token; the caller is told "applied". *)
Ack(p) ==
    /\ At(p, "ack")
    /\ mutationLock' = IF mutationLock = p THEN NoProc ELSE mutationLock
    /\ acked' = [acked EXCEPT ![proc[p].el] = proc[p].content]
    /\ proc' = [proc EXCEPT ![p] = Rested(p)]
    /\ UNCHANGED <<db, board, presence, loadLock, evictionLock, sweep, writes>>

-----------------------------------------------------------------------------
(* Processes die; what they held in Redis runs out. *)

Dies(p) ==
    /\ proc[p].at \notin {"idle", "dead"}
    /\ proc' = [proc EXCEPT ![p] = Fresh("dead", AnyElement)]
    /\ UNCHANGED <<db, board, presence, locks, sweep, writes, acked>>

(* The 30 s of the load lock, counted from its SET. *)
LoadLockExpires(p) ==
    /\ loadLock = p
    /\ LoadsInTime => At(p, "dead")
    /\ loadLock' = NoProc
    /\ UNCHANGED <<db, board, presence, mutationLock, evictionLock, proc, sweep, writes, acked>>

(* The 30 s of the mutation lock, counted from its last renewal. *)
MutationLockExpires(p) ==
    /\ mutationLock = p
    /\ mutationLock' = NoProc
    /\ UNCHANGED <<db, board, presence, loadLock, evictionLock, proc, sweep, writes, acked>>

(* The 90 s of the client lease, longer than the locks and than a sweep. *)
LeaseExpires(p) ==
    /\ At(p, "dead")
    /\ p \notin {loadLock, mutationLock}
    /\ sweep.at = "idle"
    /\ clients' = clients \ {p}
    /\ proc' = [proc EXCEPT ![p] = Idle]
    /\ UNCHANGED <<db, board, collab, recent, locks, sweep, writes, acked>>

(* The worker's repeatable flush of boards:dirty_by_age. *)
WorkerFlush ==
    /\ dirty
    /\ CanProceed
    /\ Persist
    /\ UNCHANGED <<presence, locks, proc, sweep, writes, acked>>

-----------------------------------------------------------------------------
(* cleanupInactiveBoards and flushBoard with requireIdle *)

SweepAt(step) == sweep' = [sweep EXCEPT !.at = step]

(* Three minutes without activity: whatever lives shorter is over by then,   *)
(* be it a request, a lock, a client lease or the collab marker.             *)
ThreeIdleMinutes ==
    /\ recent
    /\ \A p \in Procs : proc[p].at \in {"idle", "dead", "joined"}
    /\ clients = {} /\ ~collab
    /\ loadLock = NoProc /\ mutationLock = NoProc /\ evictionLock = "free"
    /\ sweep.at = "idle"
    /\ recent' = FALSE
    /\ UNCHANGED <<db, board, clients, collab, locks, proc, sweep, writes, acked>>

(* findInactiveBoardCandidates, then the count of clients and viewers. *)
SweepStart ==
    /\ sweep.at = "idle"
    /\ ~recent
    /\ CanProceed
    /\ seq # NoKey
    /\ clients = {}
    /\ SweepAt("persist")
    /\ UNCHANGED <<db, board, presence, locks, proc, writes, acked>>

SweepPersist ==
    /\ sweep.at = "persist"
    /\ CanProceed
    /\ Persist
    /\ SweepAt("lock")
    /\ UNCHANGED <<presence, locks, proc, writes, acked>>

(* No change waits for a flush, and no request is between its last look at  *)
(* the eviction lock and its last write to the board.                       *)
Quiescent ==
    /\ ~dirty
    /\ \A p \in Procs :
         proc[p].at \in {"idle", "dead", "load", "loadWait", "joined", "drain"}

(* acquireEvictionLock; when it is taken flushBoard returns. *)
SweepLock ==
    /\ sweep.at = "lock"
    /\ QuiescentEviction => Quiescent
    /\ evictionLock' = IF evictionLock = "free" THEN "held" ELSE evictionLock
    /\ SweepAt(IF evictionLock = "free" THEN "check" ELSE "idle")
    /\ UNCHANGED <<db, board, presence, loadLock, mutationLock, proc, writes, acked>>

(* Mutant: requireIdle is not passed on. *)
SweepCheckSkipped ==
    /\ sweep.at = "check"
    /\ SweepAt("scan")
    /\ UNCHANGED <<db, board, presence, locks, proc, writes, acked>>

(* isBoardIdleForFlush *)
SweepCheck ==
    /\ sweep.at = "check"
    /\ SweepAt(IF clients = {} THEN "scan" ELSE "release")
    /\ UNCHANGED <<db, board, presence, locks, proc, writes, acked>>

PresentKeys ==
    {k \in Keys :
        \/ k = "seq" /\ seq # NoKey
        \/ k = "elements" /\ hot # EmptyHash
        \/ k = "markers" /\ marked # {}
        \/ k = "clients" /\ clients # {}
        \/ k = "collab" /\ collab
        \/ k = "loadLock" /\ loadLock # NoProc
        \/ k = "mutationLock" /\ mutationLock # NoProc
        \/ k = "evictionLock" /\ evictionLock # "free"}

(* SCAN returns every key that exists from its beginning to its end, and     *)
(* may or may not return one that was created in the meantime.               *)
ScanBegin ==
    /\ sweep.at = "scan"
    /\ sweep' = [at |-> "scanning", found |-> PresentKeys]
    /\ UNCHANGED <<db, board, presence, locks, proc, writes, acked>>

ScanEnd ==
    /\ sweep.at = "scanning"
    /\ \E new \in SUBSET (PresentKeys \ sweep.found) :
         sweep' = [at |-> "del", found |-> sweep.found \cup new]
    /\ UNCHANGED <<db, board, presence, locks, proc, writes, acked>>

Gone(k) == k \in sweep.found

(* Mutant: the sequence key outlives the rest of the board. *)
DeleteKeepsSeq ==
    /\ sweep.at = "del"
    /\ hot' = IF Gone("elements") THEN EmptyHash ELSE hot
    /\ marked' = IF Gone("markers") THEN {} ELSE marked
    /\ clients' = IF Gone("clients") THEN {} ELSE clients
    /\ evictionLock' = IF Gone("evictionLock") THEN "free" ELSE evictionLock
    /\ sweep' = [at |-> "unindex", found |-> {}]
    /\ UNCHANGED <<db, seq, dirty, collab, recent, loadLock, mutationLock, proc, writes, acked>>

(* DEL of the keys found, the locks of other processes among them. *)
Delete ==
    /\ sweep.at = "del"
    /\ seq' = IF Gone("seq") THEN NoKey ELSE seq
    /\ hot' = IF Gone("elements") THEN EmptyHash ELSE hot
    /\ marked' = IF Gone("markers") THEN {} ELSE marked
    /\ clients' = IF Gone("clients") THEN {} ELSE clients
    /\ collab' = (collab /\ ~Gone("collab"))
    /\ loadLock' = IF Gone("loadLock") THEN NoProc ELSE loadLock
    /\ mutationLock' = IF Gone("mutationLock") THEN NoProc ELSE mutationLock
    /\ evictionLock' = IF Gone("evictionLock") THEN "free" ELSE evictionLock
    /\ sweep' = [at |-> "unindex", found |-> {}]
    /\ UNCHANGED <<db, dirty, recent, proc, writes, acked>>

Unindex ==
    /\ sweep.at = "unindex"
    /\ dirty' = FALSE
    /\ SweepAt("release")
    /\ UNCHANGED <<db, seq, hot, marked, presence, locks, proc, writes, acked>>

(* releaseEvictionLock by token *)
SweepRelease ==
    /\ sweep.at = "release"
    /\ evictionLock' = IF evictionLock = "held" THEN "free" ELSE evictionLock
    /\ SweepAt("idle")
    /\ UNCHANGED <<db, board, presence, loadLock, mutationLock, proc, writes, acked>>

SweepDies ==
    /\ sweep.at # "idle"
    /\ evictionLock' = IF evictionLock = "held" THEN "orphan" ELSE evictionLock
    /\ sweep' = [at |-> "idle", found |-> {}]
    /\ UNCHANGED <<db, board, presence, loadLock, mutationLock, proc, writes, acked>>

(* The 30 s of the eviction lock, counted from its SET. *)
EvictionLockExpires ==
    /\ evictionLock # "free"
    /\ SweepsInTime => evictionLock = "orphan"
    /\ evictionLock' = "free"
    /\ UNCHANGED <<db, board, presence, loadLock, mutationLock, proc, sweep, writes, acked>>

-----------------------------------------------------------------------------
Load(p) ==
    \/ LoadCheck(p) \/ LoadCheckSeq(p) \/ LoadAcquire(p) \/ LoadWait(p) \/ LoadRecheck(p)
    \/ LoadSelect(p) \/ LoadVerify(p) \/ LoadWrite(p) \/ LoadRelease(p)

Mutate(p) ==
    \/ Lock(p) \/ LockTimesOut(p) \/ GetSyncWriteMode(p) \/ AwaitLoad(p) \/ Incr(p) \/ Pipeline(p)
    \/ PersistSolo(p) \/ PersistSoloFails(p) \/ RearmCollabMode(p) \/ Ack(p)

Socket(p) ==
    \/ Track(p) \/ Refresh(p) \/ QuietLeaseExpires(p) \/ SocketMutates(p)
    \/ Leave(p) \/ Drain(p)

Sweep ==
    \/ SweepStart \/ SweepPersist \/ SweepLock \/ SweepCheck \/ ScanBegin \/ ScanEnd
    \/ Delete \/ Unindex \/ SweepRelease

Next ==
    \/ \E p \in Procs : Arrive(p) \/ Load(p) \/ Mutate(p) \/ Dies(p)
                        \/ LoadLockExpires(p) \/ MutationLockExpires(p) \/ LeaseExpires(p)
    \/ \E p \in Sockets : Socket(p)
    \/ CollabExpires
    \/ WorkerFlush
    \/ ThreeIdleMinutes
    \/ Sweep
    \/ SweepDies
    \/ EvictionLockExpires

Spec == Init /\ [][Next]_vars

-----------------------------------------------------------------------------
(* Properties *)

(* What a reader of the board gets: the hash when the board is loaded, what *)
(* loadBoard would copy into it otherwise.                                  *)
Visible(e) == IF seq # NoKey THEN hot[e] ELSE db[e]

(* An acknowledged change is never lost: the element shows that change or a *)
(* later one, through any number of evictions and loads.                    *)
AckedSurvives == \A e \in Elements : acked[e] > 0 => Visible(e) >= acked[e]

(* A loaded board is complete: an element without a marker has in the hash  *)
(* exactly the content of its row.                                          *)
LoadedComplete ==
    seq # NoKey => \A e \in Elements \ marked : hot[e] = db[e]

(* A load never clobbers a board that is already in use: the sequence of a  *)
(* board that stays loaded does not go back.                                *)
LoadNeverClobbers == [][seq # NoKey /\ seq' # NoKey => seq' >= seq]_vars

(* No request here deletes anything, so no row may ever be erased.           *)
RowsNeverErased == [][\A e \in Elements : db[e] # Absent => db[e]' # Absent]_vars

(* A board is evicted only when no socket is on it: cleanupInactiveBoards    *)
(* and requireIdle are there to skip boards that still have clients.         *)
EvictsOnlyDeserted ==
    [][seq # NoKey /\ seq' = NoKey =>
         \A p \in Sockets : proc[p].at \in {"idle", "dead", "load", "loadWait", "drain"}]_vars

=============================================================================
