----------------------------- MODULE MoveBuffers -----------------------------
(***************************************************************************)
(* The moves of dragged elements on one board: every realtime node keeps   *)
(* them in two buffers, filled by REALTIME_TICK (tick-persistence.ts) and  *)
(* by CRDT_UPDATE (crdt-room.ts), and writes a buffer to the board when a  *)
(* timer fires or when the node sees the room empty, after which it clears *)
(* both.  Joining and leaving are single steps here (RoomSessions has      *)
(* their awaits), with one exception: a socket is on the board, and may    *)
(* send, before the roster has it.                                         *)
(*                                                                         *)
(* Moves are of one element and numbered in the order they are sent, so    *)
(* that a buffer holds at most one, and 0 when it is empty.                *)
(***************************************************************************)
EXTENDS Integers, FiniteSets

CONSTANTS
  DragNodes, Dragging,  \* realtime nodes, sockets that move elements
  NodeOf,               \* [Dragging -> DragNodes]
  MaxMoves,             \* bound on the moves that are sent
  MaxVisits,            \* bound on the times a socket enters the board
  MaxLost               \* bound on the flushes that fail

Kinds  == {"tick", "crdt"}
Timers == {"debounce", "maxWait"}
Moves  == 1..MaxMoves

ASSUME BufferConstants ==
  /\ MaxMoves \in Nat /\ MaxVisits \in Nat /\ MaxLost \in Nat
  /\ NodeOf \in [Dragging -> DragNodes]

VARIABLES
  on,       \* sockets whose context is the board
  visit,    \* boardContextVersion
  admitted, \* the participants hash of the board
  count,    \* moves sent so far
  events,   \* handlers that refresh their socket's activity
  pending,  \* pendingTickMovesByBoard, pendingMoves of the CRDT room
  timers,   \* timers that are armed
  flushes,  \* flushes under way that a timer started
  cleanup,  \* where the cleanup of a leaving socket is, and what it writes
  settled,  \* moves that were written, replaced, ignored or given up
  lost      \* flushes that failed

bufferVars == <<on, visit, admitted, count, events, pending, timers, flushes,
                cleanup, settled, lost>>

Events  == [socket : Dragging, visit : Nat, kind : Kinds, move : Moves]
Flushes == [node : DragNodes, kind : Kinds, move : Moves]
NoCleanup == [step |-> "none", move |-> 0]

(* Types of the state. *)
BufferTypeOK ==
  /\ on \subseteq Dragging /\ admitted \subseteq Dragging
  /\ visit \in [Dragging -> Nat]
  /\ count \in 0..MaxMoves
  /\ events \subseteq Events
  /\ pending \in [DragNodes -> [Kinds -> 0..MaxMoves]]
  /\ timers \in [DragNodes -> [Kinds -> SUBSET Timers]]
  /\ flushes \subseteq Flushes
  /\ cleanup \in [Dragging -> [step : {"none", "size", "tick", "crdt"},
                               move : 0..MaxMoves]]
  /\ settled \subseteq Moves
  /\ lost \in 0..MaxLost

BufferInit ==
  /\ on = {} /\ admitted = {}
  /\ visit = [s \in Dragging |-> 0]
  /\ count = 0 /\ events = {}
  /\ pending = [n \in DragNodes |-> [k \in Kinds |-> 0]]
  /\ timers = [n \in DragNodes |-> [k \in Kinds |-> {}]]
  /\ flushes = {}
  /\ cleanup = [s \in Dragging |-> NoCleanup]
  /\ settled = {} /\ lost = 0

Settle(S) == settled' = settled \cup (S \ {0})

-----------------------------------------------------------------------------
(* Coming: the context is set, then the roster has the socket. *)

EnterBoard(s) ==
  /\ s \notin on /\ cleanup[s] = NoCleanup /\ visit[s] < MaxVisits
  /\ on' = on \cup {s}
  /\ visit' = [visit EXCEPT ![s] = @ + 1]
  /\ UNCHANGED <<admitted, count, events, pending, timers, flushes, cleanup,
                 settled, lost>>

AdmitToBoard(s) ==
  /\ s \in on \ admitted
  /\ admitted' = admitted \cup {s}
  /\ UNCHANGED <<on, visit, count, events, pending, timers, flushes, cleanup,
                 settled, lost>>

(* realtime-tick.handler.ts and crdt-update.handler.ts: the event is       *)
(* accepted, the socket's activity refreshed,                              *)
ReceiveMove(s, k) ==
  /\ s \in on /\ count < MaxMoves
  /\ count' = count + 1
  /\ events' = events \cup {[socket |-> s, visit |-> visit[s], kind |-> k,
                             move |-> count + 1]}
  /\ UNCHANGED <<on, visit, admitted, pending, timers, flushes, cleanup, settled, lost>>

isSnapshotActive(e) == e.socket \in on /\ e.visit = visit[e.socket]

(* scheduleTickPersist and scheduleFlush: the debounce timer is restarted, *)
(* the other one is left running.                                          *)
schedule(n, k) == timers' = [timers EXCEPT ![n][k] = Timers]

(* and unless the socket has left since, the move is queued: queueMoves,   *)
(* applyRemoteUpdate.  Events overtake each other, the refresh of some     *)
(* being throttled away.                                                   *)
QueueMove(e) ==
  LET n == NodeOf[e.socket] IN
  /\ e \in events
  /\ events' = events \ {e}
  /\ IF isSnapshotActive(e)
     THEN /\ pending' = [pending EXCEPT ![n][e.kind] = e.move]
          /\ schedule(n, e.kind)
          /\ Settle({pending[n][e.kind]})
     ELSE Settle({e.move}) /\ UNCHANGED <<pending, timers>>
  /\ UNCHANGED <<on, visit, admitted, count, flushes, cleanup, lost>>

-----------------------------------------------------------------------------
(* flushTickMoves and flush.  The buffer and its timers are cleared before *)
(* the first await; an empty buffer leaves the timers alone.               *)

(* Mutated form of Take: moves and timers are cleared by a later step. *)
TakeLater(n, k, fired) ==
  /\ pending' = pending
  /\ timers' = [timers EXCEPT ![n][k] = IF pending[n][k] = 0 THEN @ \ fired ELSE @]

Take(n, k, fired) ==
  /\ pending' = [pending EXCEPT ![n][k] = 0]
  /\ timers' = [timers EXCEPT ![n][k] = IF pending[n][k] = 0 THEN @ \ fired ELSE {}]

(* Mutated form of TimerFires: nothing is written while the room is empty. *)
TimerFiresInRoom(n, k, t) ==
  /\ t \in timers[n][k] /\ admitted # {}
  /\ Take(n, k, {t})
  /\ flushes' = IF pending[n][k] = 0 THEN flushes
                ELSE flushes \cup {[node |-> n, kind |-> k, move |-> pending[n][k]]}
  /\ UNCHANGED <<on, visit, admitted, count, events, cleanup, settled, lost>>

TimerFires(n, k, t) ==
  /\ t \in timers[n][k]
  /\ Take(n, k, {t})
  /\ flushes' = IF pending[n][k] = 0 THEN flushes
                ELSE flushes \cup {[node |-> n, kind |-> k, move |-> pending[n][k]]}
  /\ UNCHANGED <<on, visit, admitted, count, events, cleanup, settled, lost>>

(* processBatch has applied the moves, *)
FlushEnds(f) ==
  /\ f \in flushes
  /\ flushes' = flushes \ {f}
  /\ Settle({f.move})
  /\ UNCHANGED <<on, visit, admitted, count, events, pending, timers, cleanup, lost>>

(* or it, or loadBoard, has failed, and the moves are gone. *)
FlushFails(f) ==
  /\ f \in flushes /\ lost < MaxLost
  /\ lost' = lost + 1
  /\ flushes' = flushes \ {f}
  /\ Settle({f.move})
  /\ UNCHANGED <<on, visit, admitted, count, events, pending, timers, cleanup>>

-----------------------------------------------------------------------------
(* Leaving, and cleanupBoardRealtimeStateIfEmpty *)

LeaveBoard(s) ==
  /\ s \in on
  /\ on' = on \ {s}
  /\ admitted' = admitted \ {s}
  /\ cleanup' = [cleanup EXCEPT ![s] = [step |-> "size", move |-> 0]]
  /\ UNCHANGED <<visit, count, events, pending, timers, flushes, settled, lost>>

Becomes(s, step, move) ==
  cleanup' = [cleanup EXCEPT ![s] = [step |-> step, move |-> move]]

(* getRoomSize, then the first half of flushTickMoves *)
CleanupSize(s) ==
  LET n == NodeOf[s] IN
  /\ cleanup[s].step = "size"
  /\ IF admitted = {}
     THEN Take(n, "tick", {}) /\ Becomes(s, "tick", pending[n]["tick"])
     ELSE Becomes(s, "none", 0) /\ UNCHANGED <<pending, timers>>
  /\ UNCHANGED <<on, visit, admitted, count, events, flushes, settled, lost>>

(* the ticks are written, then the first half of flushNow *)
CleanupTick(s) ==
  LET n == NodeOf[s] IN
  /\ cleanup[s].step = "tick"
  /\ Take(n, "crdt", {}) /\ Becomes(s, "crdt", pending[n]["crdt"])
  /\ Settle({cleanup[s].move})
  /\ UNCHANGED <<on, visit, admitted, count, events, flushes, lost>>

(* the CRDT moves are written, then clearBoard and clearRoom, which throw  *)
(* away what has been queued since.                                        *)
CleanupClear(s) ==
  LET n == NodeOf[s] IN
  /\ cleanup[s].step = "crdt"
  /\ pending' = [pending EXCEPT ![n] = [k \in Kinds |-> 0]]
  /\ timers' = [timers EXCEPT ![n] = [k \in Kinds |-> {}]]
  /\ Settle({cleanup[s].move} \cup {pending[n][k] : k \in Kinds})
  /\ Becomes(s, "none", 0)
  /\ UNCHANGED <<on, visit, admitted, count, events, flushes, lost>>

(* A flush of the cleanup fails; the rest of the cleanup is not done. *)
CleanupFails(s) ==
  /\ cleanup[s].move # 0 /\ lost < MaxLost
  /\ lost' = lost + 1
  /\ Settle({cleanup[s].move})
  /\ Becomes(s, "none", 0)
  /\ UNCHANGED <<on, visit, admitted, count, events, pending, timers, flushes>>

-----------------------------------------------------------------------------
BufferProgress ==
  \/ \E e \in events : QueueMove(e)
  \/ \E n \in DragNodes, k \in Kinds, t \in Timers : TimerFires(n, k, t)
  \/ \E f \in flushes : FlushEnds(f)
  \/ \E s \in Dragging : CleanupSize(s) \/ CleanupTick(s) \/ CleanupClear(s)

BufferNext ==
  \/ \E s \in Dragging : \/ EnterBoard(s) \/ AdmitToBoard(s) \/ LeaveBoard(s)
                         \/ \E k \in Kinds : ReceiveMove(s, k)
                         \/ CleanupFails(s)
  \/ \E f \in flushes : FlushFails(f)
  \/ BufferProgress

(* Awaits settle and timers fire. *)
BufferSpec == BufferInit /\ [][BufferNext]_bufferVars /\ WF_bufferVars(BufferProgress)

-----------------------------------------------------------------------------
(* Properties. *)

Carried(m) ==
  \/ \E e \in events : e.move = m
  \/ \E n \in DragNodes, k \in Kinds : pending[n][k] = m
  \/ \E f \in flushes : f.move = m
  \/ \E s \in Dragging : cleanup[s].move = m

(* No move vanishes on its way: one that was sent is with a handler, in a  *)
(* buffer or with a flush, until it is written, replaced by another, found *)
(* to come from a socket that left, lost with a failed flush or thrown     *)
(* away by the cleanup.  And it is in one place, so that it is not written *)
(* again after it was settled.                                             *)
MovesAccounted == \A m \in 1..count : Carried(m) <=> m \notin settled

(* A buffer that holds a move has a timer running: whatever flushes and    *)
(* cleanups do at the same time, none of them stops the timer of a move    *)
(* that came after theirs.                                                 *)
NoMoveStranded ==
  \A n \in DragNodes, k \in Kinds : pending[n][k] # 0 => timers[n][k] # {}

(* Both: a move on its way is in one place, and something will take it     *)
(* from there.                                                             *)
MovesSafe == MovesAccounted /\ NoMoveStranded

(* Every move that is sent is settled in the end, so that nothing a user   *)
(* dragged stays in the memory of a node.                                  *)
EveryMoveSettles == \A m \in Moves : (m <= count) ~> (m \in settled)

=============================================================================
