---------------------------- MODULE RoomBroadcast ----------------------------
(***************************************************************************)
(* What the viewers of one board get to see.  A socket enters the board's  *)
(* room and then reads a snapshot; the changes of others reach it as       *)
(* broadcasts to the room, which carry no sequence number and may overtake *)
(* the snapshot or each other.  A mutation batch is applied first and      *)
(* broadcast after the mutation lock is released; a realtime tick or a     *)
(* CRDT update is broadcast at once and applied when its buffer is         *)
(* flushed; a change made over REST is not broadcast.  The client is       *)
(* external: it keeps what it was sent since it entered.                   *)
(***************************************************************************)
EXTENDS Naturals

CONSTANTS
  Viewers,        \* sockets that watch the board
  Batches,        \* deliveries of mutation batches
  OverRest,       \* the ones that come over REST
  EditOf,         \* the mutation a delivery carries; a retry carries it again
  LiveMoves,      \* moves of realtime ticks and CRDT updates
  MaxEntries      \* bound on the times a viewer enters

Edits == {EditOf[b] : b \in Batches}

ASSUME BroadcastConstants ==
  /\ OverRest \subseteq Batches
  /\ Edits \cap LiveMoves = {}
  /\ MaxEntries \in Nat

VARIABLES
  batch,     \* where the handler of each delivery is
  claimed,   \* mutations whose id is claimed
  board,     \* changes that the elements hash has
  silent,    \* changes applied without a broadcast
  refused,   \* mutations that the lock check has refused
  buffered,  \* moves broadcast and not yet applied
  watching,  \* how far the join of each viewer is
  entries,   \* how often each viewer has entered
  reading,   \* the snapshot a join has read and not yet sent
  wire,      \* broadcasts under way to each viewer
  received,  \* what each viewer was sent since it entered
  audience   \* who was in the room when a move was broadcast

broadcastVars == <<batch, claimed, board, silent, refused, buffered, watching, entries,
                   reading, wire, received, audience>>

Things == Edits \cup LiveMoves

(* Types of the state. *)
BroadcastTypeOK ==
  /\ batch \in [Batches -> {"new", "received", "claimed", "applied", "refused",
                            "repeated", "done"}]
  /\ board \subseteq Things /\ silent \subseteq Things
  /\ refused \subseteq Edits /\ claimed \subseteq Edits /\ buffered \subseteq LiveMoves
  /\ watching \in [Viewers -> {"out", "entered", "read", "shown"}]
  /\ entries \in [Viewers -> 0..MaxEntries]
  /\ reading \in [Viewers -> SUBSET Things]
  /\ wire \in [Viewers -> SUBSET Things]
  /\ received \in [Viewers -> SUBSET Things]
  /\ audience \in [LiveMoves -> SUBSET Viewers]

BroadcastInit ==
  /\ batch = [b \in Batches |-> "new"]
  /\ claimed = {} /\ board = {} /\ silent = {} /\ refused = {} /\ buffered = {}
  /\ watching = [v \in Viewers |-> "out"]
  /\ entries = [v \in Viewers |-> 0]
  /\ reading = [v \in Viewers |-> {}]
  /\ wire = [v \in Viewers |-> {}]
  /\ received = [v \in Viewers |-> {}]
  /\ audience = [t \in LiveMoves |-> {}]

viewerVars == <<watching, entries, reading, wire, received, audience>>

Room == {v \in Viewers : watching[v] # "out"}

(* Mutated form of safeEmitToBoard: only to sockets whose join has ended. *)
EmitToJoined(c) ==
  wire' = [v \in Viewers |-> IF watching[v] = "shown" THEN wire[v] \cup {c} ELSE wire[v]]

(* socket.to(boardId).emit: everybody in the room at that moment. *)
safeEmitToBoard(c) ==
  wire' = [v \in Viewers |-> IF v \in Room THEN wire[v] \cup {c} ELSE wire[v]]

-----------------------------------------------------------------------------
(* The handler of a mutation batch, and the REST route. *)

Goes(b, from, to) == batch[b] = from /\ batch' = [batch EXCEPT ![b] = to]

(* The context is there and may edit, and stays so while the activity is   *)
(* refreshed.                                                              *)
ReceiveBatch(b) ==
  /\ Goes(b, "new", "received")
  /\ UNCHANGED <<claimed, board, silent, refused, buffered, viewerVars>>

(* A mutation that was claimed before is answered already_applied. *)
ClaimEdit(b) ==
  /\ IF EditOf[b] \in claimed THEN Goes(b, "received", "repeated")
                              ELSE Goes(b, "received", "claimed")
  /\ claimed' = claimed \cup {EditOf[b]}
  /\ UNCHANGED <<board, silent, refused, buffered, viewerVars>>

(* A refused mutation is answered applied, too. *)
RefuseEdit(b) ==
  /\ Goes(b, "claimed", "refused")
  /\ refused' = refused \cup {EditOf[b]}
  /\ UNCHANGED <<claimed, board, silent, buffered, viewerVars>>

ApplyEdit(b) ==
  /\ Goes(b, "claimed", "applied")
  /\ board' = board \cup {EditOf[b]}
  /\ UNCHANGED <<claimed, silent, refused, buffered, viewerVars>>

(* The handler ends and the room hears nothing of its change. *)
Unannounced(b) ==
  /\ batch' = [batch EXCEPT ![b] = "done"]
  /\ silent' = IF batch[b] = "applied" THEN silent \cup {EditOf[b]} ELSE silent
  /\ UNCHANGED <<claimed, board, refused, buffered, viewerVars>>

(* processBatch throws: before the change, or after it when the solo       *)
(* flush, the re-arming or the release of the lock fails.                  *)
BatchFails(b) ==
  /\ batch[b] \in {"received", "claimed", "applied", "refused", "repeated"}
  /\ Unannounced(b)

(* The sender has left, or joined again, while the batch was processed. *)
SenderLeft(b) ==
  /\ b \notin OverRest /\ batch[b] \in {"received", "applied", "refused", "repeated"}
  /\ Unannounced(b)

(* The REST route answers its client and sends nothing to the room. *)
RestResponds(b) ==
  /\ b \in OverRest /\ batch[b] \in {"applied", "refused", "repeated"}
  /\ Unannounced(b)

(* The broadcasts of a batch: all but the repeated mutations, the refused  *)
(* ones included.                                                          *)
BroadcastBatch(b) ==
  /\ b \notin OverRest /\ batch[b] \in {"applied", "refused", "repeated"}
  /\ batch' = [batch EXCEPT ![b] = "done"]
  /\ IF batch[b] = "repeated" THEN UNCHANGED wire ELSE safeEmitToBoard(EditOf[b])
  /\ UNCHANGED <<claimed, board, silent, refused, buffered, watching, entries, reading,
                 received, audience>>

-----------------------------------------------------------------------------
(* The handlers of realtime ticks and CRDT updates: into the buffer, and   *)
(* to the room.                                                            *)
BroadcastMove(t) ==
  /\ t \notin buffered \cup board \cup silent
  /\ buffered' = buffered \cup {t}
  /\ safeEmitToBoard(t)
  /\ audience' = [audience EXCEPT ![t] = Room]
  /\ UNCHANGED <<batch, claimed, board, silent, refused, watching, entries, reading,
                 received>>

(* The flush of the buffer applies a move, and broadcasts nothing; or it   *)
(* fails, and the move is lost (MoveBuffers).                              *)
FlushMove(t) ==
  /\ t \in buffered
  /\ buffered' = buffered \ {t}
  /\ \/ board' = board \cup {t} /\ UNCHANGED silent
     \/ silent' = silent \cup {t} /\ UNCHANGED board
  /\ UNCHANGED <<batch, claimed, refused, viewerVars>>

-----------------------------------------------------------------------------
(* Viewers: socket.join comes first, the snapshot last.  A second join of  *)
(* a socket that is in the room starts over; the first one then ends       *)
(* without its snapshot.                                                   *)

EnterRoom(v) ==
  /\ entries[v] < MaxEntries
  /\ entries' = [entries EXCEPT ![v] = @ + 1]
  /\ watching' = [watching EXCEPT ![v] = "entered"]
  /\ reading' = [reading EXCEPT ![v] = {}]
  /\ UNCHANGED <<wire, received, audience, batch, claimed, board, silent, refused,
                 buffered>>

(* getSnapshot: the elements and the sequence in one transaction. *)
getSnapshot(v) ==
  /\ watching[v] = "entered"
  /\ watching' = [watching EXCEPT ![v] = "read"]
  /\ reading' = [reading EXCEPT ![v] = board]
  /\ UNCHANGED <<entries, wire, received, audience, batch, claimed, board, silent,
                 refused, buffered>>

SendSnapshot(v) ==
  /\ watching[v] = "read"
  /\ watching' = [watching EXCEPT ![v] = "shown"]
  /\ received' = [received EXCEPT ![v] = @ \cup reading[v]]
  /\ reading' = [reading EXCEPT ![v] = {}]
  /\ UNCHANGED <<entries, wire, audience, batch, claimed, board, silent, refused,
                 buffered>>

DeliverTo(v, c) ==
  /\ c \in wire[v]
  /\ wire' = [wire EXCEPT ![v] = @ \ {c}]
  /\ received' = [received EXCEPT ![v] = @ \cup {c}]
  /\ UNCHANGED <<watching, entries, reading, audience, batch, claimed, board, silent,
                 refused, buffered>>

(* The viewer is refused for want of room, moves to another board or       *)
(* disconnects.                                                            *)
LeaveRoom(v) ==
  /\ v \in Room
  /\ watching' = [watching EXCEPT ![v] = "out"]
  /\ reading' = [reading EXCEPT ![v] = {}]
  /\ wire' = [wire EXCEPT ![v] = {}]
  /\ received' = [received EXCEPT ![v] = {}]
  /\ audience' = [t \in LiveMoves |-> audience[t] \ {v}]
  /\ UNCHANGED <<entries, batch, claimed, board, silent, refused, buffered>>

-----------------------------------------------------------------------------
BatchStep(b) ==
  \/ ReceiveBatch(b) \/ ClaimEdit(b) \/ RefuseEdit(b) \/ ApplyEdit(b)
  \/ BatchFails(b) \/ SenderLeft(b) \/ RestResponds(b) \/ BroadcastBatch(b)

MoveStep(t) == BroadcastMove(t) \/ FlushMove(t)

ViewerStep(v) ==
  \/ EnterRoom(v) \/ getSnapshot(v) \/ SendSnapshot(v) \/ LeaveRoom(v)
  \/ \E c \in wire[v] : DeliverTo(v, c)

BroadcastNext ==
  \/ \E b \in Batches : BatchStep(b)
  \/ \E t \in LiveMoves : MoveStep(t)
  \/ \E v \in Viewers : ViewerStep(v)

BroadcastSpec == BroadcastInit /\ [][BroadcastNext]_broadcastVars

-----------------------------------------------------------------------------
(* Properties. *)

(* Announced later: the handler that has applied it is still running. *)
ToBeBroadcast(c) == \E b \in Batches : batch[b] = "applied" /\ EditOf[b] = c

(* A viewer that has its snapshot has been sent, or will be, every change  *)
(* the board has, whichever way joins, batches and broadcasts interleave:  *)
(* except a change that was never broadcast because its handler failed,    *)
(* its sender left or it came over REST, and a live move that was          *)
(* broadcast before the viewer entered and applied after its snapshot.     *)
MissesNothing ==
  \A v \in Viewers : watching[v] = "shown" =>
    \A c \in board \ silent :
      \/ c \in received[v] \cup wire[v]
      \/ ToBeBroadcast(c)
      \/ c \in LiveMoves /\ v \notin audience[c]

(* No viewer is sent a mutation that had no effect because its batch       *)
(* failed: only one that was applied, or that the lock check refused.      *)
ShowsWhatHappened ==
  \A v \in Viewers : (received[v] \cup wire[v]) \cap Edits \subseteq board \cup refused

(* What viewers see: the broadcasts and the snapshot together leave no gap *)
(* and invent nothing.                                                     *)
ViewersSeeTheBoard == MissesNothing /\ ShowsWhatHappened

=============================================================================
