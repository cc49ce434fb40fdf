---------------------------- MODULE RoomSessions ----------------------------
(***************************************************************************)
(* Sockets that join, switch and leave boards: the join, disconnect and    *)
(* activity handlers of realtime/socketio with the roster of participants  *)
(* in Redis, which all realtime nodes share.                               *)
(*                                                                         *)
(* A handler runs between its awaits without interruption; an await and    *)
(* what follows it up to the next one is a step.  A socket may have        *)
(* several joins under way, a disconnect and one activity event (tick,     *)
(* presence or CRDT update: all three begin by refreshing the socket's     *)
(* activity).  Time is a lease: an entry of the roster is live until       *)
(* PARTICIPANT_TTL_MS have passed without a refresh, then due.             *)
(*                                                                         *)
(* Left out: identity, names and colours; the client entries and viewer    *)
(* sessions, which have leases of their own and decide on evictions        *)
(* (BoardLifecycle); what an event does after the refresh (MoveBuffers).   *)
(***************************************************************************)
EXTENDS Integers, FiniteSets

CONSTANTS
  Sockets, Boards, Sessions,
  Access,       \* [Sockets -> SUBSET Boards]: the boards it may see (Sharing)
  Cap,          \* SOCKET_ROOM_CONNECTION_CAP
  MaxJoins,     \* [Sockets -> Nat]: bound on the joins a socket sends
  MaxActivity,  \* [Sockets -> Nat]: bound on the activity events it sends
  MaxFaults,    \* [Sockets -> Nat]: bound on its handlers' errors and stalls
  Nil

ASSUME RoomConstants ==
  /\ Cap \in Nat
  /\ Access \in [Sockets -> SUBSET Boards]
  /\ {MaxJoins, MaxActivity, MaxFaults} \subseteq [Sockets -> Nat]
  /\ Nil \notin Boards

Contexts == [board : Boards, session : Sessions]

(* A handler: join number n of socket s, or for n = 0 its disconnect.      *)
Handlers == UNION {{s} \X (0..MaxJoins[s]) : s \in Sockets}

Steps == {"idle", "admission", "load", "participants", "admit",
          "removeParticipant", "size"}
Reasons == {"switch", "refused", "disconnect"}

VARIABLES
  connected,  \* socket.connected
  context,    \* the board and session of boardContext, or none
  latest,     \* latestJoinAttempt
  job,        \* what each handler waits for and works on
  roster,     \* participants hash of each board
  live, due,  \* participants_expiry: entries ahead of and past their time
  rooms,      \* socket.io rooms
  shown,      \* sockets whose USER_JOINED was sent and no USER_LEFT since
  activity,   \* the board of the event whose activity refresh is under way
  sent,       \* activity events a socket has sent
  disturbed,  \* sockets with overlapping joins, a failed handler or a pruned entry
  faults      \* faults of each socket so far

sockVars  == <<connected, context, latest>>
redisVars == <<roster, live, due>>
roomVars  == <<rooms, shown>>
actVars   == <<activity, sent>>
histVars  == <<disturbed, faults>>
roomSessionVars == <<sockVars, job, redisVars, roomVars, actVars, histVars>>

(* A context that is no context, a handler that does nothing. *)
NoContext == [board |-> Nil, session |-> Nil]
Idle == [step |-> "idle", target |-> NoContext, leaving |-> Nil, why |-> Nil,
         doomed |-> {}]

Jobs == [step    : Steps,
         target  : Contexts \cup {NoContext},     \* what a join asks for
         leaving : Boards \cup {Nil},             \* the board detached from,
         why     : Reasons \cup {Nil},            \* and the occasion
         doomed  : SUBSET Sockets]                \* expired ids, not yet deleted

(* Types of the state. *)
RoomTypeOK ==
  /\ connected \in [Sockets -> BOOLEAN]
  /\ context \in [Sockets -> Contexts \cup {NoContext}]
  /\ latest \in [Sockets -> Nat] /\ \A s \in Sockets : latest[s] <= MaxJoins[s]
  /\ job \in [Handlers -> Jobs]
  /\ roster \in [Boards -> SUBSET Sockets]
  /\ live \in [Boards -> SUBSET Sockets]
  /\ due \in [Boards -> SUBSET Sockets]
  /\ rooms \in [Boards -> SUBSET Sockets]
  /\ shown \in [Boards -> SUBSET Sockets]
  /\ activity \in [Sockets -> Boards \cup {Nil}]
  /\ sent \in [Sockets -> Nat]
  /\ disturbed \in SUBSET Sockets
  /\ faults \in [Sockets -> Nat]

RoomInit ==
  /\ connected = [s \in Sockets |-> TRUE]
  /\ context = [s \in Sockets |-> NoContext]
  /\ latest = [s \in Sockets |-> 0]
  /\ job = [p \in Handlers |-> Idle]
  /\ roster = [b \in Boards |-> {}]
  /\ live = [b \in Boards |-> {}]
  /\ due = [b \in Boards |-> {}]
  /\ rooms = [b \in Boards |-> {}]
  /\ shown = [b \in Boards |-> {}]
  /\ activity = [s \in Sockets |-> Nil]
  /\ sent = [s \in Sockets |-> 0]
  /\ disturbed = {}
  /\ faults = [s \in Sockets |-> 0]

-----------------------------------------------------------------------------
isJoinActive(p) == connected[p[1]] /\ p[2] = latest[p[1]]

Busy(s) ==
  \/ \E p \in Handlers : p[1] = s /\ job[p].step # "idle"
  \/ activity[s] # Nil

At(p, name) == job[p].step = name

Add(f, b, s)    == [f EXCEPT ![b] = @ \cup {s}]
Remove(f, b, S) == [f EXCEPT ![b] = @ \ S]

(* Mutated form of StartDetach: the old context is only replaced later. *)
StartDetachKeepingContext(p, why) ==
  /\ job' = [job EXCEPT ![p].step = "removeParticipant", ![p].doomed = {},
                        ![p].leaving = context[p[1]].board, ![p].why = why]
  /\ UNCHANGED context

(* How a handler goes on: to its next await, out of the board its socket   *)
(* is on (detachFromBoard up to its first await), or to its end.           *)
GoTo(p, name) == job' = [job EXCEPT ![p].step = name, ![p].doomed = {}]
End(p) == job' = [job EXCEPT ![p] = Idle]
StartDetach(p, why) ==
  /\ job' = [job EXCEPT ![p].step = "removeParticipant", ![p].doomed = {},
                        ![p].leaving = context[p[1]].board, ![p].why = why]
  /\ context' = [context EXCEPT ![p[1]] = NoContext]

-----------------------------------------------------------------------------
(* participants.ts.  Every reading of the roster first prunes: the expired *)
(* ids are read in one round trip and deleted in the next, the deletion    *)
(* and the reading that follows it being taken together.  An entry that    *)
(* was renewed in between is deleted all the same.                         *)

BoardRead(p) == IF At(p, "size") THEN job[p].leaving ELSE job[p].target.board

SelectExpired(p) ==
  /\ job[p].step \in {"admission", "participants", "size"}
  /\ job[p].doomed = {} /\ due[BoardRead(p)] # {}
  /\ job' = [job EXCEPT ![p].doomed = due[BoardRead(p)]]
  /\ UNCHANGED <<sockVars, redisVars, roomVars, actVars, histVars>>

pruneExpired(p, b) ==
  /\ job[p].doomed # {} \/ due[b] = {}
  /\ roster' = Remove(roster, b, job[p].doomed)
  /\ live' = Remove(live, b, job[p].doomed)
  /\ due' = Remove(due, b, job[p].doomed)
  /\ disturbed' = disturbed \cup (job[p].doomed \cap live[b])

(* ZADD GT: renews the expiry, whether or not the hash has the entry *)
touchParticipant(b, s) ==
  /\ live' = Add(live, b, s)
  /\ due' = Remove(due, b, {s})

(* Mutated form of HasRoom: off by one. *)
HasRoomOffByOne(b, s) == s \in roster[b] \/ Cardinality(roster[b]) <= Cap

HasRoom(b, s) == s \in roster[b] \/ Cardinality(roster[b]) < Cap

admitParticipant(b, s) ==
  /\ roster' = Add(roster, b, s)
  /\ touchParticipant(b, s)

-----------------------------------------------------------------------------
(* join.handler.ts *)

BoardJoin(s, next) ==
  /\ connected[s] /\ latest[s] < MaxJoins[s]
  /\ job' = [job EXCEPT ![<<s, latest[s] + 1>>] =
               [Idle EXCEPT !.step = "admission", !.target = next]]
  /\ latest' = [latest EXCEPT ![s] = @ + 1]
  /\ disturbed' = IF \E p \in Handlers : p[1] = s /\ job[p].step # "idle"
                  THEN disturbed \cup {s} ELSE disturbed
  /\ UNCHANGED <<connected, context, redisVars, roomVars, actVars, faults>>

(* Without access, or with a full room, the join ends here; otherwise the  *)
(* socket detaches from another board or session.                          *)
Admission(p) ==
  LET s    == p[1]
      b    == job[p].target.board
      room == roster[b] \ job[p].doomed
  IN  /\ At(p, "admission") /\ pruneExpired(p, b)
      /\ IF isJoinActive(p) /\ b \in Access[s]
                           /\ (s \in room \/ Cardinality(room) < Cap)
         THEN IF context[s] \notin {NoContext, job[p].target}
              THEN StartDetach(p, "switch")
              ELSE GoTo(p, "load") /\ UNCHANGED context
         ELSE End(p) /\ UNCHANGED context
      /\ UNCHANGED <<connected, latest, roomVars, actVars, faults>>

(* loadBoard, trackClient and touchViewerSession, each followed by a look  *)
(* at the attempt.                                                         *)
Enter(p) ==
  LET s == p[1] IN
  /\ At(p, "load")
  /\ IF isJoinActive(p)
     THEN /\ rooms' = Add(rooms, job[p].target.board, s)
          /\ context' = [context EXCEPT ![s] = job[p].target]
          /\ GoTo(p, "participants")
     ELSE End(p) /\ UNCHANGED <<rooms, context>>
  /\ UNCHANGED <<connected, latest, redisVars, shown, actVars, histVars>>

ReadParticipants(p) ==
  /\ At(p, "participants") /\ pruneExpired(p, job[p].target.board)
  /\ GoTo(p, "admit")
  /\ UNCHANGED <<sockVars, roomVars, actVars, faults>>

(* Mutated form of Admitted: USER_JOINED is sent without a look at the     *)
(* attempt.                                                                *)
AdmittedUnchecked(p) ==
  LET s == p[1]
      b == job[p].target.board
  IN  /\ At(p, "admit") /\ HasRoom(b, s)
      /\ admitParticipant(b, s)
      /\ shown' = Add(shown, b, s)
      /\ End(p)
      /\ UNCHANGED <<sockVars, rooms, actVars, histVars>>

(* The atomic admission and the USER_JOINED broadcast, *)
Admitted(p) ==
  LET s == p[1]
      b == job[p].target.board
  IN  /\ At(p, "admit") /\ HasRoom(b, s)
      /\ admitParticipant(b, s)
      /\ shown' = IF isJoinActive(p) THEN Add(shown, b, s) ELSE shown
      /\ End(p)
      /\ UNCHANGED <<sockVars, rooms, actVars, histVars>>

(* or the room has filled up, and the join detaches again. *)
Refused(p) ==
  LET b == job[p].target.board IN
  /\ At(p, "admit") /\ ~HasRoom(b, p[1])
  /\ IF context[p[1]].board = b
     THEN StartDetach(p, "refused")
     ELSE End(p) /\ UNCHANGED context
  /\ UNCHANGED <<connected, latest, redisVars, roomVars, actVars, histVars>>

-----------------------------------------------------------------------------
(* disconnect.handler.ts and detachFromBoard *)

Disconnect(s) ==
  /\ connected[s]
  /\ connected' = [connected EXCEPT ![s] = FALSE]
  /\ rooms' = [b \in Boards |-> rooms[b] \ {s}]
  /\ IF context[s] = NoContext
     THEN UNCHANGED <<job, context>>
     ELSE StartDetach(<<s, 0>>, "disconnect")
  /\ UNCHANGED <<latest, redisVars, shown, actVars, histVars>>

(* The script removes hash and expiry entries only when the hash has one;  *)
(* USER_LEFT goes out for a participant it found, unless the join was      *)
(* refused and never announced.                                            *)
RemoveParticipant(p) ==
  LET s == p[1]
      b == job[p].leaving
      found == s \in roster[b]
  IN  /\ At(p, "removeParticipant")
      /\ roster' = Remove(roster, b, {s})
      /\ live' = IF found THEN Remove(live, b, {s}) ELSE live
      /\ due' = IF found THEN Remove(due, b, {s}) ELSE due
      /\ shown' = IF found /\ job[p].why # "refused"
                  THEN Remove(shown, b, {s}) ELSE shown
      /\ rooms' = Remove(rooms, b, {s})
      /\ GoTo(p, "size")
      /\ UNCHANGED <<sockVars, actVars, histVars>>

(* getRoomSize, which decides on the cleanup of the node's buffers, and    *)
(* the drain; a join that switched then goes on to load its board.         *)
FinishDetach(p) ==
  /\ At(p, "size") /\ pruneExpired(p, job[p].leaving)
  /\ IF job[p].why = "switch" THEN GoTo(p, "load") ELSE End(p)
  /\ UNCHANGED <<sockVars, roomVars, actVars, faults>>

(* An await rejects: registerHandler logs it and the handler is over. *)
HandlerFails(p) ==
  /\ job[p].step # "idle" /\ faults[p[1]] < MaxFaults[p[1]]
  /\ End(p)
  /\ faults' = [faults EXCEPT ![p[1]] = @ + 1]
  /\ disturbed' = disturbed \cup {p[1]}
  /\ UNCHANGED <<sockVars, redisVars, roomVars, actVars>>

-----------------------------------------------------------------------------
(* The heartbeat, the leases, and refreshSocketActivity for an event. *)

(* Mutated form of Beats: the interval is not stopped by the disconnect. *)
BeatsForEver(s, b) ==
  \/ context[s].board = b
  \/ ~connected[s] /\ s \in roster[b]

Beats(s, b) == connected[s] /\ context[s].board = b

Heartbeat(s, b) ==
  /\ Beats(s, b)
  /\ touchParticipant(b, s)
  /\ UNCHANGED <<sockVars, job, roster, roomVars, actVars, histVars>>

(* A lease runs out when nothing renews it any more, *)
LeaseRunsOut(s, b) ==
  /\ s \in live[b] /\ ~Beats(s, b) /\ ~Busy(s)
  /\ live' = Remove(live, b, {s})
  /\ due' = Add(due, b, s)
  /\ UNCHANGED <<sockVars, job, roster, roomVars, actVars, histVars>>

(* or, a fault, while its node is stalled for PARTICIPANT_TTL_MS.          *)
BeatsMissed(s, b) ==
  /\ s \in live[b] /\ faults[s] < MaxFaults[s]
  /\ live' = Remove(live, b, {s})
  /\ due' = Add(due, b, s)
  /\ faults' = [faults EXCEPT ![s] = @ + 1]
  /\ disturbed' = disturbed \cup {s}
  /\ UNCHANGED <<sockVars, job, roster, roomVars, actVars>>

(* takeContextSnapshot *)
ReceiveActivity(s) ==
  /\ connected[s] /\ context[s] # NoContext /\ activity[s] = Nil
  /\ sent[s] < MaxActivity[s]
  /\ sent' = [sent EXCEPT ![s] = @ + 1]
  /\ activity' = [activity EXCEPT ![s] = context[s].board]
  /\ UNCHANGED <<sockVars, job, redisVars, roomVars, histVars>>

(* The refresh goes to the board of the snapshot, which the socket may     *)
(* have left by now.                                                       *)
RefreshActivity(s) ==
  /\ activity[s] # Nil
  /\ touchParticipant(activity[s], s)
  /\ activity' = [activity EXCEPT ![s] = Nil]
  /\ UNCHANGED <<sockVars, job, roster, roomVars, sent, histVars>>

-----------------------------------------------------------------------------
HandlerStep(p) ==
  \/ SelectExpired(p) \/ Admission(p) \/ Enter(p) \/ ReadParticipants(p)
  \/ Admitted(p) \/ Refused(p) \/ RemoveParticipant(p) \/ FinishDetach(p)

RoomNext ==
  \/ \E s \in Sockets : \/ \E next \in Contexts : BoardJoin(s, next)
                        \/ Disconnect(s)
                        \/ ReceiveActivity(s) \/ RefreshActivity(s)
                        \/ \E b \in Boards : \/ Heartbeat(s, b) \/ LeaseRunsOut(s, b)
                                            \/ BeatsMissed(s, b)
  \/ \E p \in Handlers : HandlerStep(p) \/ HandlerFails(p)

(* Awaits settle and time passes. *)
RoomProgress ==
  \/ \E p \in Handlers : HandlerStep(p)
  \/ \E s \in Sockets : RefreshActivity(s) \/ \E b \in Boards : LeaseRunsOut(s, b)

RoomSpec == RoomInit /\ [][RoomNext]_roomSessionVars /\ WF_roomSessionVars(RoomProgress)

-----------------------------------------------------------------------------
(* Properties. *)

(* However joins on several nodes interleave with expiry, pruning and      *)
(* failures, a room never holds more than Cap participants: the count and  *)
(* the write of admitParticipant are one script.                           *)
RoomCapHolds == \A b \in Boards : Cardinality(roster[b]) <= Cap

(* Every participant has an expiry entry, so that the slot of a socket     *)
(* that never comes back can be pruned: a hash entry without one would     *)
(* count against the cap for ever.                                         *)
SlotsReclaimable == \A b \in Boards : roster[b] \subseteq live[b] \cup due[b]

(* A room's slots are bounded, and none of them is lost for good.          *)
SlotsBounded == RoomCapHolds /\ SlotsReclaimable

(* Between its handlers a connected socket is on the roster and in the     *)
(* socket.io room of exactly the board of its context, unless it was       *)
(* disturbed: joins that overlap, a failed handler or a slow pruning can   *)
(* take the entry of a socket that still believes to be on the board.      *)
RosterTruthful ==
  \A s \in Sockets \ disturbed : connected[s] /\ ~Busy(s) =>
    \A b \in Boards :
      /\ (s \in roster[b]) <=> Beats(s, b)
      /\ (s \in rooms[b]) <=> Beats(s, b)

(* A socket that has gone and whose handlers are through is no longer      *)
(* shown to the others: whoever was announced with USER_JOINED has been    *)
(* taken back with USER_LEFT, although the disconnect may come between any *)
(* two steps of the join.                                                  *)
LeaversAnnounced ==
  \A s \in Sockets \ disturbed : ~connected[s] /\ ~Busy(s) =>
    \A b \in Boards : s \notin shown[b]

(* Once a socket has gone its leases end for good, whatever handlers were  *)
(* under way: no heartbeat and no late refresh keeps its slot.             *)
GhostsFade ==
  \A s \in Sockets :
    <>[](connected[s] \/ \A b \in Boards : s \notin live[b])

=============================================================================
