SPECIFICATION RoomSpec
CONSTANTS
  a = a
  c = c
  Sockets = {a, c}
  Boards = {b1,b2}
  Sessions = {1}
  Access <- AccessOf
  Cap = 1
  MaxJoins <- JoinBound
  MaxActivity <- ActivityBound
  MaxFaults <- FaultBound
  Nil = Nil
INVARIANT RosterTruthful
INVARIANT LeaversAnnounced
INVARIANT SlotsBounded
PROPERTY GhostsFade
CHECK_DEADLOCK FALSE
