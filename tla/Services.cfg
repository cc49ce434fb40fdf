SPECIFICATION ServicesSpec
CONSTANTS
 s1 = s1
 s2 = s2
 a1 = a1
 a2 = a2
 a3 = a3
 u1 = u1
 u2 = u2
 Dragging = {s1, s2}
 DragNodes = {n1}
 NodeOf <- NodeOfSocket
 MaxMoves = 2
 MaxVisits = 2
 MaxLost = 1
 Attempts = {a1, a2, a3}
 BatchSize = 2
 Processes = {"p1", "p2"}
 ProcessOf <- ProcessOfAttempt
 MaxUpsets = 2
 NoAttempt = NoAttempt
 Viewers = {v1}
 Batches = {u1, u2}
 OverRest = {u2}
 EditOf <- EditOfBatch
 LiveMoves = {"mv"}
 MaxEntries = 2
 DirtyBoards = {d1, d2, d3}
 Stuck = {d1}
 Limit = 2
 RetryAttempts = 2
 MaxEdits = 4
 MaxSlips = 1
 Tokens = {t1, t2, t3}
 Requests = {r1, r2}
 NoToken = NoToken
 Customers = {c1, c2}
 b1 = b1
 b2 = b2
 Subs = {b1, b2}
 Prices = {"known", "unknown"}
 PriceOf <- PriceOfPlan
 ListLimit = 1
 MaxChanges = 2
 Checkouts = {k1, k2}
 Fetches = {f1}
 Nobody = Nobody
 MutatedWindow = 1
 LeftWindow = 1
 Debounce = 3
 FlushDelay = 1
 MinInterval = 4
 SaveTime = 1
 RenderAttempts = 2
 MaxChangesMade = 2
 MaxLeaves = 1
 MaxMishaps = 2
 People = {o, p}
 Owner = o
 Invites = {i1, i2}
 OfferedRoles = {"admin", "viewer"}
 Calls = {q1, q2}
 MaxCalls = 2
 NoCall = NoCall
INVARIANT ServicesTypeOK
INVARIANT OneLivePerFamily
INVARIANT AppliedAtMostOnce
INVARIANT PaidIsServed
INVARIANT LockExcludes
INVARIANT DeliveredOnce
INVARIANT TablesConsistent
INVARIANT MovesSafe
INVARIANT ViewersSeeTheBoard
PROPERTY FamilyStaysDead
PROPERTY LinkNeverRises
PROPERTY EveryAttemptEnds
PROPERTY HealthyBoardsFlushed
PROPERTY EveryMoveSettles
PROPERTY PreviewCatchesUp
CHECK_DEADLOCK FALSE
