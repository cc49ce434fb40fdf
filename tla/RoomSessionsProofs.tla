------------------------- MODULE RoomSessionsProofs -------------------------
(***************************************************************************)
(* For any number of sockets, boards, joins and faults: the cap of a room  *)
(* holds, every slot can be reclaimed, and a socket that was not disturbed *)
(* is shown, listed and in a room exactly when it should be.               *)
(***************************************************************************)
EXTENDS RoomSessions, FiniteSetTheorems, TLAPS

(* A handler knows the board it works on. *)
Joining == {"admission", "load", "participants", "admit"}
Leaving == {"removeParticipant", "size"}
JobInv ==
  \A p \in Handlers :
    /\ job[p].step \in Joining \/ (job[p].step \in Leaving /\ job[p].why = "switch")
         => job[p].target \in Contexts
    /\ job[p].step \in Leaving => job[p].leaving \in Boards /\ job[p].why \in Reasons

LEMMA HandlerFacts == \A p \in Handlers : p[1] \in Sockets
  BY DEF Handlers

LEMMA HandlerNames ==
  ASSUME NEW s \in Sockets, NEW n \in 0..MaxJoins[s]
  PROVE  <<s, n>> \in Handlers /\ <<s, n>>[1] = s /\ <<s, n>>[2] = n
  BY DEF Handlers

-----------------------------------------------------------------------------
(* What the ways to go on do to the handlers. *)

LEMMA GoToFacts ==
  ASSUME job \in [Handlers -> Jobs], NEW p \in Handlers, NEW name \in Steps, GoTo(p, name)
  PROVE  /\ job' \in [Handlers -> Jobs]
         /\ \A q \in Handlers : q # p => job'[q] = job[q]
         /\ job'[p].step = name /\ job'[p].doomed = {}
         /\ job'[p].target = job[p].target
         /\ job'[p].leaving = job[p].leaving /\ job'[p].why = job[p].why
<1>1. job' = [job EXCEPT ![p] = [job[p] EXCEPT !.step = name, !.doomed = {}]]
  BY DEF GoTo
<1>2. job[p] \in Jobs OBVIOUS
<1>3. [job[p] EXCEPT !.step = name, !.doomed = {}] \in Jobs BY <1>2 DEF Jobs
<1>4. job'[p] = [job[p] EXCEPT !.step = name, !.doomed = {}] BY <1>1
<1> QED BY <1>1, <1>2, <1>3, <1>4 DEF Jobs

LEMMA IdleIsJob == Idle \in Jobs /\ Idle.step = "idle" /\ Idle.why = Nil
  BY DEF Idle, Jobs, Steps, NoContext

LEMMA EndFacts ==
  ASSUME job \in [Handlers -> Jobs], NEW p \in Handlers, End(p)
  PROVE  /\ job' \in [Handlers -> Jobs]
         /\ \A q \in Handlers : q # p => job'[q] = job[q]
         /\ job'[p] = Idle
  BY IdleIsJob DEF End

LEMMA DetachFacts ==
  ASSUME job \in [Handlers -> Jobs], context \in [Sockets -> Contexts \cup {NoContext}],
         NEW p \in Handlers, NEW why \in Reasons, StartDetach(p, why),
         context[p[1]].board \in Boards
  PROVE  /\ job' \in [Handlers -> Jobs]
         /\ \A q \in Handlers : q # p => job'[q] = job[q]
         /\ job'[p].step = "removeParticipant" /\ job'[p].doomed = {}
         /\ job'[p].target = job[p].target
         /\ job'[p].leaving = context[p[1]].board /\ job'[p].why = why
         /\ context' = [context EXCEPT ![p[1]] = NoContext]
         /\ context' \in [Sockets -> Contexts \cup {NoContext}]
<1> DEFINE new == [job[p] EXCEPT !.step = "removeParticipant", !.doomed = {},
                                 !.leaving = context[p[1]].board, !.why = why]
<1>1. job' = [job EXCEPT ![p] = new] BY DEF StartDetach
<1>2. job[p] \in Jobs OBVIOUS
<1>3. new \in Jobs BY <1>2 DEF Jobs, Steps
<1>4. job'[p] = new BY <1>1
<1>5. context' = [context EXCEPT ![p[1]] = NoContext] BY DEF StartDetach
<1>6. context' \in [Sockets -> Contexts \cup {NoContext}] BY <1>5
<1> QED BY <1>1, <1>2, <1>3, <1>4, <1>5, <1>6 DEF Jobs

Rosters == [Boards -> SUBSET Sockets]

LEMMA AddType ==
  ASSUME NEW f \in Rosters, NEW b, NEW s \in Sockets
  PROVE  /\ Add(f, b, s) \in Rosters
         /\ \A c \in Boards : Add(f, b, s)[c] = IF c = b THEN f[c] \cup {s} ELSE f[c]
  BY DEF Add, Rosters

LEMMA RemoveType ==
  ASSUME NEW f \in Rosters, NEW b, NEW S
  PROVE  /\ Remove(f, b, S) \in Rosters
         /\ \A c \in Boards : Remove(f, b, S)[c] = IF c = b THEN f[c] \ S ELSE f[c]
  BY DEF Remove, Rosters

(* The roster and its expiry entries, as one piece of state. *)
RedisTypeOK == roster \in Rosters /\ live \in Rosters /\ due \in Rosters

LEMMA PruneFacts ==
  ASSUME RedisTypeOK, NEW p, NEW b, pruneExpired(p, b)
  PROVE  /\ RedisTypeOK'
         /\ \A c \in Boards :
              /\ roster'[c] = IF c = b THEN roster[c] \ job[p].doomed ELSE roster[c]
              /\ live'[c] = IF c = b THEN live[c] \ job[p].doomed ELSE live[c]
              /\ due'[c] = IF c = b THEN due[c] \ job[p].doomed ELSE due[c]
<1> DEFINE S == job[p].doomed
<1>1. roster' = Remove(roster, b, S) /\ live' = Remove(live, b, S) /\ due' = Remove(due, b, S)
  BY DEF pruneExpired
<1>2. roster \in Rosters /\ live \in Rosters /\ due \in Rosters BY DEF RedisTypeOK
<1> HIDE DEF S
<1>3. /\ roster' \in Rosters
      /\ \A c \in Boards : roster'[c] = IF c = b THEN roster[c] \ S ELSE roster[c]
  BY <1>1, <1>2 DEF Remove, Rosters
<1>4. /\ live' \in Rosters
      /\ \A c \in Boards : live'[c] = IF c = b THEN live[c] \ S ELSE live[c]
  BY <1>1, <1>2 DEF Remove, Rosters
<1>5. /\ due' \in Rosters
      /\ \A c \in Boards : due'[c] = IF c = b THEN due[c] \ S ELSE due[c]
  BY <1>1, <1>2 DEF Remove, Rosters
<1> QED BY <1>3, <1>4, <1>5 DEF RedisTypeOK, S

LEMMA TouchFacts ==
  ASSUME RedisTypeOK, NEW b, NEW s \in Sockets, touchParticipant(b, s)
  PROVE  /\ live' \in Rosters /\ due' \in Rosters
         /\ \A c \in Boards :
              /\ live'[c] = IF c = b THEN live[c] \cup {s} ELSE live[c]
              /\ due'[c] = IF c = b THEN due[c] \ {s} ELSE due[c]
<1>1. live' = Add(live, b, s) /\ due' = Remove(due, b, {s}) BY DEF touchParticipant
<1>2. live \in Rosters /\ due \in Rosters BY DEF RedisTypeOK
<1>3. /\ live' \in Rosters
      /\ \A c \in Boards : live'[c] = IF c = b THEN live[c] \cup {s} ELSE live[c]
  BY <1>1, <1>2, AddType
<1>4. /\ due' \in Rosters
      /\ \A c \in Boards : due'[c] = IF c = b THEN due[c] \ {s} ELSE due[c]
  BY <1>1, <1>2, RemoveType
<1> QED BY <1>3, <1>4

(* The rest of the types, and JobInv. *)
SocketTypeOK ==
  /\ connected \in [Sockets -> BOOLEAN]
  /\ context \in [Sockets -> Contexts \cup {NoContext}]
  /\ latest \in [Sockets -> Nat] /\ \A s \in Sockets : latest[s] <= MaxJoins[s]
  /\ job \in [Handlers -> Jobs] /\ JobInv

LEMMA ContextFacts ==
  /\ NoContext.board = Nil /\ NoContext \notin Contexts
  /\ \A x \in Contexts : x.board \in Boards
  BY RoomConstants DEF NoContext, Contexts

LEMMA SocketStep ==
  ASSUME RoomTypeOK, SocketTypeOK, [RoomNext]_roomSessionVars
  PROVE  SocketTypeOK'
<1> USE DEF SocketTypeOK
<1>1. due \in Rosters BY DEF RoomTypeOK, Rosters
<1>2. ASSUME NEW s \in Sockets, NEW next \in Contexts, BoardJoin(s, next)
      PROVE  SocketTypeOK'
  <2> DEFINE p == <<s, latest[s] + 1>>
             new == [Idle EXCEPT !.step = "admission", !.target = next]
  <2>1. MaxJoins[s] \in Nat BY RoomConstants
  <2>2. latest[s] + 1 \in 0..MaxJoins[s] BY <1>2, <2>1 DEF BoardJoin
  <2>3. p \in Handlers BY <2>2, HandlerNames
  <2>4. new \in Jobs /\ new.step = "admission" /\ new.target = next /\ new.why = Nil
    BY DEF Idle, Jobs, Steps, Reasons
  <2>5. job' = [job EXCEPT ![p] = new] /\ latest' = [latest EXCEPT ![s] = @ + 1]
        /\ connected' = connected /\ context' = context
    BY <1>2 DEF BoardJoin
  <2>6. latest' \in [Sockets -> Nat] /\ \A x \in Sockets : latest'[x] <= MaxJoins[x]
    BY <2>1, <2>2, <2>5
  <2> HIDE DEF p, new
  <2>7. job' \in [Handlers -> Jobs] BY <2>3, <2>4, <2>5
  <2>8. JobInv' BY <2>3, <2>4, <2>5 DEF JobInv, Joining, Leaving
  <2> QED BY <2>5, <2>6, <2>7, <2>8
<1>3. ASSUME NEW p \in Handlers, NEW name \in Steps, GoTo(p, name), UNCHANGED sockVars,
             name \in Joining => job[p].target \in Contexts,
             name \in Leaving => job[p].step \in Leaving
      PROVE  SocketTypeOK'
  <2>1. JobInv' BY <1>3, GoToFacts DEF JobInv
  <2> QED BY <1>3, <2>1, GoToFacts DEF sockVars
<1>4. ASSUME NEW p \in Handlers, End(p), UNCHANGED sockVars PROVE SocketTypeOK'
  <2>1. JobInv'
    BY <1>4, EndFacts, IdleIsJob, RoomConstants DEF JobInv, Joining, Leaving, Idle
  <2> QED BY <1>4, <2>1, EndFacts DEF sockVars
<1>5. ASSUME NEW p \in Handlers, NEW why \in Reasons, StartDetach(p, why),
             context[p[1]].board \in Boards, why = "switch" => job[p].target \in Contexts,
             connected' \in [Sockets -> BOOLEAN], latest' = latest
      PROVE  SocketTypeOK'
  <2>1. JobInv' BY <1>5, DetachFacts DEF JobInv, Joining, Leaving
  <2> QED BY <1>5, <2>1, DetachFacts
<1>6. ASSUME NEW p \in Handlers, SelectExpired(p) PROVE SocketTypeOK'
  <2>1. BoardRead(p) \in Boards
    BY <1>6, ContextFacts DEF SelectExpired, BoardRead, At, JobInv, Joining, Leaving
  <2>2. due[BoardRead(p)] \in SUBSET Sockets BY <1>1, <2>1 DEF Rosters
  <2> DEFINE new == [job[p] EXCEPT !.doomed = due[BoardRead(p)]]
  <2>3. job' = [job EXCEPT ![p] = new] /\ UNCHANGED sockVars BY <1>6 DEF SelectExpired
  <2>4. /\ new \in Jobs /\ new.step = job[p].step /\ new.target = job[p].target
        /\ new.leaving = job[p].leaving /\ new.why = job[p].why
    BY <2>2 DEF Jobs
  <2> HIDE DEF new
  <2>5. job' \in [Handlers -> Jobs] /\ JobInv' BY <2>3, <2>4 DEF JobInv
  <2> QED BY <2>3, <2>5 DEF sockVars
<1>7. ASSUME NEW p \in Handlers, Admission(p) PROVE SocketTypeOK'
  <2>1. job[p].target \in Contexts /\ connected' = connected /\ latest' = latest
    BY <1>7 DEF Admission, At, JobInv, Joining
  <2>2. CASE StartDetach(p, "switch") /\ context[p[1]] # NoContext
    <3>1. context[p[1]].board \in Boards BY <2>2, ContextFacts, HandlerFacts
    <3> QED BY <1>5, <2>1, <2>2, <3>1 DEF Reasons
  <2>3. CASE GoTo(p, "load") /\ UNCHANGED context
    BY <1>3, <2>1, <2>3 DEF Steps, Leaving, sockVars
  <2>4. CASE End(p) /\ UNCHANGED context BY <1>4, <2>1, <2>4 DEF sockVars
  <2> QED BY <1>7, <2>2, <2>3, <2>4 DEF Admission
<1>8. ASSUME NEW p \in Handlers, Enter(p) PROVE SocketTypeOK'
  <2>1. job[p].target \in Contexts /\ connected' = connected /\ latest' = latest
    BY <1>8 DEF Enter, At, JobInv, Joining
  <2>2. CASE context' = [context EXCEPT ![p[1]] = job[p].target] /\ GoTo(p, "participants")
    <3>1. JobInv' /\ job' \in [Handlers -> Jobs]
      BY <2>1, <2>2, GoToFacts DEF JobInv, Steps, Joining, Leaving
    <3>2. context' \in [Sockets -> Contexts \cup {NoContext}] BY <2>1, <2>2
    <3> QED BY <2>1, <3>1, <3>2
  <2>3. CASE End(p) /\ UNCHANGED context BY <1>4, <2>1, <2>3 DEF sockVars
  <2> QED BY <1>8, <2>2, <2>3 DEF Enter
<1>9. ASSUME NEW p \in Handlers, ReadParticipants(p) PROVE SocketTypeOK'
  BY <1>3, <1>9 DEF ReadParticipants, At, JobInv, Joining, Leaving, Steps
<1>10. ASSUME NEW p \in Handlers, Admitted(p) \/ HandlerFails(p) PROVE SocketTypeOK'
  BY <1>4, <1>10 DEF Admitted, HandlerFails
<1>11. ASSUME NEW p \in Handlers, Refused(p) PROVE SocketTypeOK'
  <2>1. job[p].target.board \in Boards /\ connected' = connected /\ latest' = latest
    BY <1>11, ContextFacts DEF Refused, At, JobInv, Joining
  <2>2. CASE StartDetach(p, "refused") /\ context[p[1]].board = job[p].target.board
    BY <1>5, <2>1, <2>2 DEF Reasons
  <2>3. CASE End(p) /\ UNCHANGED context BY <1>4, <2>1, <2>3 DEF sockVars
  <2> QED BY <1>11, <2>2, <2>3 DEF Refused
<1>12. ASSUME NEW s \in Sockets, Disconnect(s) PROVE SocketTypeOK'
  <2>1. connected' \in [Sockets -> BOOLEAN] /\ latest' = latest BY <1>12 DEF Disconnect
  <2>2. CASE context[s] = NoContext BY <1>12, <2>1, <2>2 DEF Disconnect, JobInv
  <2>3. CASE context[s] # NoContext
    <3>1. MaxJoins[s] \in Nat BY RoomConstants
    <3>2. <<s, 0>> \in Handlers /\ <<s, 0>>[1] = s BY <3>1, HandlerNames
    <3>3. StartDetach(<<s, 0>>, "disconnect") BY <1>12, <2>3 DEF Disconnect
    <3>4. context[s].board \in Boards BY <2>3, ContextFacts
    <3> QED BY <1>5, <2>1, <3>2, <3>3, <3>4 DEF Reasons
  <2> QED BY <2>2, <2>3
<1>13. ASSUME NEW p \in Handlers, RemoveParticipant(p) PROVE SocketTypeOK'
  BY <1>3, <1>13 DEF RemoveParticipant, At, Joining, Leaving, Steps
<1>14. ASSUME NEW p \in Handlers, FinishDetach(p) PROVE SocketTypeOK'
  <2>1. CASE job[p].why = "switch"
    BY <1>3, <1>14, <2>1 DEF FinishDetach, At, JobInv, Steps, Leaving
  <2>2. CASE job[p].why # "switch" BY <1>4, <1>14, <2>2 DEF FinishDetach
  <2> QED BY <2>1, <2>2
<1>15. CASE UNCHANGED <<sockVars, job>> BY <1>15 DEF sockVars, JobInv
<1>16. ASSUME NEW s \in Sockets, NEW b \in Boards,
              Heartbeat(s, b) \/ LeaseRunsOut(s, b) \/ BeatsMissed(s, b)
       PROVE  UNCHANGED <<sockVars, job>>
  BY <1>16 DEF Heartbeat, LeaseRunsOut, BeatsMissed
<1>17. ASSUME NEW s \in Sockets, ReceiveActivity(s) \/ RefreshActivity(s)
       PROVE  UNCHANGED <<sockVars, job>>
  BY <1>17 DEF ReceiveActivity, RefreshActivity
<1>18. CASE UNCHANGED roomSessionVars BY <1>15, <1>18 DEF roomSessionVars
<1> QED BY <1>2, <1>6, <1>7, <1>8, <1>9, <1>10, <1>11, <1>12, <1>13, <1>14, <1>15,
           <1>16, <1>17, <1>18 DEF RoomNext, HandlerStep

-----------------------------------------------------------------------------
(* The roster: its size, and the expiry entries that go with it. *)

CapInv == \A b \in Boards : IsFiniteSet(roster[b]) /\ Cardinality(roster[b]) <= Cap

RosterInv == RedisTypeOK /\ CapInv /\ SlotsReclaimable

LEMMA ShrinkingKeepsCap ==
  ASSUME CapInv, \A b \in Boards : roster'[b] \subseteq roster[b]
  PROVE  CapInv'
<1> SUFFICES ASSUME NEW b \in Boards
             PROVE  IsFiniteSet(roster'[b]) /\ Cardinality(roster'[b]) <= Cap
  BY DEF CapInv
<1>1. IsFiniteSet(roster[b]) /\ Cardinality(roster[b]) <= Cap BY DEF CapInv
<1>2. IsFiniteSet(roster'[b]) /\ Cardinality(roster'[b]) <= Cardinality(roster[b])
  BY <1>1, FS_Subset
<1>3. Cardinality(roster'[b]) \in Nat /\ Cardinality(roster[b]) \in Nat
  BY <1>1, <1>2, FS_CardinalityType
<1> QED BY <1>1, <1>2, <1>3, RoomConstants

LEMMA AdmissionKeepsCap ==
  ASSUME RosterInv, NEW b \in Boards, NEW s \in Sockets, HasRoom(b, s), admitParticipant(b, s)
  PROVE  RosterInv'
<1>1. roster' = Add(roster, b, s) /\ touchParticipant(b, s) BY DEF admitParticipant
<1>2. /\ roster' \in Rosters
      /\ \A c \in Boards : roster'[c] = IF c = b THEN roster[c] \cup {s} ELSE roster[c]
  BY <1>1 DEF RosterInv, RedisTypeOK, Rosters, Add
<1>3. RedisTypeOK' BY <1>1, <1>2, TouchFacts DEF RosterInv, RedisTypeOK
<1>4. SlotsReclaimable'
  BY <1>1, <1>2, TouchFacts DEF RosterInv, SlotsReclaimable
<1>5. IsFiniteSet(roster[b]) /\ Cardinality(roster[b]) <= Cap BY DEF RosterInv, CapInv
<1>6. Cardinality(roster[b]) \in Nat BY <1>5, FS_CardinalityType
<1>7. IsFiniteSet(roster[b] \cup {s}) /\ Cardinality(roster[b] \cup {s}) <= Cap
  <2>1. CASE s \in roster[b] BY <1>5, <2>1, FS_AddElement
  <2>2. CASE s \notin roster[b]
    <3>1. Cardinality(roster[b]) < Cap BY <2>2 DEF HasRoom
    <3>2. /\ IsFiniteSet(roster[b] \cup {s})
          /\ Cardinality(roster[b] \cup {s}) = Cardinality(roster[b]) + 1
      BY <1>5, <2>2, FS_AddElement
    <3> QED BY <1>6, <3>1, <3>2, RoomConstants
  <2> QED BY <2>1, <2>2
<1>8. CapInv' BY <1>2, <1>7 DEF RosterInv, CapInv
<1> QED BY <1>3, <1>4, <1>8 DEF RosterInv

LEMMA RosterStep ==
  ASSUME RoomTypeOK, SocketTypeOK, RosterInv, [RoomNext]_roomSessionVars
  PROVE  RosterInv'
<1>1. ASSUME RedisTypeOK', \A b \in Boards : roster'[b] \subseteq roster[b],
             SlotsReclaimable'
      PROVE  RosterInv'
  BY <1>1, ShrinkingKeepsCap DEF RosterInv
<1>2. ASSUME NEW p, NEW b, pruneExpired(p, b) PROVE RosterInv'
  <2>1. SlotsReclaimable' /\ \A c \in Boards : roster'[c] \subseteq roster[c]
    BY <1>2, PruneFacts DEF RosterInv, SlotsReclaimable
  <2> QED BY <1>1, <1>2, <2>1, PruneFacts DEF RosterInv
<1>3. ASSUME NEW p \in Handlers, Admission(p) \/ ReadParticipants(p) \/ FinishDetach(p)
      PROVE  RosterInv'
  BY <1>2, <1>3 DEF Admission, ReadParticipants, FinishDetach
<1>4. ASSUME NEW p \in Handlers, Admitted(p) PROVE RosterInv'
  <2>1. job[p].target.board \in Boards
    BY <1>4, ContextFacts DEF Admitted, At, SocketTypeOK, JobInv, Joining
  <2> QED BY <1>4, <2>1, HandlerFacts, AdmissionKeepsCap DEF Admitted
<1>5. ASSUME NEW p \in Handlers, RemoveParticipant(p) PROVE RosterInv'
  <2> DEFINE s == p[1]
             b == job[p].leaving
  <2>1. /\ roster' \in Rosters
        /\ \A c \in Boards : roster'[c] = IF c = b THEN roster[c] \ {s} ELSE roster[c]
    BY <1>5 DEF RemoveParticipant, Remove, Rosters, RosterInv, RedisTypeOK
  <2>2. /\ live' \in Rosters
        /\ \A c \in Boards : live'[c] = IF c = b /\ s \in roster[b] THEN live[c] \ {s} ELSE live[c]
    BY <1>5 DEF RemoveParticipant, Remove, Rosters, RosterInv, RedisTypeOK
  <2>3. /\ due' \in Rosters
        /\ \A c \in Boards : due'[c] = IF c = b /\ s \in roster[b] THEN due[c] \ {s} ELSE due[c]
    BY <1>5 DEF RemoveParticipant, Remove, Rosters, RosterInv, RedisTypeOK
  <2> HIDE DEF s, b
  <2>4. SlotsReclaimable' BY <2>1, <2>2, <2>3 DEF RosterInv, SlotsReclaimable
  <2> QED BY <1>1, <2>1, <2>2, <2>3, <2>4 DEF RedisTypeOK
<1>6. ASSUME NEW s \in Sockets, NEW b, touchParticipant(b, s), roster' = roster
      PROVE  RosterInv'
  <2>1. RedisTypeOK' /\ SlotsReclaimable'
    BY <1>6, TouchFacts DEF RosterInv, RedisTypeOK, SlotsReclaimable
  <2> QED BY <1>1, <1>6, <2>1
<1>7. ASSUME NEW s \in Sockets, NEW b \in Boards, LeaseRunsOut(s, b) \/ BeatsMissed(s, b)
      PROVE  RosterInv'
  <2>1. live' = Remove(live, b, {s}) /\ due' = Add(due, b, s) /\ roster' = roster
    BY <1>7 DEF LeaseRunsOut, BeatsMissed
  <2>2. RedisTypeOK' /\ SlotsReclaimable'
    BY <2>1 DEF RosterInv, RedisTypeOK, Rosters, SlotsReclaimable, Remove, Add
  <2> QED BY <1>1, <2>1, <2>2
<1>8. ASSUME NEW s \in Sockets,
             RefreshActivity(s) \/ \E b \in Boards : Heartbeat(s, b)
      PROVE  RosterInv'
  BY <1>6, <1>8 DEF RefreshActivity, Heartbeat
<1>9. CASE UNCHANGED redisVars
  BY <1>9 DEF redisVars, RosterInv, RedisTypeOK, CapInv, SlotsReclaimable
<1>10. ASSUME NEW s \in Sockets,
              Disconnect(s) \/ ReceiveActivity(s) \/ \E next \in Contexts : BoardJoin(s, next)
       PROVE  UNCHANGED redisVars
  BY <1>10 DEF Disconnect, ReceiveActivity, BoardJoin
<1>11. ASSUME NEW p \in Handlers,
              SelectExpired(p) \/ Enter(p) \/ Refused(p) \/ HandlerFails(p)
       PROVE  UNCHANGED redisVars
  BY <1>11 DEF SelectExpired, Enter, Refused, HandlerFails
<1>12. CASE UNCHANGED roomSessionVars BY <1>9, <1>12 DEF roomSessionVars
<1> QED BY <1>3, <1>4, <1>5, <1>7, <1>8, <1>9, <1>10, <1>11, <1>12
        DEF RoomNext, HandlerStep

-----------------------------------------------------------------------------
(* The sockets: a disconnect begins once, and takes the context away. *)
DetachInv ==
  \A s \in Sockets :
    /\ connected[s] => job[<<s, 0>>].step = "idle"
    /\ ~connected[s] => context[s] = NoContext
    /\ job[<<s, 0>>].step # "idle"
         => job[<<s, 0>>].step \in Leaving /\ job[<<s, 0>>].why = "disconnect"

Own(s) == {p \in Handlers : p[1] = s}
Joins(s) == {p \in Own(s) : p[2] # 0 /\ job[p].step # "idle"}
Detaching(p, b) == job[p].step = "removeParticipant" /\ job[p].leaving = b
Kept(s, b) == s \in roster[b] /\ s \in live[b] /\ s \notin due[b]

(* A socket that is not disturbed has one join under way, and the context  *)
(* is what the join has made it.                                           *)
JoinCalm(s) ==
  \A p \in Joins(s) :
    /\ p[2] = latest[s]
    /\ job[p].step \in Leaving => context[s] = NoContext
    /\ job[p].step = "load" => context[s] \in {NoContext, job[p].target}
    /\ job[p].step \in {"participants", "admit"} /\ connected[s]
         => context[s] = job[p].target

(* It is shown on the board of its context, or one it is about to leave,   *)
(* and a join that is refused was not shown.                               *)
ShownCalm(s) ==
  /\ \A b \in Boards : s \in shown[b] =>
       /\ Kept(s, b)
       /\ \/ context[s].board = b
          \/ \E p \in Own(s) : Detaching(p, b) /\ job[p].why # "refused"
  /\ \A p \in Own(s), b \in Boards :
       Detaching(p, b) /\ job[p].why = "refused" => s \notin shown[b]

(* It is listed and in the room of the board of its context, or about to   *)
(* be listed there, and of no board that it is not about to leave.         *)
RosterCalm(s) ==
  connected[s] => \A b \in Boards :
    /\ s \in roster[b] \/ s \in rooms[b] =>
         context[s].board = b \/ \E p \in Own(s) : Detaching(p, b)
    /\ context[s].board = b =>
         /\ s \in rooms[b]
         /\ \/ Kept(s, b)
            \/ \E p \in Joins(s) : /\ job[p].step \in {"participants", "admit"}
                                   /\ job[p].target.board = b

Calm(s) == JoinCalm(s) /\ ShownCalm(s) /\ RosterCalm(s)
CalmInv == \A s \in Sockets \ disturbed : Calm(s)

-----------------------------------------------------------------------------
(* The rest of the types. *)
RestTypeOK ==
  /\ rooms \in Rosters /\ shown \in Rosters
  /\ activity \in [Sockets -> Boards \cup {Nil}]
  /\ sent \in [Sockets -> Nat] /\ faults \in [Sockets -> Nat]
  /\ disturbed \in SUBSET Sockets

LEMMA TypeParts == RoomTypeOK /\ JobInv <=> SocketTypeOK /\ RedisTypeOK /\ RestTypeOK
  BY DEF RoomTypeOK, SocketTypeOK, RedisTypeOK, RestTypeOK, Rosters

LEMMA RestStep ==
  ASSUME SocketTypeOK, RedisTypeOK, RestTypeOK, [RoomNext]_roomSessionVars
  PROVE  RestTypeOK'
<1> USE DEF RestTypeOK
<1>1. \A p \in Handlers : p[1] \in Sockets /\ job[p].doomed \subseteq Sockets
  BY HandlerFacts DEF SocketTypeOK, Jobs
<1>2. ASSUME NEW p \in Handlers, NEW b, pruneExpired(p, b), UNCHANGED <<roomVars, actVars, faults>>
      PROVE  RestTypeOK'
  BY <1>1, <1>2 DEF pruneExpired, roomVars, actVars
<1>3. ASSUME NEW p \in Handlers, Admission(p) \/ ReadParticipants(p) \/ FinishDetach(p)
      PROVE  RestTypeOK'
  BY <1>2, <1>3 DEF Admission, ReadParticipants, FinishDetach
<1>4. ASSUME NEW p \in Handlers, Enter(p) PROVE RestTypeOK'
  BY <1>1, <1>4 DEF Enter, Add, Rosters, actVars, histVars
<1>5. ASSUME NEW p \in Handlers, Admitted(p) PROVE RestTypeOK'
  BY <1>1, <1>5 DEF Admitted, Add, Rosters, actVars, histVars
<1>6. ASSUME NEW p \in Handlers, RemoveParticipant(p) PROVE RestTypeOK'
  BY <1>1, <1>6 DEF RemoveParticipant, Remove, Rosters, actVars, histVars
<1>7. ASSUME NEW p \in Handlers, HandlerFails(p) PROVE RestTypeOK'
  <2>1. faults' \in [Sockets -> Nat] BY <1>1, <1>7 DEF HandlerFails
  <2> QED BY <1>1, <1>7, <2>1 DEF HandlerFails, roomVars, actVars
<1>8. ASSUME NEW p \in Handlers, SelectExpired(p) \/ Refused(p) PROVE RestTypeOK'
  BY <1>8 DEF SelectExpired, Refused, roomVars, actVars, histVars
<1>9. ASSUME NEW s \in Sockets, NEW next \in Contexts, BoardJoin(s, next) PROVE RestTypeOK'
  BY <1>9 DEF BoardJoin, roomVars, actVars
<1>10. ASSUME NEW s \in Sockets, Disconnect(s) PROVE RestTypeOK'
  BY <1>10 DEF Disconnect, Rosters, actVars, histVars
<1>11. ASSUME NEW s \in Sockets, ReceiveActivity(s) PROVE RestTypeOK'
  <2>1. context[s].board \in Boards BY <1>11, ContextFacts DEF ReceiveActivity, SocketTypeOK
  <2>2. sent' \in [Sockets -> Nat] BY <1>11 DEF ReceiveActivity
  <2> QED BY <1>11, <2>1, <2>2 DEF ReceiveActivity, roomVars, histVars
<1>12. ASSUME NEW s \in Sockets, RefreshActivity(s) PROVE RestTypeOK'
  BY <1>12 DEF RefreshActivity, roomVars, histVars
<1>13. ASSUME NEW s \in Sockets, NEW b \in Boards, Heartbeat(s, b) \/ LeaseRunsOut(s, b)
       PROVE  RestTypeOK'
  BY <1>13 DEF Heartbeat, LeaseRunsOut, roomVars, actVars, histVars
<1>14. ASSUME NEW s \in Sockets, NEW b \in Boards, BeatsMissed(s, b) PROVE RestTypeOK'
  <2>1. faults' \in [Sockets -> Nat] BY <1>14 DEF BeatsMissed
  <2> QED BY <1>14, <2>1 DEF BeatsMissed, roomVars, actVars
<1>15. CASE UNCHANGED roomSessionVars
  BY <1>15 DEF roomSessionVars, roomVars, actVars, histVars
<1> QED BY <1>3, <1>4, <1>5, <1>6, <1>7, <1>8, <1>9, <1>10, <1>11, <1>12, <1>13, <1>14,
           <1>15 DEF RoomNext, HandlerStep

LEMMA HandlerPairs ==
  \A p \in Handlers : p = <<p[1], p[2]>> /\ p[2] \in Nat /\ p[2] <= MaxJoins[p[1]]
<1> SUFFICES ASSUME NEW s \in Sockets, NEW p \in {s} \X (0..MaxJoins[s])
             PROVE  p = <<p[1], p[2]>> /\ p[2] \in Nat /\ p[2] <= MaxJoins[p[1]]
  BY DEF Handlers
<1>1. MaxJoins[s] \in Nat BY RoomConstants
<1>2. p[1] = s /\ p[2] \in 0..MaxJoins[s] /\ p = <<p[1], p[2]>> OBVIOUS
<1> QED BY <1>1, <1>2

LEMMA ZeroHandler == \A s \in Sockets : <<s, 0>> \in Own(s)
<1> SUFFICES ASSUME NEW s \in Sockets PROVE <<s, 0>> \in Own(s) OBVIOUS
<1>1. MaxJoins[s] \in Nat BY RoomConstants
<1> QED BY <1>1, HandlerNames DEF Own

-----------------------------------------------------------------------------
LEMMA SelectFacts ==
  ASSUME SocketTypeOK, RedisTypeOK, NEW p \in Handlers, SelectExpired(p)
  PROVE  \A q \in Handlers : /\ job'[q].step = job[q].step
                             /\ job'[q].target = job[q].target
                             /\ job'[q].leaving = job[q].leaving
                             /\ job'[q].why = job[q].why
<1>1. job' = [job EXCEPT ![p] = [job[p] EXCEPT !.doomed = due[BoardRead(p)]]]
  BY DEF SelectExpired
<1> QED BY <1>1 DEF SocketTypeOK, Jobs

LEMMA DetachStep ==
  ASSUME SocketTypeOK, RedisTypeOK, DetachInv, [RoomNext]_roomSessionVars
  PROVE  DetachInv'
<1> USE DEF SocketTypeOK
<1>1. \A s \in Sockets : <<s, 0>> \in Handlers /\ <<s, 0>>[1] = s BY ZeroHandler DEF Own
<1>2. ASSUME NEW p \in Handlers, job[p].step \in Joining, connected' = connected,
             \A q \in Handlers : q # p => job'[q] = job[q],
             \A s \in Sockets : ~connected[s] => context'[s] = NoContext
      PROVE  DetachInv'
  <2>1. \A s \in Sockets : <<s, 0>> # p BY <1>2 DEF DetachInv, Joining, Leaving
  <2> QED BY <1>1, <1>2, <2>1 DEF DetachInv
<1>3. ASSUME NEW p \in Handlers, SelectExpired(p) PROVE DetachInv'
  BY <1>1, <1>3, SelectFacts DEF DetachInv, SelectExpired, sockVars
<1>4. ASSUME NEW p \in Handlers, Admission(p) PROVE DetachInv'
  <2>1. job[p].step \in Joining /\ connected' = connected BY <1>4 DEF Admission, At, Joining
  <2>2. CASE StartDetach(p, "switch") /\ context[p[1]] # NoContext
    <3>1. context[p[1]].board \in Boards BY <2>2, ContextFacts, HandlerFacts
    <3>2. /\ \A q \in Handlers : q # p => job'[q] = job[q]
          /\ context' = [context EXCEPT ![p[1]] = NoContext]
      BY <2>2, <3>1, DetachFacts DEF Reasons
    <3>3. \A s \in Sockets : ~connected[s] => context'[s] = NoContext BY <3>2 DEF DetachInv
    <3> QED BY <1>2, <2>1, <3>2, <3>3
  <2>3. CASE GoTo(p, "load") /\ UNCHANGED context
    BY <1>2, <2>1, <2>3, GoToFacts DEF DetachInv, Steps
  <2>4. CASE End(p) /\ UNCHANGED context BY <1>2, <2>1, <2>4, EndFacts DEF DetachInv
  <2> QED BY <1>4, <2>2, <2>3, <2>4 DEF Admission
<1>5. ASSUME NEW p \in Handlers, Enter(p) PROVE DetachInv'
  <2>1. job[p].step \in Joining /\ connected' = connected BY <1>5 DEF Enter, At, Joining
  <2>2. CASE /\ isJoinActive(p) /\ GoTo(p, "participants")
             /\ context' = [context EXCEPT ![p[1]] = job[p].target]
    <3>1. \A s \in Sockets : ~connected[s] => context'[s] = NoContext
      BY <2>2 DEF DetachInv, isJoinActive
    <3> QED BY <1>2, <2>1, <2>2, <3>1, GoToFacts DEF Steps
  <2>3. CASE End(p) /\ UNCHANGED context BY <1>2, <2>1, <2>3, EndFacts DEF DetachInv
  <2> QED BY <1>5, <2>2, <2>3 DEF Enter
<1>6. ASSUME NEW p \in Handlers, ReadParticipants(p) PROVE DetachInv'
  BY <1>2, <1>6, GoToFacts DEF DetachInv, ReadParticipants, At, Joining, Steps, sockVars
<1>7. ASSUME NEW p \in Handlers, Admitted(p) PROVE DetachInv'
  BY <1>2, <1>7, EndFacts DEF DetachInv, Admitted, At, Joining, sockVars
<1>8. ASSUME NEW p \in Handlers, Refused(p) PROVE DetachInv'
  <2>1. job[p].step \in Joining /\ connected' = connected
        /\ job[p].target.board \in Boards
    BY <1>8, ContextFacts DEF Refused, At, Joining, JobInv
  <2>2. CASE StartDetach(p, "refused") /\ context[p[1]].board = job[p].target.board
    <3>1. /\ \A q \in Handlers : q # p => job'[q] = job[q]
          /\ context' = [context EXCEPT ![p[1]] = NoContext]
      BY <2>1, <2>2, DetachFacts DEF Reasons
    <3>2. \A s \in Sockets : ~connected[s] => context'[s] = NoContext BY <3>1 DEF DetachInv
    <3> QED BY <1>2, <2>1, <3>1, <3>2
  <2>3. CASE End(p) /\ UNCHANGED context BY <1>2, <2>1, <2>3, EndFacts DEF DetachInv
  <2> QED BY <1>8, <2>2, <2>3 DEF Refused
<1>9. ASSUME NEW p \in Handlers, RemoveParticipant(p) PROVE DetachInv'
  <2>1. job[p].step = "removeParticipant" /\ GoTo(p, "size") /\ UNCHANGED sockVars
    BY <1>9 DEF RemoveParticipant, At
  <2>2. /\ \A q \in Handlers : q # p => job'[q] = job[q]
        /\ job'[p].step = "size" /\ job'[p].why = job[p].why
    BY <2>1, GoToFacts DEF Steps
  <2>3. \A s \in Sockets : job'[<<s, 0>>].step # "idle" =>
          job[<<s, 0>>].step # "idle" /\ job'[<<s, 0>>].step \in Leaving
          /\ job'[<<s, 0>>].why = job[<<s, 0>>].why
    BY <1>1, <2>1, <2>2 DEF DetachInv, Leaving
  <2> QED BY <1>1, <2>1, <2>3 DEF DetachInv, sockVars
<1>10. ASSUME NEW p \in Handlers, FinishDetach(p) PROVE DetachInv'
  <2>1. job[p].step = "size" /\ UNCHANGED sockVars BY <1>10 DEF FinishDetach, At
  <2>2. CASE job[p].why = "switch" /\ GoTo(p, "load")
    BY <1>1, <2>1, <2>2, GoToFacts DEF DetachInv, Steps, sockVars
  <2>3. CASE End(p) BY <1>1, <2>1, <2>3, EndFacts, IdleIsJob DEF DetachInv, sockVars
  <2> QED BY <1>10, <2>2, <2>3 DEF FinishDetach
<1>11. ASSUME NEW p \in Handlers, HandlerFails(p) PROVE DetachInv'
  BY <1>1, <1>11, EndFacts, IdleIsJob DEF DetachInv, HandlerFails, sockVars
<1>12. ASSUME NEW s \in Sockets, NEW next \in Contexts, BoardJoin(s, next)
       PROVE  DetachInv'
  <2>1. latest[s] \in Nat OBVIOUS
  <2>2. \A x \in Sockets : <<s, latest[s] + 1>> # <<x, 0>> BY <2>1
  <2>3. \A x \in Sockets : job'[<<x, 0>>] = job[<<x, 0>>]
    BY <1>1, <1>12, <2>2 DEF BoardJoin
  <2> QED BY <1>12, <2>3 DEF DetachInv, BoardJoin
<1>13. ASSUME NEW s \in Sockets, Disconnect(s) PROVE DetachInv'
  <2>1. connected' = [connected EXCEPT ![s] = FALSE] BY <1>13 DEF Disconnect
  <2>2. CASE context[s] = NoContext BY <1>13, <2>1, <2>2 DEF Disconnect, DetachInv
  <2>3. CASE context[s] # NoContext
    <3>1. StartDetach(<<s, 0>>, "disconnect") BY <1>13, <2>3 DEF Disconnect
    <3>2. context[s].board \in Boards BY <2>3, ContextFacts
    <3>3. /\ job'[<<s, 0>>].step = "removeParticipant" /\ job'[<<s, 0>>].why = "disconnect"
          /\ \A q \in Handlers : q # <<s, 0>> => job'[q] = job[q]
          /\ context' = [context EXCEPT ![s] = NoContext]
      BY <1>1, <3>1, <3>2, DetachFacts DEF Reasons
    <3>4. \A x \in Sockets : x # s => <<x, 0>> # <<s, 0>> OBVIOUS
    <3>5. ASSUME NEW x \in Sockets
          PROVE  /\ connected'[x] => job'[<<x, 0>>].step = "idle"
                 /\ ~connected'[x] => context'[x] = NoContext
                 /\ job'[<<x, 0>>].step # "idle"
                      => job'[<<x, 0>>].step \in Leaving /\ job'[<<x, 0>>].why = "disconnect"
      <4>1. CASE x = s BY <2>1, <3>3, <4>1 DEF Leaving
      <4>2. CASE x # s
        <5>1. /\ job'[<<x, 0>>] = job[<<x, 0>>] /\ connected'[x] = connected[x]
              /\ context'[x] = context[x]
          BY <1>1, <2>1, <3>3, <3>4, <4>2
        <5> QED BY <5>1 DEF DetachInv
      <4> QED BY <4>1, <4>2
    <3> QED BY <3>5 DEF DetachInv
  <2> QED BY <2>2, <2>3
<1>14. CASE UNCHANGED <<sockVars, job>> BY <1>14 DEF sockVars, DetachInv
<1>15. ASSUME NEW s \in Sockets, NEW b \in Boards,
              Heartbeat(s, b) \/ LeaseRunsOut(s, b) \/ BeatsMissed(s, b)
       PROVE  UNCHANGED <<sockVars, job>>
  BY <1>15 DEF Heartbeat, LeaseRunsOut, BeatsMissed
<1>16. ASSUME NEW s \in Sockets, ReceiveActivity(s) \/ RefreshActivity(s)
       PROVE  UNCHANGED <<sockVars, job>>
  BY <1>16 DEF ReceiveActivity, RefreshActivity
<1>17. CASE UNCHANGED roomSessionVars BY <1>14, <1>17 DEF roomSessionVars
<1> QED BY <1>3, <1>4, <1>5, <1>6, <1>7, <1>8, <1>9, <1>10, <1>11, <1>12, <1>13, <1>14,
           <1>15, <1>16, <1>17 DEF RoomNext, HandlerStep

-----------------------------------------------------------------------------
(* Steps that leave a calm socket as it is. *)
Quiet(s) ==
  /\ \A q \in Own(s) : /\ job'[q].step = job[q].step /\ job'[q].target = job[q].target
                       /\ job'[q].leaving = job[q].leaving /\ job'[q].why = job[q].why
  /\ connected'[s] = connected[s] /\ context'[s] = context[s] /\ latest'[s] = latest[s]
  /\ \A b \in Boards : /\ s \in rooms'[b] <=> s \in rooms[b]
                       /\ s \in shown'[b] <=> s \in shown[b]
                       /\ s \in roster'[b] => s \in roster[b]
                       /\ Kept(s, b) /\ (s \in shown[b] \/ Beats(s, b)) => Kept(s, b)'

LEMMA QuietKeepsCalm ==
  ASSUME NEW s \in Sockets, Calm(s), Quiet(s)
  PROVE  Calm(s)'
<1>1. \A q \in Own(s) : /\ job'[q].step = job[q].step /\ job'[q].target = job[q].target
                        /\ job'[q].leaving = job[q].leaving /\ job'[q].why = job[q].why
  BY DEF Quiet
<1>2. Own(s)' = Own(s) BY DEF Own
<1>3. Joins(s)' = Joins(s) BY <1>1, <1>2 DEF Joins
<1>5. JoinCalm(s)'
  BY <1>1, <1>3 DEF Calm, JoinCalm, Quiet, Joins
<1>6. ShownCalm(s)'
  BY <1>1, <1>2 DEF Calm, ShownCalm, Quiet, Kept, Detaching
<1>7. RosterCalm(s)'
  <2> SUFFICES ASSUME connected'[s], NEW b \in Boards
               PROVE  /\ s \in roster'[b] \/ s \in rooms'[b] =>
                           context'[s].board = b \/ \E q \in Own(s) : Detaching(q, b)'
                      /\ context'[s].board = b =>
                           /\ s \in rooms'[b]
                           /\ \/ Kept(s, b)'
                              \/ \E q \in Joins(s) : /\ job'[q].step \in {"participants", "admit"}
                                                     /\ job'[q].target.board = b
    BY <1>2, <1>3 DEF RosterCalm
  <2>1. connected[s] /\ context'[s] = context[s] BY DEF Quiet
  <2>2. s \in roster'[b] \/ s \in rooms'[b] =>
          context'[s].board = b \/ \E q \in Own(s) : Detaching(q, b)'
    BY <1>1, <2>1 DEF Calm, RosterCalm, Quiet, Kept, Detaching
  <2>3. context'[s].board = b => s \in rooms'[b]
    BY <2>1 DEF Calm, RosterCalm, Quiet, Kept
  <2>4. context'[s].board = b /\ Kept(s, b) => Kept(s, b)'
    BY <2>1 DEF Quiet, Beats, Kept
  <2>5. \A q \in Joins(s) : q \in Own(s) BY DEF Joins
  <2>6. context'[s].board = b =>
          \/ Kept(s, b)'
          \/ \E q \in Joins(s) : /\ job'[q].step \in {"participants", "admit"}
                                 /\ job'[q].target.board = b
    BY <1>1, <2>1, <2>4, <2>5 DEF Calm, RosterCalm
  <2> QED BY <2>2, <2>3, <2>6
<1> QED BY <1>5, <1>6, <1>7 DEF Calm

(* A pruning that takes a live entry disturbs its socket. *)
LEMMA PruneIsQuiet ==
  ASSUME RedisTypeOK, NEW p, NEW b, pruneExpired(p, b), NEW s, s \notin disturbed'
  PROVE  \A c \in Boards : /\ s \in roster'[c] => s \in roster[c]
                           /\ Kept(s, c) => Kept(s, c)'
<1>1. s \notin job[p].doomed \/ s \notin live[b] BY DEF pruneExpired
<1>2. \A c \in Boards :
        /\ roster'[c] = IF c = b THEN roster[c] \ job[p].doomed ELSE roster[c]
        /\ live'[c] = IF c = b THEN live[c] \ job[p].doomed ELSE live[c]
        /\ due'[c] = IF c = b THEN due[c] \ job[p].doomed ELSE due[c]
  BY PruneFacts DEF pruneExpired, Remove, RedisTypeOK, Rosters
<1> QED BY <1>1, <1>2 DEF Kept

LEMMA TouchIsQuiet ==
  ASSUME RedisTypeOK, NEW b, NEW x \in Sockets, touchParticipant(b, x), NEW s
  PROVE  \A c \in Boards : s \in roster'[c] /\ Kept(s, c) => Kept(s, c)'
  BY TouchFacts DEF Kept

(* The steps of others. *)
LEMMA ForeignIsQuiet ==
  ASSUME SocketTypeOK, RedisTypeOK, RestTypeOK, NEW s \in Sockets, s \notin disturbed',
         NEW p \in Handlers, p[1] # s, HandlerStep(p) \/ HandlerFails(p)
  PROVE  Quiet(s)
<1> USE DEF SocketTypeOK
<1> DEFINE Same == /\ \A q \in Handlers : q # p => job'[q] = job[q]
                   /\ context'[s] = context[s]
<1>1. \A q \in Own(s) : q # p /\ q \in Handlers BY DEF Own
<1>2. ASSUME Same, UNCHANGED <<connected, latest>>,
             \A b \in Boards : /\ s \in rooms'[b] <=> s \in rooms[b]
                               /\ s \in shown'[b] <=> s \in shown[b]
                               /\ s \in roster'[b] => s \in roster[b]
                               /\ Kept(s, b) => Kept(s, b)'
      PROVE  Quiet(s)
  BY <1>1, <1>2 DEF Quiet
<1>3. ASSUME NEW why \in Reasons, StartDetach(p, why), context[p[1]].board \in Boards
      PROVE  Same
  BY <1>3, DetachFacts
<1>4. ASSUME NEW name \in Steps, GoTo(p, name), context' = context PROVE Same
  BY <1>4, GoToFacts
<1>5. ASSUME End(p), context' = context PROVE Same BY <1>5, EndFacts
<1> HIDE DEF Same
<1>6. CASE Admission(p)
  <2>1. Same
    <3>1. CASE StartDetach(p, "switch") /\ context[p[1]] # NoContext
      <4>1. context[p[1]].board \in Boards BY <3>1, ContextFacts, HandlerFacts
      <4> QED BY <1>3, <3>1, <4>1 DEF Reasons
    <3> QED BY <1>4, <1>5, <1>6, <3>1 DEF Admission, Steps
  <2> QED BY <1>2, <1>6, <2>1, PruneIsQuiet DEF Admission, roomVars
<1>7. CASE Enter(p)
  <2>1. Same
    <3>1. CASE GoTo(p, "participants") /\ context' = [context EXCEPT ![p[1]] = job[p].target]
      <4>1. \A q \in Handlers : q # p => job'[q] = job[q] BY <3>1, GoToFacts DEF Steps
      <4> QED BY <3>1, <4>1 DEF Same
    <3> QED BY <1>5, <1>7, <3>1 DEF Enter
  <2>2. \A b \in Boards : s \in rooms'[b] <=> s \in rooms[b]
    BY <1>7 DEF Enter, Add, RestTypeOK, Rosters
  <2> QED BY <1>2, <1>7, <2>1, <2>2 DEF Enter, redisVars, Kept
<1>8. CASE ReadParticipants(p)
  <2>1. Same BY <1>4, <1>8 DEF ReadParticipants, Steps, sockVars
  <2> QED BY <1>2, <1>8, <2>1, PruneIsQuiet DEF ReadParticipants, roomVars, sockVars
<1>9. CASE Admitted(p)
  <2>1. Same BY <1>5, <1>9 DEF Admitted, sockVars
  <2>2. \A b \in Boards : s \in shown'[b] <=> s \in shown[b]
    BY <1>9 DEF Admitted, Add, RestTypeOK, Rosters
  <2>3. \A b \in Boards : s \in roster'[b] <=> s \in roster[b]
    BY <1>9 DEF Admitted, admitParticipant, Add, RedisTypeOK, Rosters
  <2>4. \A b \in Boards : Kept(s, b) => Kept(s, b)'
    BY <1>9, <2>3, HandlerFacts, TouchIsQuiet DEF Admitted, admitParticipant, Kept
  <2> QED BY <1>2, <1>9, <2>1, <2>2, <2>3, <2>4 DEF Admitted, sockVars
<1>10. CASE Refused(p)
  <2>1. job[p].target.board \in Boards
    BY <1>10, ContextFacts DEF Refused, At, Joining, JobInv
  <2>2. Same BY <1>3, <1>5, <1>10, <2>1 DEF Refused, Reasons
  <2> QED BY <1>2, <1>10, <2>2 DEF Refused, redisVars, roomVars, Kept
<1>11. CASE RemoveParticipant(p)
  <2>1. Same BY <1>4, <1>11 DEF RemoveParticipant, Steps, sockVars
  <2>2. \A b \in Boards : /\ s \in rooms'[b] <=> s \in rooms[b]
                          /\ s \in shown'[b] <=> s \in shown[b]
    BY <1>11 DEF RemoveParticipant, Remove, RestTypeOK, Rosters
  <2>3. \A b \in Boards : /\ s \in roster'[b] <=> s \in roster[b]
                          /\ s \in live'[b] <=> s \in live[b]
                          /\ s \in due'[b] <=> s \in due[b]
    BY <1>11 DEF RemoveParticipant, Remove, RedisTypeOK, Rosters
  <2> QED BY <1>2, <1>11, <2>1, <2>2, <2>3 DEF RemoveParticipant, sockVars, Kept
<1>12. CASE FinishDetach(p)
  <2>1. Same BY <1>4, <1>5, <1>12 DEF FinishDetach, Steps, sockVars
  <2> QED BY <1>2, <1>12, <2>1, PruneIsQuiet DEF FinishDetach, roomVars, sockVars
<1>13. CASE HandlerFails(p)
  <2>1. Same BY <1>5, <1>13 DEF HandlerFails, sockVars
  <2> QED BY <1>2, <1>13, <2>1 DEF HandlerFails, redisVars, roomVars, sockVars, Kept
<1>14. CASE SelectExpired(p)
  <2>1. \A q \in Own(s) : /\ job'[q].step = job[q].step /\ job'[q].target = job[q].target
                          /\ job'[q].leaving = job[q].leaving /\ job'[q].why = job[q].why
    BY <1>1, <1>14, SelectFacts
  <2> QED BY <1>14, <2>1 DEF SelectExpired, Quiet, sockVars, redisVars, roomVars, Kept
<1> QED BY <1>6, <1>7, <1>8, <1>9, <1>10, <1>11, <1>12, <1>13, <1>14 DEF HandlerStep

-----------------------------------------------------------------------------
(* The steps of the socket itself. *)

LEMMA JoinFacts ==
  ASSUME SocketTypeOK, DetachInv, NEW s \in Sockets, Calm(s),
         NEW p \in Own(s), job[p].step \in Joining
  PROVE  /\ p \in Joins(s)
         /\ isJoinActive(p) <=> connected[s]
         /\ job[p].target \in Contexts /\ job[p].target.board \in Boards
         /\ \A q \in Joins(s) : q = p
         /\ connected[s] => \A q \in Own(s) : q # p => job[q].step = "idle"
<1>1. \A q \in Own(s) : q \in Handlers /\ q = <<s, q[2]>> /\ q[1] = s
  BY HandlerPairs DEF Own
<1>2. p[2] # 0 BY <1>1 DEF DetachInv, Joining, Leaving
<1>3. p \in Joins(s) BY <1>2 DEF Joins, Joining
<1>4. \A q \in Joins(s) : q \in Own(s) /\ q[2] = latest[s] BY DEF Calm, JoinCalm, Joins
<1>5. \A q \in Joins(s) : q = p BY <1>1, <1>3, <1>4
<1>6. ASSUME connected[s], NEW q \in Own(s), q # p PROVE job[q].step = "idle"
  <2>1. CASE q[2] = 0 BY <1>1, <1>6, <2>1 DEF DetachInv
  <2>2. CASE q[2] # 0 BY <1>5, <1>6, <2>2 DEF Joins
  <2> QED BY <2>1, <2>2
<1>7. job[p].target \in Contexts /\ job[p].target.board \in Boards
  BY <1>1, ContextFacts DEF SocketTypeOK, JobInv
<1>8. isJoinActive(p) <=> connected[s] BY <1>1, <1>3, <1>4 DEF isJoinActive
<1> QED BY <1>3, <1>5, <1>6, <1>7, <1>8

(* A join that ends or goes on to load without having entered. *)
LEMMA EarlyStepKeepsCalm ==
  ASSUME SocketTypeOK, DetachInv, NEW s \in Sockets, Calm(s),
         NEW p \in Own(s), job[p].step \in {"admission", "load"},
         \A q \in Own(s) : q # p => job'[q] = job[q],
         \/ job'[p].step = "idle"
         \/ /\ job'[p].step = "load" /\ job'[p].target = job[p].target
            /\ context[s] \in {NoContext, job[p].target},
         UNCHANGED <<connected, context, latest, rooms, shown>>,
         \A b \in Boards : /\ s \in roster'[b] => s \in roster[b]
                           /\ Kept(s, b) => Kept(s, b)'
  PROVE  Calm(s)'
<1>1. /\ \A q \in Joins(s) : q = p
      /\ p \in Joins(s)
  BY JoinFacts DEF Joining
<1>2. \A q \in Own(s)' : q \in Own(s) BY DEF Own
<1>3. \A q \in Joins(s)' : q = p /\ job'[p].step = "load"
  BY <1>1, <1>2 DEF Joins
<1>4. JoinCalm(s)' BY <1>1, <1>3 DEF Calm, JoinCalm, Leaving
<1>5. \A q \in Own(s), b \in Boards :
        /\ Detaching(q, b)' <=> Detaching(q, b)
        /\ Detaching(q, b) => job'[q].why = job[q].why
  BY DEF Detaching
<1>6. Own(s)' = Own(s) BY DEF Own
<1>7. ShownCalm(s)' BY <1>5, <1>6 DEF Calm, ShownCalm
<1>8. ASSUME connected[s], NEW b \in Boards, context[s].board = b
      PROVE  s \in rooms[b] /\ Kept(s, b)
  BY <1>1, <1>8 DEF Calm, RosterCalm
<1>9. RosterCalm(s)' BY <1>5, <1>6, <1>8 DEF Calm, RosterCalm
<1> QED BY <1>4, <1>7, <1>9 DEF Calm

(* The socket leaves the board of its context: a switch, a refused join or *)
(* a disconnect.                                                           *)
LEMMA LeavingKeepsCalm ==
  ASSUME SocketTypeOK, DetachInv, NEW s \in Sockets, Calm(s),
         NEW p \in Own(s), connected[s], NEW why \in Reasons,
         \A q \in Own(s) : q # p => job'[q] = job[q],
         job[p].step # "removeParticipant",
         job'[p].step = "removeParticipant", job'[p].why = why,
         NEW old \in Boards, context[s].board = old, job'[p].leaving = old,
         why = "refused" => s \notin shown[old],
         context'[s] = NoContext, UNCHANGED <<latest, shown>>,
         \/ /\ connected'[s] /\ p \in Joins(s)
            /\ \A b \in Boards : s \in rooms'[b] => s \in rooms[b]
         \/ ~connected'[s] /\ p = <<s, 0>>,
         \A b \in Boards : /\ s \in roster'[b] => s \in roster[b]
                           /\ Kept(s, b) => Kept(s, b)'
  PROVE  Calm(s)'
<1>1. Own(s)' = Own(s) BY DEF Own
<1>2. \A q \in Joins(s)' : q \in Joins(s) /\ (q # p => job'[q] = job[q])
  BY <1>1, ContextFacts DEF Joins
<1>3. JoinCalm(s)'
  <2> SUFFICES ASSUME NEW q \in Joins(s)'
               PROVE  /\ q[2] = latest'[s]
                      /\ job'[q].step \in {"participants", "admit"} => ~connected'[s]
    BY DEF JoinCalm
  <2>1. q \in Joins(s) BY <1>2
  <2>2. q[2] = latest[s] BY <2>1 DEF Calm, JoinCalm
  <2>3. CASE q = p BY <2>2, <2>3
  <2>4. CASE q # p /\ connected'[s]
    <3>1. p \in Joins(s) BY <2>4
    <3>2. p[2] = latest[s] BY <3>1 DEF Calm, JoinCalm
    <3>3. p = <<s, p[2]>> /\ q = <<s, q[2]>> BY <2>1, HandlerPairs DEF Own, Joins
    <3> QED BY <2>2, <2>4, <3>2, <3>3
  <2> QED BY <2>2, <2>3, <2>4
<1>4. \A q \in Own(s), b \in Boards : Detaching(q, b) =>
        q # p /\ Detaching(q, b)' /\ job'[q].why = job[q].why
  BY DEF Detaching
<1>5. Detaching(p, old)' BY DEF Detaching
<1>6. ASSUME NEW b \in Boards, s \in shown'[b]
      PROVE  Kept(s, b)' /\ \E q \in Own(s) : Detaching(q, b)' /\ job'[q].why # "refused"
  <2>1. Kept(s, b) /\ (b = old \/ \E q \in Own(s) : Detaching(q, b) /\ job[q].why # "refused")
    BY <1>6 DEF Calm, ShownCalm
  <2>2. CASE b = old BY <1>5, <1>6, <2>1, <2>2
  <2> QED BY <1>4, <2>1, <2>2
<1>7. ASSUME NEW q \in Own(s), NEW b \in Boards, Detaching(q, b)', job'[q].why = "refused"
      PROVE  s \notin shown'[b]
  <2>1. CASE q = p BY <1>7, <2>1 DEF Detaching
  <2>2. CASE q # p BY <1>7, <2>2 DEF Detaching, Calm, ShownCalm
  <2> QED BY <2>1, <2>2
<1>8. ShownCalm(s)' BY <1>1, <1>6, <1>7 DEF ShownCalm
<1>9. ASSUME connected'[s], NEW b \in Boards, s \in roster'[b] \/ s \in rooms'[b]
      PROVE  \E q \in Own(s) : Detaching(q, b)'
  <2>1. b = old \/ \E q \in Own(s) : Detaching(q, b) BY <1>9 DEF Calm, RosterCalm
  <2> QED BY <1>4, <1>5, <2>1
<1>10. \A b \in Boards : context'[s].board # b BY ContextFacts, RoomConstants
<1>11. RosterCalm(s)' BY <1>1, <1>9, <1>10 DEF RosterCalm
<1> QED BY <1>3, <1>8, <1>11 DEF Calm

(* The loaded join enters the room. *)
LEMMA EnterKeepsCalm ==
  ASSUME SocketTypeOK, RestTypeOK, DetachInv, NEW s \in Sockets, Calm(s),
         NEW p \in Own(s), Enter(p)
  PROVE  Calm(s)'
<1>1. /\ p \in Handlers /\ p[1] = s /\ job[p].step = "load"
      /\ UNCHANGED <<connected, latest, shown, roster, live, due>>
  BY DEF Own, Enter, At, redisVars
<1>2. /\ p \in Joins(s)
      /\ isJoinActive(p) <=> connected[s]
      /\ job[p].target \in Contexts /\ job[p].target.board \in Boards
      /\ \A q \in Joins(s) : q = p
      /\ connected[s] => \A q \in Own(s) : q # p => job[q].step = "idle"
  BY <1>1, JoinFacts DEF Joining
<1>3. \A q \in Own(s) : q \in Handlers BY DEF Own
<1>4. CASE ~isJoinActive(p)
  <2>1. End(p) /\ UNCHANGED <<rooms, context>> BY <1>4 DEF Enter
  <2>2. job'[p].step = "idle" /\ \A q \in Own(s) : q # p => job'[q] = job[q]
    BY <1>1, <1>3, <2>1, EndFacts, IdleIsJob DEF SocketTypeOK
  <2>3. \A b \in Boards : Kept(s, b) => Kept(s, b)' BY <1>1 DEF Kept
  <2> QED BY <1>1, <2>1, <2>2, <2>3, EarlyStepKeepsCalm
<1>5. CASE isJoinActive(p)
  <2> DEFINE t == job[p].target
  <2>1. /\ connected[s] /\ GoTo(p, "participants")
        /\ context' = [context EXCEPT ![s] = t]
        /\ rooms' = Add(rooms, t.board, s)
    BY <1>1, <1>2, <1>5 DEF Enter
  <2>2. /\ \A q \in Own(s) : q # p => job'[q] = job[q]
        /\ job'[p].step = "participants" /\ job'[p].target = t
    BY <1>1, <1>3, <2>1, GoToFacts DEF SocketTypeOK, Steps
  <2>3. context'[s] = t /\ context[s] \in {NoContext, t}
    BY <1>1, <1>2, <2>1 DEF SocketTypeOK, Calm, JoinCalm
  <2>4. \A b \in Boards : rooms'[b] = IF b = t.board THEN rooms[b] \cup {s} ELSE rooms[b]
    BY <2>1 DEF RestTypeOK, Rosters, Add
  <2>5. Own(s)' = Own(s) BY DEF Own
  <2>6. \A q \in Own(s), b \in Boards : ~Detaching(q, b) /\ ~Detaching(q, b)'
    BY <1>1, <1>2, <2>1, <2>2 DEF Detaching
  <2>7. \A q \in Joins(s)' : q = p BY <1>2, <2>2, <2>5 DEF Joins
  <2>8. p \in Joins(s)' BY <1>2, <2>2, <2>5 DEF Joins
  <2>9. p[2] = latest[s] BY <1>2 DEF Calm, JoinCalm
  <2>10. JoinCalm(s)' BY <1>1, <2>2, <2>3, <2>7, <2>9 DEF JoinCalm, Leaving
  <2>11. ASSUME NEW b \in Boards, context[s].board = b PROVE b = t.board
    BY <2>3, <2>11, ContextFacts, RoomConstants
  <2>12. ASSUME NEW b \in Boards, s \in shown[b] PROVE Kept(s, b) /\ b = t.board
    BY <2>6, <2>11, <2>12 DEF Calm, ShownCalm
  <2>13. \A b \in Boards : Kept(s, b)' <=> Kept(s, b) BY <1>1 DEF Kept
  <2>14. ShownCalm(s)' BY <1>1, <2>3, <2>5, <2>6, <2>12, <2>13 DEF ShownCalm
  <2>15. ASSUME NEW b \in Boards, s \in roster[b] \/ s \in rooms[b] PROVE b = t.board
    BY <2>1, <2>6, <2>11, <2>15 DEF Calm, RosterCalm
  <2>16. ASSUME NEW b \in Boards, s \in roster'[b] \/ s \in rooms'[b]
         PROVE  context'[s].board = b
    BY <1>1, <2>3, <2>4, <2>15, <2>16
  <2>17. ASSUME NEW b \in Boards, context'[s].board = b
         PROVE  s \in rooms'[b] /\ job'[p].target.board = b
    BY <2>2, <2>3, <2>4, <2>17
  <2>18. RosterCalm(s)' BY <2>2, <2>5, <2>8, <2>16, <2>17 DEF RosterCalm
  <2> QED BY <2>10, <2>14, <2>18 DEF Calm
<1> QED BY <1>4, <1>5

LEMMA AdmittedKeepsCalm ==
  ASSUME SocketTypeOK, RedisTypeOK, RestTypeOK, DetachInv, NEW s \in Sockets, Calm(s),
         NEW p \in Own(s), Admitted(p)
  PROVE  Calm(s)'
<1>1. /\ p \in Handlers /\ p[1] = s /\ job[p].step = "admit"
      /\ UNCHANGED <<connected, context, latest, rooms>> /\ End(p)
  BY DEF Own, Admitted, At, sockVars
<1>2. /\ p \in Joins(s)
      /\ isJoinActive(p) <=> connected[s]
      /\ job[p].target \in Contexts /\ job[p].target.board \in Boards
      /\ \A q \in Joins(s) : q = p
      /\ connected[s] => \A q \in Own(s) : q # p => job[q].step = "idle"
  BY <1>1, JoinFacts DEF Joining
<1> DEFINE b == job[p].target.board
<1>3. job'[p].step = "idle" /\ \A q \in Own(s) : q # p => job'[q] = job[q]
  BY <1>1, EndFacts, IdleIsJob DEF SocketTypeOK, Own
<1>4. admitParticipant(b, s) /\ shown' = IF connected[s] THEN Add(shown, b, s) ELSE shown
  BY <1>1, <1>2 DEF Admitted
<1>5. \A c \in Boards :
        /\ roster'[c] = IF c = b THEN roster[c] \cup {s} ELSE roster[c]
        /\ live'[c] = IF c = b THEN live[c] \cup {s} ELSE live[c]
        /\ due'[c] = IF c = b THEN due[c] \ {s} ELSE due[c]
  BY <1>4 DEF admitParticipant, touchParticipant, RedisTypeOK, Rosters, Add, Remove
<1>6. \A c \in Boards :
        shown'[c] = IF c = b /\ connected[s] THEN shown[c] \cup {s} ELSE shown[c]
  BY <1>4 DEF RestTypeOK, Rosters, Add
<1>7. Own(s)' = Own(s) BY DEF Own
<1>8. \A q \in Joins(s)' : FALSE BY <1>2, <1>3, <1>7 DEF Joins
<1>9. JoinCalm(s)' BY <1>8 DEF JoinCalm
<1>11. \A c \in Boards : (c = b \/ Kept(s, c)) =>
         s \in roster'[c] /\ s \in live'[c] /\ s \notin due'[c]
  BY <1>5 DEF Kept
<1>12. connected[s] => context[s] = job[p].target
  BY <1>1, <1>2 DEF Calm, JoinCalm
<1>13. \A q \in Own(s), c \in Boards :
         /\ Detaching(q, c)' <=> Detaching(q, c)
         /\ Detaching(q, c) => job'[q].why = job[q].why /\ ~connected[s]
  BY <1>1, <1>2, <1>3 DEF Detaching
<1>14. ASSUME NEW c \in Boards, s \in shown'[c]
       PROVE  /\ Kept(s, c)'
              /\ \/ context[s].board = c
                 \/ \E q \in Own(s) : Detaching(q, c)' /\ job'[q].why # "refused"
  <2>1. CASE s \in shown[c] BY <1>11, <1>13, <2>1 DEF Calm, ShownCalm, Kept
  <2>2. CASE s \notin shown[c]
    <3>1. c = b /\ connected[s] BY <1>6, <1>14, <2>2
    <3> QED BY <1>11, <1>12, <3>1 DEF Kept
  <2> QED BY <2>1, <2>2
<1>15. ASSUME NEW q \in Own(s), NEW c \in Boards, Detaching(q, c)', job'[q].why = "refused"
       PROVE  s \notin shown'[c]
  <2>1. Detaching(q, c) /\ job[q].why = "refused" /\ ~connected[s] BY <1>13, <1>15
  <2> QED BY <1>6, <2>1 DEF Calm, ShownCalm
<1>16. ShownCalm(s)' BY <1>1, <1>7, <1>14, <1>15 DEF ShownCalm
<1>17. ASSUME connected[s], NEW c \in Boards
       PROVE  /\ s \in roster'[c] \/ s \in rooms[c] => context[s].board = c
              /\ context[s].board = c => s \in rooms[c] /\ Kept(s, c)'
  <2>1. \A q \in Own(s) : ~Detaching(q, c) BY <1>13, <1>17
  <2>2. s \in roster[c] \/ s \in rooms[c] => context[s].board = c
    BY <1>17, <2>1 DEF Calm, RosterCalm
  <2>3. context[s].board = b BY <1>12, <1>17
  <2>4. s \in rooms[b] BY <1>2, <1>17, <2>3 DEF Calm, RosterCalm
  <2> QED BY <1>2, <1>5, <1>11, <2>2, <2>3, <2>4 DEF Kept
<1>18. RosterCalm(s)' BY <1>1, <1>17 DEF RosterCalm
<1> QED BY <1>9, <1>16, <1>18 DEF Calm

LEMMA AdmissionKeepsCalm ==
  ASSUME SocketTypeOK, RedisTypeOK, DetachInv, NEW s \in Sockets, Calm(s), s \notin disturbed',
         NEW p \in Own(s), Admission(p)
  PROVE  Calm(s)'
<1>1. /\ p \in Handlers /\ p[1] = s /\ job[p].step = "admission"
      /\ UNCHANGED <<connected, latest, rooms, shown>>
      /\ pruneExpired(p, job[p].target.board)
  BY DEF Own, Admission, At, roomVars
<1>2. \A c \in Boards : /\ s \in roster'[c] => s \in roster[c]
                        /\ Kept(s, c) => Kept(s, c)'
  BY <1>1, PruneIsQuiet
<1>3. \A q \in Own(s) : q \in Handlers BY DEF Own
<1>4. CASE End(p) /\ UNCHANGED context
  <2>1. job'[p].step = "idle" /\ \A q \in Own(s) : q # p => job'[q] = job[q]
    BY <1>1, <1>3, <1>4, EndFacts, IdleIsJob DEF SocketTypeOK
  <2> QED BY <1>1, <1>2, <1>4, <2>1, EarlyStepKeepsCalm
<1>5. CASE /\ GoTo(p, "load") /\ UNCHANGED context
           /\ context[s] \in {NoContext, job[p].target}
  <2>1. /\ job'[p].step = "load" /\ job'[p].target = job[p].target
        /\ \A q \in Own(s) : q # p => job'[q] = job[q]
    BY <1>1, <1>3, <1>5, GoToFacts DEF SocketTypeOK, Steps
  <2> QED BY <1>1, <1>2, <1>5, <2>1, EarlyStepKeepsCalm
<1>6. CASE StartDetach(p, "switch") /\ isJoinActive(p) /\ context[s] # NoContext
  <2>1. context[s].board \in Boards BY <1>6, ContextFacts DEF SocketTypeOK
  <2>2. PICK old \in Boards : context[s].board = old BY <2>1
  <2>3. /\ job'[p].step = "removeParticipant" /\ job'[p].why = "switch"
        /\ job'[p].leaving = old
        /\ \A q \in Own(s) : q # p => job'[q] = job[q]
        /\ context' = [context EXCEPT ![s] = NoContext]
    BY <1>1, <1>3, <1>6, <2>2, DetachFacts DEF SocketTypeOK, Reasons
  <2>4. connected[s] /\ p \in Joins(s) BY <1>1, <1>6, JoinFacts DEF Joining
  <2>5. context'[s] = NoContext BY <2>3 DEF SocketTypeOK
  <2>6. "switch" \in Reasons /\ "switch" # "refused" BY DEF Reasons
  <2> QED BY <1>1, <1>2, <2>2, <2>3, <2>4, <2>5, <2>6, LeavingKeepsCalm
<1> QED BY <1>1, <1>4, <1>5, <1>6 DEF Admission

LEMMA RefusedKeepsCalm ==
  ASSUME SocketTypeOK, RedisTypeOK, DetachInv, NEW s \in Sockets, Calm(s),
         NEW p \in Own(s), Refused(p)
  PROVE  Calm(s)'
<1>1. /\ p \in Handlers /\ p[1] = s /\ job[p].step = "admit"
      /\ UNCHANGED <<connected, latest, rooms, shown, roster, live, due>>
      /\ s \notin roster[job[p].target.board]
  BY DEF Own, Refused, At, HasRoom, redisVars, roomVars
<1>2. /\ p \in Joins(s)
      /\ job[p].target \in Contexts /\ job[p].target.board \in Boards
      /\ \A q \in Joins(s) : q = p
  BY <1>1, JoinFacts DEF Joining
<1>3. \A q \in Own(s) : q \in Handlers BY DEF Own
<1>4. \A c \in Boards : /\ s \in roster'[c] <=> s \in roster[c]
                        /\ Kept(s, c)' <=> Kept(s, c)
  BY <1>1 DEF Kept
<1>5. CASE context[s].board = job[p].target.board
  <2>1. StartDetach(p, "refused") BY <1>1, <1>5 DEF Refused
  <2>2. PICK old \in Boards : context[s].board = old BY <1>2, <1>5
  <2>3. /\ job'[p].step = "removeParticipant" /\ job'[p].why = "refused"
        /\ job'[p].leaving = old
        /\ \A q \in Own(s) : q # p => job'[q] = job[q]
        /\ context' = [context EXCEPT ![s] = NoContext]
    BY <1>1, <1>3, <2>1, <2>2, DetachFacts DEF SocketTypeOK, Reasons
  <2>4. connected[s] BY <2>2, ContextFacts, RoomConstants DEF DetachInv
  <2>5. context'[s] = NoContext BY <2>3 DEF SocketTypeOK
  <2>6. s \notin shown[old] BY <1>1, <1>5, <2>2 DEF Calm, ShownCalm, Kept
  <2>7. "refused" \in Reasons BY DEF Reasons
  <2> QED BY <1>1, <1>2, <1>4, <2>2, <2>3, <2>4, <2>5, <2>6, <2>7, LeavingKeepsCalm
<1>6. CASE context[s].board # job[p].target.board
  <2>1. End(p) /\ UNCHANGED context BY <1>1, <1>6 DEF Refused
  <2>2. job'[p].step = "idle" /\ \A q \in Own(s) : q # p => job'[q] = job[q]
    BY <1>1, <1>3, <2>1, EndFacts, IdleIsJob DEF SocketTypeOK
  <2>3. ~connected[s] BY <1>1, <1>2, <1>6 DEF Calm, JoinCalm
  <2>4. Own(s)' = Own(s) BY DEF Own
  <2>5. JoinCalm(s)' BY <1>2, <2>2, <2>4 DEF JoinCalm, Joins
  <2>6. \A q \in Own(s), b \in Boards :
          /\ Detaching(q, b)' <=> Detaching(q, b)
          /\ Detaching(q, b) => job'[q].why = job[q].why
    BY <1>1, <2>2 DEF Detaching
  <2>7. ShownCalm(s)' BY <1>1, <1>4, <2>1, <2>4, <2>6 DEF Calm, ShownCalm
  <2>8. RosterCalm(s)' BY <1>1, <2>3 DEF RosterCalm
  <2> QED BY <2>5, <2>7, <2>8 DEF Calm
<1> QED BY <1>5, <1>6

(* The roster is read for the socket that has entered. *)
LEMMA ReadKeepsCalm ==
  ASSUME SocketTypeOK, RedisTypeOK, DetachInv, NEW s \in Sockets, Calm(s), s \notin disturbed',
         NEW p \in Own(s), ReadParticipants(p)
  PROVE  Calm(s)'
<1>1. /\ p \in Handlers /\ p[1] = s /\ job[p].step = "participants" /\ GoTo(p, "admit")
      /\ UNCHANGED <<connected, context, latest, rooms, shown>>
      /\ pruneExpired(p, job[p].target.board)
  BY DEF Own, ReadParticipants, At, sockVars, roomVars
<1>2. \A c \in Boards : /\ s \in roster'[c] => s \in roster[c]
                        /\ Kept(s, c) => Kept(s, c)'
  BY <1>1, PruneIsQuiet
<1>3. \A q \in Own(s) : q \in Handlers BY DEF Own
<1>4. /\ job'[p].step = "admit" /\ job'[p].target = job[p].target
      /\ \A q \in Own(s) : q # p => job'[q] = job[q]
  BY <1>1, <1>3, GoToFacts DEF SocketTypeOK, Steps
<1>5. p \in Joins(s) /\ \A q \in Joins(s) : q = p BY <1>1, JoinFacts DEF Joining
<1>6. Own(s)' = Own(s) BY DEF Own
<1>7. p \in Joins(s)' /\ \A q \in Joins(s)' : q = p
  BY <1>4, <1>5, <1>6 DEF Joins
<1>8. JoinCalm(s)' BY <1>1, <1>4, <1>5, <1>7 DEF Calm, JoinCalm, Leaving
<1>9. \A q \in Own(s), b \in Boards :
        /\ Detaching(q, b)' <=> Detaching(q, b)
        /\ Detaching(q, b) => job'[q].why = job[q].why
  BY <1>1, <1>4 DEF Detaching
<1>10. ShownCalm(s)' BY <1>1, <1>2, <1>6, <1>9 DEF Calm, ShownCalm
<1>11. ASSUME connected[s], NEW b \in Boards, context[s].board = b
       PROVE  s \in rooms[b] /\ job'[p].target.board = b
  BY <1>1, <1>4, <1>5, <1>11 DEF Calm, JoinCalm, RosterCalm
<1>12. RosterCalm(s)'
  BY <1>1, <1>2, <1>4, <1>6, <1>7, <1>9, <1>11 DEF Calm, RosterCalm
<1> QED BY <1>8, <1>10, <1>12 DEF Calm

LEMMA LeavingFacts ==
  ASSUME SocketTypeOK, DetachInv, NEW s \in Sockets, Calm(s),
         NEW p \in Own(s), job[p].step \in Leaving
  PROVE  /\ context[s] = NoContext /\ job[p].leaving \in Boards
         /\ \A q \in Joins(s) : q[2] = latest[s]
<1>1. p \in Handlers /\ p = <<s, p[2]>> BY HandlerPairs DEF Own
<1>2. p[2] = 0 => context[s] = NoContext BY <1>1 DEF DetachInv, Leaving
<1>3. ASSUME p[2] # 0 PROVE context[s] = NoContext
  <2>1. p \in Joins(s) BY <1>3 DEF Joins, Leaving
  <2> QED BY <2>1 DEF Calm, JoinCalm
<1>4. job[p].leaving \in Boards BY <1>1 DEF SocketTypeOK, JobInv
<1> QED BY <1>2, <1>3, <1>4 DEF Calm, JoinCalm

LEMMA RemoveKeepsCalm ==
  ASSUME SocketTypeOK, RedisTypeOK, RestTypeOK, DetachInv, NEW s \in Sockets, Calm(s),
         NEW p \in Own(s), RemoveParticipant(p)
  PROVE  Calm(s)'
<1>1. /\ p \in Handlers /\ p[1] = s /\ job[p].step = "removeParticipant" /\ GoTo(p, "size")
      /\ UNCHANGED <<connected, context, latest>>
  BY DEF Own, RemoveParticipant, At, sockVars
<1>2. /\ context[s] = NoContext /\ job[p].leaving \in Boards
      /\ \A q \in Joins(s) : q[2] = latest[s]
  BY <1>1, LeavingFacts DEF Leaving
<1>3. \A q \in Own(s) : q \in Handlers BY DEF Own
<1>4. /\ job'[p].step = "size"
      /\ \A q \in Own(s) : q # p => job'[q] = job[q]
  BY <1>1, <1>3, GoToFacts DEF SocketTypeOK, Steps
<1>5. PICK b \in Boards : b = job[p].leaving BY <1>2
<1>6. \A c \in Boards : c # b =>
        /\ roster'[c] = roster[c] /\ live'[c] = live[c] /\ due'[c] = due[c]
        /\ shown'[c] = shown[c] /\ rooms'[c] = rooms[c]
  BY <1>5 DEF RemoveParticipant, Remove, RedisTypeOK, RestTypeOK, Rosters
<1>7. s \notin roster'[b] /\ s \notin rooms'[b]
  BY <1>1, <1>5 DEF RemoveParticipant, Remove, RedisTypeOK, RestTypeOK, Rosters
<1>8. Detaching(p, b) BY <1>1, <1>5 DEF Detaching
<1>9. s \notin shown'[b]
  <2>1. CASE s \in shown[b]
    <3>1. s \in roster[b] BY <2>1 DEF Calm, ShownCalm, Kept
    <3>2. job[p].why # "refused" BY <1>8, <2>1 DEF Calm, ShownCalm
    <3>3. shown' = Remove(shown, b, {s}) BY <1>1, <1>5, <3>1, <3>2 DEF RemoveParticipant
    <3> QED BY <3>3 DEF Remove, RestTypeOK, Rosters
  <2>2. CASE s \notin shown[b]
    BY <1>5, <2>2 DEF RemoveParticipant, Remove, RestTypeOK, Rosters
  <2> QED BY <2>1, <2>2
<1>10. Own(s)' = Own(s) BY DEF Own
<1>11. \A q \in Joins(s)' : q \in Joins(s) BY <1>1, <1>4, <1>10 DEF Joins
<1>12. JoinCalm(s)'
  BY <1>1, <1>2, <1>4, <1>11 DEF Calm, JoinCalm, Joins
<1>13. \A q \in Own(s), c \in Boards :
         /\ Detaching(q, c)' <=> q # p /\ Detaching(q, c)
         /\ c # b => (Detaching(q, c)' <=> Detaching(q, c))
         /\ q # p => job'[q].why = job[q].why
  BY <1>4, <1>5 DEF Detaching
<1>14. \A c \in Boards : context[s].board # c BY <1>2, ContextFacts, RoomConstants
<1>15. ASSUME NEW c \in Boards, s \in shown'[c]
       PROVE  Kept(s, c)' /\ \E q \in Own(s) : Detaching(q, c)' /\ job'[q].why # "refused"
  <2>1. c # b /\ s \in shown[c] BY <1>6, <1>9, <1>15
  <2>2. Kept(s, c) /\ \E q \in Own(s) : Detaching(q, c) /\ job[q].why # "refused"
    BY <1>14, <2>1 DEF Calm, ShownCalm
  <2>3. Kept(s, c)' BY <1>6, <2>1, <2>2 DEF Kept
  <2> QED BY <1>13, <2>1, <2>2, <2>3
<1>16. ASSUME NEW q \in Own(s), NEW c \in Boards, Detaching(q, c)', job'[q].why = "refused"
       PROVE  s \notin shown'[c]
  <2>1. Detaching(q, c) /\ job[q].why = "refused" BY <1>13, <1>16
  <2> QED BY <1>6, <1>9, <2>1 DEF Calm, ShownCalm
<1>17. ShownCalm(s)' BY <1>10, <1>15, <1>16 DEF ShownCalm
<1>18. ASSUME connected[s], NEW c \in Boards, s \in roster'[c] \/ s \in rooms'[c]
       PROVE  \E q \in Own(s) : Detaching(q, c)'
  <2>1. c # b BY <1>7, <1>18
  <2>2. \E q \in Own(s) : Detaching(q, c)
    BY <1>6, <1>14, <1>18, <2>1 DEF Calm, RosterCalm
  <2> QED BY <1>13, <2>1, <2>2
<1>19. RosterCalm(s)' BY <1>1, <1>10, <1>14, <1>18 DEF RosterCalm
<1> QED BY <1>12, <1>17, <1>19 DEF Calm

LEMMA FinishKeepsCalm ==
  ASSUME SocketTypeOK, RedisTypeOK, DetachInv, NEW s \in Sockets, Calm(s), s \notin disturbed',
         NEW p \in Own(s), FinishDetach(p)
  PROVE  Calm(s)'
<1>1. /\ p \in Handlers /\ p[1] = s /\ job[p].step = "size"
      /\ UNCHANGED <<connected, context, latest, rooms, shown>>
      /\ pruneExpired(p, job[p].leaving)
  BY DEF Own, FinishDetach, At, sockVars, roomVars
<1>2. \A c \in Boards : /\ s \in roster'[c] => s \in roster[c]
                        /\ Kept(s, c) => Kept(s, c)'
  BY <1>1, PruneIsQuiet
<1>3. /\ context[s] = NoContext
      /\ \A q \in Joins(s) : q[2] = latest[s]
  BY <1>1, LeavingFacts DEF Leaving
<1>4. \A q \in Own(s) : q \in Handlers BY DEF Own
<1>5. /\ job'[p].step \in {"load", "idle"}
      /\ \A q \in Own(s) : q # p => job'[q] = job[q]
  <2>1. CASE GoTo(p, "load") BY <1>1, <1>4, <2>1, GoToFacts DEF SocketTypeOK, Steps
  <2>2. CASE End(p) BY <1>1, <1>4, <2>2, EndFacts, IdleIsJob DEF SocketTypeOK
  <2> QED BY <2>1, <2>2 DEF FinishDetach
<1>6. Own(s)' = Own(s) BY DEF Own
<1>7. \A q \in Joins(s)' : q \in Joins(s) BY <1>1, <1>5, <1>6 DEF Joins
<1>8. JoinCalm(s)' BY <1>1, <1>3, <1>5, <1>7 DEF Calm, JoinCalm, Joins, Leaving
<1>9. \A q \in Own(s), b \in Boards :
        /\ Detaching(q, b)' <=> Detaching(q, b)
        /\ Detaching(q, b) => job'[q].why = job[q].why
  BY <1>1, <1>5 DEF Detaching
<1>10. ShownCalm(s)' BY <1>1, <1>2, <1>6, <1>9 DEF Calm, ShownCalm
<1>11. \A b \in Boards : context[s].board # b BY <1>3, ContextFacts, RoomConstants
<1>12. RosterCalm(s)' BY <1>1, <1>2, <1>6, <1>9, <1>11 DEF Calm, RosterCalm
<1> QED BY <1>8, <1>10, <1>12 DEF Calm

LEMMA DisconnectKeepsCalm ==
  ASSUME SocketTypeOK, DetachInv, NEW s \in Sockets, Calm(s), Disconnect(s)
  PROVE  Calm(s)'
<1>1. /\ connected[s] /\ UNCHANGED <<latest, shown, roster, live, due>>
      /\ ~connected'[s]
  BY DEF Disconnect, SocketTypeOK, redisVars
<1>2. \A c \in Boards : /\ s \in roster'[c] <=> s \in roster[c]
                        /\ Kept(s, c)' <=> Kept(s, c)
  BY <1>1 DEF Kept
<1>3. Own(s)' = Own(s) BY DEF Own
<1>4. CASE context[s] = NoContext
  <2>1. UNCHANGED <<job, context>> BY <1>4 DEF Disconnect
  <2>2. Joins(s)' = Joins(s) BY <1>3, <2>1 DEF Joins
  <2>3. JoinCalm(s)' BY <1>1, <1>4, <2>1, <2>2 DEF Calm, JoinCalm
  <2>4. ShownCalm(s)' BY <1>1, <1>2, <1>3, <2>1 DEF Calm, ShownCalm, Detaching
  <2>5. RosterCalm(s)' BY <1>1 DEF RosterCalm
  <2> QED BY <2>3, <2>4, <2>5 DEF Calm
<1>5. CASE context[s] # NoContext
  <2>1. <<s, 0>> \in Own(s) /\ <<s, 0>> \in Handlers /\ <<s, 0>>[1] = s
    BY ZeroHandler DEF Own
  <2>2. PICK old \in Boards : context[s].board = old BY <1>5, ContextFacts DEF SocketTypeOK
  <2>3. StartDetach(<<s, 0>>, "disconnect") BY <1>5 DEF Disconnect
  <2>4. \A q \in Own(s) : q \in Handlers BY DEF Own
  <2>5. /\ job'[<<s, 0>>].step = "removeParticipant" /\ job'[<<s, 0>>].why = "disconnect"
        /\ job'[<<s, 0>>].leaving = old
        /\ \A q \in Own(s) : q # <<s, 0>> => job'[q] = job[q]
        /\ context' = [context EXCEPT ![s] = NoContext]
    BY <2>1, <2>2, <2>3, <2>4, DetachFacts DEF SocketTypeOK, Reasons
  <2>6. context'[s] = NoContext BY <2>5 DEF SocketTypeOK
  <2>7. job[<<s, 0>>].step # "removeParticipant" BY <1>1 DEF DetachInv
  <2>8. "disconnect" \in Reasons /\ "disconnect" # "refused" BY DEF Reasons
  <2> QED BY <1>1, <1>2, <2>1, <2>2, <2>5, <2>6, <2>7, <2>8, LeavingKeepsCalm
<1> QED BY <1>4, <1>5

(* A join that nothing overlaps. *)
LEMMA JoinKeepsCalm ==
  ASSUME SocketTypeOK, DetachInv, NEW s \in Sockets, Calm(s), s \notin disturbed',
         NEW next \in Contexts, BoardJoin(s, next)
  PROVE  Calm(s)'
<1> DEFINE p == <<s, latest[s] + 1>>
<1>1. /\ connected[s] /\ latest' = [latest EXCEPT ![s] = @ + 1]
      /\ UNCHANGED <<connected, context, rooms, shown, roster, live, due>>
  BY DEF BoardJoin, redisVars, roomVars
<1>2. \A q \in Own(s) : job[q].step = "idle" /\ q \in Handlers BY DEF BoardJoin, Own
<1>3. latest[s] \in Nat /\ MaxJoins[s] \in Nat /\ latest[s] + 1 \in 0..MaxJoins[s]
  <2>1. MaxJoins[s] \in Nat BY RoomConstants
  <2>2. latest[s] \in Nat /\ latest[s] < MaxJoins[s] BY DEF SocketTypeOK, BoardJoin
  <2> QED BY <2>1, <2>2
<1>4. p \in Handlers /\ p \in Own(s) /\ p[1] = s /\ p[2] = latest[s] + 1
  BY <1>3, HandlerNames DEF Own
<1>5. job'[p].step = "admission" /\ \A q \in Own(s) : q # p => job'[q] = job[q]
  BY <1>2, <1>4 DEF BoardJoin, SocketTypeOK, Idle
<1>6. latest'[s] = latest[s] + 1 BY <1>1 DEF SocketTypeOK
<1> HIDE DEF p
<1>7. Own(s)' = Own(s) BY DEF Own
<1>8. \A q \in Joins(s)' : q = p BY <1>2, <1>5, <1>7 DEF Joins
<1>9. \A q \in Joins(s) : FALSE BY <1>2 DEF Joins
<1>10. JoinCalm(s)' BY <1>4, <1>5, <1>6, <1>8 DEF JoinCalm, Leaving
<1>11. \A q \in Own(s), b \in Boards : ~Detaching(q, b) /\ ~Detaching(q, b)'
  BY <1>2, <1>5 DEF Detaching
<1>12. \A b \in Boards : Kept(s, b)' <=> Kept(s, b) BY <1>1 DEF Kept
<1>13. ShownCalm(s)' BY <1>1, <1>7, <1>11, <1>12 DEF Calm, ShownCalm
<1>14. RosterCalm(s)' BY <1>1, <1>7, <1>9, <1>11, <1>12 DEF Calm, RosterCalm
<1> QED BY <1>10, <1>13, <1>14 DEF Calm

-----------------------------------------------------------------------------
LEMMA OwnStepKeepsCalm ==
  ASSUME SocketTypeOK, RedisTypeOK, RestTypeOK, DetachInv, NEW s \in Sockets, Calm(s),
         s \notin disturbed', NEW p \in Own(s), HandlerStep(p)
  PROVE  Calm(s)'
<1>1. CASE SelectExpired(p)
  <2>1. \A q \in Own(s) : /\ job'[q].step = job[q].step /\ job'[q].target = job[q].target
                          /\ job'[q].leaving = job[q].leaving /\ job'[q].why = job[q].why
    BY <1>1, SelectFacts DEF Own
  <2>2. Quiet(s)
    BY <1>1, <2>1 DEF SelectExpired, Quiet, sockVars, redisVars, roomVars, Kept
  <2> QED BY <2>2, QuietKeepsCalm
<1> QED BY <1>1, AdmissionKeepsCalm, EnterKeepsCalm, ReadKeepsCalm, AdmittedKeepsCalm,
           RefusedKeepsCalm, RemoveKeepsCalm, FinishKeepsCalm DEF HandlerStep

(* Joins and disconnects of another socket. *)
LEMMA ForeignSocketIsQuiet ==
  ASSUME SocketTypeOK, RestTypeOK, NEW s \in Sockets, NEW x \in Sockets, x # s,
         Disconnect(x) \/ \E next \in Contexts : BoardJoin(x, next)
  PROVE  Quiet(s)
<1>1. \A q \in Own(s) : q \in Handlers /\ q[1] = s BY DEF Own
<1>2. CASE Disconnect(x)
  <2>1. \A q \in Own(s) : q # <<x, 0>> BY <1>1
  <2>2. <<x, 0>> \in Handlers /\ <<x, 0>>[1] = x BY ZeroHandler DEF Own
  <2>3. \A q \in Own(s) : job'[q] = job[q]
    <3>1. CASE context[x] = NoContext BY <1>2, <3>1 DEF Disconnect
    <3>2. CASE context[x] # NoContext
      <4>1. context[x].board \in Boards BY <3>2, ContextFacts DEF SocketTypeOK
      <4>2. StartDetach(<<x, 0>>, "disconnect") BY <1>2, <3>2 DEF Disconnect
      <4> QED BY <1>1, <2>1, <2>2, <4>1, <4>2, DetachFacts DEF SocketTypeOK, Reasons
    <3> QED BY <3>1, <3>2
  <2>4. context'[s] = context[s]
    BY <1>2, <2>2 DEF Disconnect, StartDetach, SocketTypeOK
  <2>5. connected'[s] = connected[s] /\ \A b \in Boards : s \in rooms'[b] <=> s \in rooms[b]
    BY <1>2 DEF Disconnect, SocketTypeOK
  <2> QED BY <1>2, <2>3, <2>4, <2>5 DEF Quiet, Disconnect, redisVars, Kept
<1>3. ASSUME NEW next \in Contexts, BoardJoin(x, next) PROVE Quiet(s)
  <2>1. \A q \in Own(s) : job'[q] = job[q]
    <3>1. \A q \in Own(s) : q # <<x, latest[x] + 1>> BY <1>1
    <3> QED BY <1>1, <1>3, <3>1 DEF BoardJoin, SocketTypeOK
  <2>2. latest'[s] = latest[s] BY <1>3 DEF BoardJoin, SocketTypeOK
  <2> QED BY <1>3, <2>1, <2>2 DEF BoardJoin, Quiet, redisVars, roomVars, Kept
<1> QED BY <1>2, <1>3

(* Leases: renewed, run out for a socket that is gone, or missed. *)
LEMMA LeaseIsQuiet ==
  ASSUME SocketTypeOK, RedisTypeOK, DetachInv, NEW s \in Sockets, Calm(s), s \notin disturbed',
         NEW x \in Sockets, NEW b \in Boards,
         LeaseRunsOut(x, b) \/ BeatsMissed(x, b)
  PROVE  Quiet(s)
<1>1. /\ live' = Remove(live, b, {x}) /\ due' = Add(due, b, x)
      /\ UNCHANGED <<connected, context, latest, job, roster, rooms, shown>>
  BY DEF LeaseRunsOut, BeatsMissed, sockVars, roomVars
<1>2. \A c \in Boards : /\ live'[c] = IF c = b THEN live[c] \ {x} ELSE live[c]
                        /\ due'[c] = IF c = b THEN due[c] \cup {x} ELSE due[c]
  BY <1>1 DEF RedisTypeOK, Rosters, Add, Remove
<1>3. CASE x # s BY <1>1, <1>2, <1>3 DEF Quiet, Kept
<1>4. CASE x = s
  <2>1. LeaseRunsOut(s, b) BY <1>4 DEF BeatsMissed
  <2>2. \A p \in Own(s) : ~Detaching(p, b) BY <2>1 DEF LeaseRunsOut, Busy, Own, Detaching
  <2>3. context[s].board # b
    BY <2>1, ContextFacts, RoomConstants DEF LeaseRunsOut, Beats, DetachInv
  <2>4. s \notin shown[b] /\ ~Beats(s, b) BY <2>1, <2>2, <2>3 DEF Calm, ShownCalm, LeaseRunsOut
  <2>5. \A c \in Boards : Kept(s, c) /\ (s \in shown[c] \/ Beats(s, c)) => Kept(s, c)'
    BY <1>1, <1>2, <2>4 DEF Kept
  <2> QED BY <1>1, <2>5 DEF Quiet
<1> QED BY <1>3, <1>4

LEMMA RenewalIsQuiet ==
  ASSUME RedisTypeOK, NEW s \in Sockets, NEW x \in Sockets, NEW b,
         touchParticipant(b, x), UNCHANGED <<sockVars, job, roster, roomVars>>
  PROVE  Quiet(s)
<1>1. \A c \in Boards : /\ live'[c] = IF c = b THEN live[c] \cup {x} ELSE live[c]
                        /\ due'[c] = IF c = b THEN due[c] \ {x} ELSE due[c]
  BY TouchFacts
<1>2. \A c \in Boards : Kept(s, c) => Kept(s, c)' BY <1>1 DEF Kept
<1> QED BY <1>2 DEF Quiet, sockVars, roomVars

LEMMA CalmStep ==
  ASSUME SocketTypeOK, RedisTypeOK, RestTypeOK, DetachInv, CalmInv, [RoomNext]_roomSessionVars
  PROVE  CalmInv'
<1>1. disturbed \subseteq disturbed'
  BY DEF RoomNext, HandlerStep, SelectExpired, Admission, Enter, ReadParticipants, Admitted,
         Refused, RemoveParticipant, FinishDetach, HandlerFails, BoardJoin, Disconnect,
         ReceiveActivity, RefreshActivity, Heartbeat, LeaseRunsOut, BeatsMissed, pruneExpired,
         histVars, roomSessionVars
<1> SUFFICES ASSUME NEW s \in Sockets, s \notin disturbed' PROVE Calm(s)'
  BY DEF CalmInv
<1>2. Calm(s) BY <1>1 DEF CalmInv
<1>3. ASSUME Quiet(s) PROVE Calm(s)' BY <1>2, <1>3, QuietKeepsCalm
<1>4. ASSUME NEW p \in Handlers, HandlerStep(p) \/ HandlerFails(p) PROVE Calm(s)'
  <2>1. CASE p[1] # s BY <1>3, <1>4, <2>1, ForeignIsQuiet
  <2>2. CASE p[1] = s
    <3>1. p \in Own(s) BY <2>2 DEF Own
    <3>2. ~HandlerFails(p) BY <2>2 DEF HandlerFails
    <3> QED BY <1>2, <1>4, <3>1, <3>2, OwnStepKeepsCalm
  <2> QED BY <2>1, <2>2
<1>5. ASSUME NEW x \in Sockets, NEW next \in Contexts, BoardJoin(x, next) PROVE Calm(s)'
  <2>1. CASE x # s BY <1>3, <1>5, <2>1, ForeignSocketIsQuiet
  <2>2. CASE x = s BY <1>2, <1>5, <2>2, JoinKeepsCalm
  <2> QED BY <2>1, <2>2
<1>6. ASSUME NEW x \in Sockets, Disconnect(x) PROVE Calm(s)'
  <2>1. CASE x # s BY <1>3, <1>6, <2>1, ForeignSocketIsQuiet
  <2>2. CASE x = s BY <1>2, <1>6, <2>2, DisconnectKeepsCalm
  <2> QED BY <2>1, <2>2
<1>7. ASSUME NEW x \in Sockets, NEW b \in Boards, LeaseRunsOut(x, b) \/ BeatsMissed(x, b)
      PROVE  Calm(s)'
  BY <1>2, <1>3, <1>7, LeaseIsQuiet
<1>8. ASSUME NEW x \in Sockets, NEW b \in Boards, Heartbeat(x, b) PROVE Calm(s)'
  BY <1>3, <1>8, RenewalIsQuiet DEF Heartbeat
<1>9. ASSUME NEW x \in Sockets, RefreshActivity(x) PROVE Calm(s)'
  BY <1>3, <1>9, RenewalIsQuiet DEF RefreshActivity
<1>10. CASE UNCHANGED <<sockVars, job, redisVars, roomVars>>
  <2>1. Quiet(s) BY <1>10 DEF Quiet, sockVars, redisVars, roomVars, Kept
  <2> QED BY <1>3, <2>1
<1>11. ASSUME NEW x \in Sockets, ReceiveActivity(x) PROVE Calm(s)'
  BY <1>10, <1>11 DEF ReceiveActivity
<1>12. CASE UNCHANGED roomSessionVars BY <1>10, <1>12 DEF roomSessionVars
<1> QED BY <1>4, <1>5, <1>6, <1>7, <1>8, <1>9, <1>11, <1>12 DEF RoomNext

-----------------------------------------------------------------------------
(* The inductive invariant. *)
RoomInv ==
  /\ SocketTypeOK /\ RestTypeOK /\ RosterInv
  /\ DetachInv /\ CalmInv

LEMMA RoomStarts == RoomInit => RoomInv
<1> SUFFICES ASSUME RoomInit PROVE RoomInv OBVIOUS
<1> USE DEF RoomInit
<1>1. \A p \in Handlers : job[p] = Idle /\ job[p].step = "idle" BY IdleIsJob
<1>2. SocketTypeOK
  <2>1. JobInv BY <1>1 DEF JobInv, Joining, Leaving
  <2>2. \A s \in Sockets : MaxJoins[s] \in Nat BY RoomConstants
  <2>3. job \in [Handlers -> Jobs] BY IdleIsJob
  <2> QED BY <2>1, <2>2, <2>3 DEF SocketTypeOK
<1>3. RestTypeOK BY DEF RestTypeOK, Rosters
<1>4. RedisTypeOK /\ SlotsReclaimable BY DEF RedisTypeOK, Rosters, SlotsReclaimable
<1>5. CapInv BY FS_EmptySet, RoomConstants DEF CapInv
<1>6. DetachInv BY <1>1, ZeroHandler DEF DetachInv, Own
<1>7. CalmInv
  <2> SUFFICES ASSUME NEW s \in Sockets PROVE Calm(s) BY DEF CalmInv
  <2>1. \A p \in Own(s) : job[p].step = "idle" BY <1>1 DEF Own
  <2>2. JoinCalm(s) BY <2>1 DEF JoinCalm, Joins
  <2>3. ShownCalm(s) BY <2>1 DEF ShownCalm, Detaching
  <2>4. RosterCalm(s) BY ContextFacts, RoomConstants DEF RosterCalm
  <2> QED BY <2>2, <2>3, <2>4 DEF Calm
<1> QED BY <1>2, <1>3, <1>4, <1>5, <1>6, <1>7 DEF RoomInv, RosterInv

LEMMA RoomInvType == RoomInv => RoomTypeOK
  BY TypeParts DEF RoomInv, RosterInv

LEMMA RoomStep == RoomInv /\ [RoomNext]_roomSessionVars => RoomInv'
<1> SUFFICES ASSUME RoomInv, [RoomNext]_roomSessionVars PROVE RoomInv' OBVIOUS
<1>1. RoomTypeOK /\ RedisTypeOK BY RoomInvType DEF RoomInv, RosterInv
<1> QED BY <1>1, SocketStep, RestStep, RosterStep, DetachStep, CalmStep DEF RoomInv

(* Types, jobs, leases and calm sockets: what every state of the rooms     *)
(* satisfies, whatever handlers interleave.                                *)
THEOREM RoomInvariant == RoomSpec => []RoomInv
  BY RoomStarts, RoomStep, PTL DEF RoomSpec

(* Every variable of the rooms keeps its type.                             *)
THEOREM RoomTypes == RoomSpec => []RoomTypeOK
  BY RoomInvariant, RoomInvType, PTL

(* No interleaving of joins, prunings and faults fills a room beyond the   *)
(* cap, and no slot is held by an entry that nothing would ever prune.     *)
THEOREM SlotsStayBounded == RoomSpec => []SlotsBounded
<1>1. RoomInv => SlotsBounded
  BY DEF RoomInv, RosterInv, CapInv, RoomCapHolds, SlotsBounded
<1> QED BY <1>1, RoomInvariant, PTL

(* A connected socket that nothing disturbed and whose handlers are        *)
(* through is listed and in the room of the board of its context and of no *)
(* other.                                                                  *)
THEOREM RosterIsTruthful == RoomSpec => []RosterTruthful
<1>1. RoomInv => RosterTruthful
  <2> SUFFICES ASSUME RoomInv, NEW s \in Sockets \ disturbed, connected[s], ~Busy(s),
                      NEW b \in Boards
               PROVE  /\ (s \in roster[b]) <=> Beats(s, b)
                      /\ (s \in rooms[b]) <=> Beats(s, b)
    BY DEF RosterTruthful
  <2>1. \A p \in Own(s) : job[p].step = "idle" BY DEF Busy, Own
  <2>2. RosterCalm(s) BY DEF RoomInv, CalmInv, Calm
  <2> QED BY <2>1, <2>2 DEF RosterCalm, Beats, Kept, Detaching, Joins
<1> QED BY <1>1, RoomInvariant, PTL

(* A socket that nothing disturbed and that has gone is shown to nobody:   *)
(* USER_LEFT follows every USER_JOINED, wherever the disconnect falls.     *)
THEOREM LeaversAreAnnounced == RoomSpec => []LeaversAnnounced
<1>1. RoomInv => LeaversAnnounced
  <2> SUFFICES ASSUME RoomInv, NEW s \in Sockets \ disturbed, ~connected[s], ~Busy(s),
                      NEW b \in Boards
               PROVE  s \notin shown[b]
    BY DEF LeaversAnnounced
  <2>1. \A p \in Own(s) : job[p].step = "idle" BY DEF Busy, Own
  <2>2. ShownCalm(s) BY DEF RoomInv, CalmInv, Calm
  <2>3. context[s].board # b BY ContextFacts, RoomConstants DEF RoomInv, DetachInv
  <2> QED BY <2>1, <2>2, <2>3 DEF ShownCalm, Detaching
<1> QED BY <1>1, RoomInvariant, PTL

=============================================================================
