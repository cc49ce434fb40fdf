--------------------------- MODULE ServicesProofs ---------------------------
(***************************************************************************)
(* Previews, for any windows and delays in the order that BoardPreviews    *)
(* assumes, and the services side by side.                                 *)
(*                                                                         *)
(* That a preview catches up is liveness and stays with TLC.  What it      *)
(* rests on is proved here: a change that no picture shows yet is never    *)
(* forgotten, because a render that will read it is announced or due.      *)
(***************************************************************************)
EXTENDS MCServices, AccountProofs, RealtimeProofs

(* The announcement of a change waits in the queue, or became a job that   *)
(* is due later.                                                           *)
Announced == queued["mutated"] > 0
Waiting == Announced \/ delayed["debounced"] > 0

(* A picture of the announced changes is being made, or one of all that is *)
(* stored is about to be.                                                  *)
Drawing ==
  \/ \E j \in Jobs : ready[j] > 0
  \/ \E r \in rendering : r.shows >= due

TimerTypes ==
  /\ saveIn \in 0..SaveTime /\ cooldown \in 0..MinInterval
  /\ mishaps \in Nat /\ degraded \in BOOLEAN
  /\ window["mutated"] <= MutatedWindow

(* While announcements are coalesced, the job of the first one still has   *)
(* longer to go than the window and the save of one more change together.  *)
WindowInv ==
  window["mutated"] > 0 =>
    Announced \/ delayed["debounced"] > window["mutated"] + SaveTime

(* An announced change that is not stored yet will be before the job is    *)
(* due.                                                                    *)
SaveInv == stored < due => Announced \/ delayed["debounced"] > saveIn

(* A picture that is out of date before it is finished is followed by      *)
(* another one, and so is one that is finished.                            *)
PictureInv ==
  /\ \A r \in rendering : r.shows < due => Waiting
  /\ preview < due => Waiting \/ Drawing

PreviewInv ==
  /\ PreviewTypeOK /\ TimerTypes
  /\ stored = changes => saveIn = 0
  /\ degraded \/ (WindowInv /\ SaveInv /\ PictureInv)

(* An announced change that the preview does not show is still announced,  *)
(* or has a job that comes after it is stored, or is stored and has a job  *)
(* at all: unless, since the last fresh job, an announcement or a job was  *)
(* lost.                                                                   *)
NoChangeForgotten ==
  \/ degraded
  \/ preview >= due
  \/ Announced
  \/ delayed["debounced"] > saveIn
  \/ stored >= due /\ (Waiting \/ Drawing)

-----------------------------------------------------------------------------
LEMMA PreviewInvInit == PreviewInit => PreviewInv
<1> SUFFICES ASSUME PreviewInit PROVE PreviewInv
  OBVIOUS
<1>1. PreviewTypeOK /\ TimerTypes
  <2>1. {MaxChangesMade, MinInterval, SaveTime, MutatedWindow} \subseteq Nat
    BY PreviewConstants
  <2>2. /\ changes \in 0..MaxChangesMade /\ due \in 0..changes /\ stored \in 0..changes /\ preview \in 0..stored
        /\ saveIn \in 0..SaveTime /\ cooldown \in 0..MinInterval
        /\ mishaps \in Nat /\ 0 \in 0..MinInterval
    BY <2>1 DEF PreviewInit
  <2>3. /\ window \in [EventNames -> Nat] /\ queued \in [EventNames -> Nat]
        /\ delayed \in [Renders -> 0..MinInterval] /\ ready \in [Jobs -> Nat]
    BY <2>2 DEF PreviewInit
  <2>4. window["mutated"] <= MutatedWindow
    BY <2>1 DEF PreviewInit, EventNames
  <2>5. rendering \subseteq [job : Jobs, shows : 0..stored] /\ degraded \in BOOLEAN
    BY DEF PreviewInit
  <2> QED
    BY <2>2, <2>3, <2>4, <2>5 DEF PreviewTypeOK, TimerTypes
<1>2. window["mutated"] = 0
  BY DEF PreviewInit, EventNames
<1>3. WindowInv /\ SaveInv /\ PictureInv
  BY <1>2 DEF PreviewInit, WindowInv, SaveInv, PictureInv
<1> QED
  BY <1>1, <1>3 DEF PreviewInv, PreviewInit

LEMMA NothingForgotten == PreviewInv => NoChangeForgotten
  BY DEF PreviewInv, PreviewTypeOK, TimerTypes, SaveInv, PictureInv, NoChangeForgotten,
         Announced, Waiting, Drawing

-----------------------------------------------------------------------------
(* What an emission does to the queue: the announcement is there, or was   *)
(* made while the window is open, or is lost.                              *)
LEMMA EmitKeeps ==
  ASSUME PreviewInv, NEW e \in EventNames, emit(e)
  PROVE  /\ window' \in [EventNames -> Nat] /\ queued' \in [EventNames -> Nat]
         /\ window'["mutated"] <= MutatedWindow
         /\ mishaps' \in Nat /\ degraded' \in BOOLEAN
         /\ ~degraded' => ~degraded
         /\ ~degraded' => \/ window' = window /\ queued' = queued /\ window[e] > 0
                          \/ queued'[e] > 0 /\ \A x \in EventNames \ {e} :
                               window'[x] = window[x] /\ queued'[x] = queued[x]
<1> USE DEF PreviewInv, PreviewTypeOK, TimerTypes
<1>1. MutatedWindow \in Nat /\ LeftWindow \in Nat /\ "mutated" \in EventNames
  BY PreviewConstants DEF EventNames
<1>2. CASE EmitOnto(e) /\ UNCHANGED <<mishaps, degraded>>
  <2>1. CASE window[e] > 0
    BY <1>1, <1>2, <2>1 DEF EmitOnto
  <2>2. CASE ~(window[e] > 0)
    <3>1. /\ window' = [window EXCEPT ![e] = Window(e)]
          /\ queued' = [queued EXCEPT ![e] = @ + 1]
      BY <1>2, <2>2 DEF EmitOnto
    <3>2. Window(e) \in Nat /\ (e = "mutated" => Window(e) <= MutatedWindow)
      BY <1>1 DEF Window
    <3> QED
      BY <1>1, <1>2, <3>1, <3>2
  <2> QED
    BY <2>1, <2>2
<1>3. CASE Fault /\ degraded' = TRUE /\ UNCHANGED <<window, queued>>
  BY <1>1, <1>3 DEF Fault
<1> QED
  BY <1>2, <1>3 DEF emit

LEMMA MutateKeeps == PreviewInv /\ MutateBoard => PreviewInv'
<1> SUFFICES ASSUME PreviewInv, MutateBoard PROVE PreviewInv'
  OBVIOUS
<1> "mutated" \in EventNames /\ "debounced" \in Renders /\ SaveTime \in Nat \ {0}
    /\ MinInterval \in Nat /\ MaxChangesMade \in Nat /\ MutatedWindow \in Nat
  BY PreviewConstants DEF EventNames, Renders
<1>0. emit("mutated")
  BY DEF MutateBoard
<1>1. PreviewTypeOK' /\ TimerTypes' /\ stored' < changes' /\ due' = changes'
  BY <1>0, EmitKeeps DEF MutateBoard, ChangeBoard, PreviewInv, PreviewTypeOK, TimerTypes
<1>2. ASSUME ~degraded' PROVE (WindowInv /\ SaveInv /\ PictureInv)'
  <2>1. ~degraded /\ WindowInv /\ SaveInv /\ PictureInv
    BY <1>0, <1>2, EmitKeeps DEF PreviewInv
  <2>2. CASE window' = window /\ queued' = queued /\ window["mutated"] > 0
    <3>1. WindowInv'
      BY <2>1, <2>2 DEF WindowInv, MutateBoard, Announced
    <3>2. SaveInv'
      BY <2>1, <2>2, <1>1 DEF WindowInv, SaveInv, MutateBoard, ChangeBoard, Announced,
         PreviewInv, PreviewTypeOK, TimerTypes
    <3>4. /\ window["mutated"] \in Nat /\ delayed["debounced"] \in Nat
          /\ delayed' = delayed
      BY DEF MutateBoard, PreviewInv, PreviewTypeOK
    <3>5. Waiting'
      <4>1. CASE Announced
        BY <2>2, <4>1 DEF Announced, Waiting
      <4>2. CASE ~Announced
        <5>1. delayed["debounced"] > window["mutated"] + SaveTime
          BY <2>1, <2>2, <4>2 DEF WindowInv
        <5>2. delayed["debounced"] > 0
          BY <3>4, <5>1, <2>2
        <5> QED
          BY <3>4, <5>2 DEF Waiting
      <4> QED
        BY <4>1, <4>2
    <3>3. PictureInv'
      BY <3>5 DEF PictureInv
    <3> QED
      BY <3>1, <3>2, <3>3
  <2>3. CASE queued'["mutated"] > 0
    BY <1>1, <2>3 DEF WindowInv, SaveInv, PictureInv, Waiting, Announced, PreviewTypeOK
  <2> QED
    BY <1>0, <1>2, <2>2, <2>3, EmitKeeps
<1> QED
  BY <1>1, <1>2 DEF PreviewInv, PreviewTypeOK

LEMMA CrdtKeeps == PreviewInv /\ FlushCrdtRoom => PreviewInv'
<1> SUFFICES ASSUME PreviewInv, FlushCrdtRoom PROVE PreviewInv'
  OBVIOUS
<1>0. SaveTime \in Nat /\ MaxChangesMade \in Nat
  BY PreviewConstants
<1>1. PreviewTypeOK' /\ TimerTypes' /\ stored' < changes'
  BY <1>0 DEF FlushCrdtRoom, ChangeBoard, PreviewInv, PreviewTypeOK, TimerTypes
<1>2. ASSUME ~degraded PROVE (WindowInv /\ SaveInv /\ PictureInv)'
  <2>1. WindowInv /\ SaveInv /\ PictureInv
    BY <1>2 DEF PreviewInv
  <2>2. Announced' = Announced /\ Waiting' = Waiting /\ Drawing' = Drawing
    BY DEF FlushCrdtRoom, Announced, Waiting, Drawing
  <2>3. WindowInv' /\ PictureInv'
    BY <2>1, <2>2 DEF FlushCrdtRoom, WindowInv, PictureInv
  <2>4. stored < due => saveIn' = saveIn
    BY DEF FlushCrdtRoom, ChangeBoard, PreviewInv, PreviewTypeOK
  <2>5. SaveInv'
    BY <2>1, <2>2, <2>4 DEF FlushCrdtRoom, SaveInv
  <2> QED
    BY <2>3, <2>5
<1> QED
  BY <1>1, <1>2 DEF PreviewInv, PreviewTypeOK, FlushCrdtRoom

LEMMA LeavingKeeps == PreviewInv /\ EditorLeaves => PreviewInv'
<1> SUFFICES ASSUME PreviewInv, EditorLeaves PROVE PreviewInv'
  OBVIOUS
<1> "mutated" \in EventNames /\ "editorsLeft" \in EventNames
  BY DEF EventNames
<1>0. emit("editorsLeft")
  BY DEF EditorLeaves
<1>1. PreviewTypeOK' /\ TimerTypes'
  BY <1>0, EmitKeeps DEF EditorLeaves, PreviewInv, PreviewTypeOK, TimerTypes
<1>2. ASSUME ~degraded' PROVE (WindowInv /\ SaveInv /\ PictureInv)'
  <2>1. ~degraded /\ WindowInv /\ SaveInv /\ PictureInv
    BY <1>0, <1>2, EmitKeeps DEF PreviewInv
  <2>2. window'["mutated"] = window["mutated"] /\ queued'["mutated"] = queued["mutated"]
    BY <1>0, <1>2, EmitKeeps DEF EventNames
  <2>3. WindowInv'
    BY <2>1, <2>2 DEF WindowInv, EditorLeaves, Announced
  <2>4. SaveInv'
    BY <2>1, <2>2 DEF SaveInv, EditorLeaves, Announced
  <2>5. PictureInv'
    BY <2>1, <2>2 DEF PictureInv, EditorLeaves, Announced, Waiting, Drawing
  <2> QED
    BY <2>3, <2>4, <2>5
<1>3. (stored = changes => saveIn = 0)'
  BY DEF EditorLeaves, PreviewInv
<1> QED
  BY <1>1, <1>2, <1>3 DEF PreviewInv

LEMMA StoreKeeps == PreviewInv /\ Store => PreviewInv'
<1> SUFFICES ASSUME PreviewInv, Store PROVE PreviewInv'
  OBVIOUS
<1> USE DEF Store
<1>0. /\ stored \in Nat /\ changes \in Nat /\ due \in 0..changes
      /\ stored < changes /\ SaveTime \in Nat
  BY PreviewConstants DEF PreviewInv, PreviewTypeOK
<1>1. PreviewTypeOK' /\ TimerTypes'
  <2>1. rendering \subseteq [job : Jobs, shows : 0..changes]
    <3>1. 0..stored \subseteq 0..changes
      BY <1>0
    <3> QED
      BY <3>1 DEF PreviewInv, PreviewTypeOK
  <2> QED
    BY <1>0, <2>1 DEF PreviewInv, PreviewTypeOK, TimerTypes
<1>2. Waiting' = Waiting /\ Announced' = Announced /\ Drawing' = Drawing
  BY DEF Waiting, Announced, Drawing
<1>3. SaveInv'
  BY <1>0 DEF SaveInv
<1>4. ASSUME ~degraded PROVE (WindowInv /\ PictureInv)'
  BY <1>2, <1>4 DEF PreviewInv, WindowInv, PictureInv
<1> QED
  BY <1>1, <1>3, <1>4 DEF PreviewInv

(* Consuming an announcement starts the timer of its job afresh, so that   *)
(* it lasts longer than the window and the save together.                  *)
LEMMA ConsumeKeeps ==
  ASSUME PreviewInv, NEW e \in EventNames, Consume(e)
  PROVE  PreviewInv'
<1> DEFINE k == IF e = "mutated" THEN "debounced" ELSE "flush"
           full == IF k = "flush" THEN FlushDelay ELSE Debounce
<1>0. /\ {MutatedWindow, SaveTime, FlushDelay, Debounce, MinInterval} \subseteq Nat
      /\ MutatedWindow + SaveTime < Debounce /\ full \in 0..MinInterval /\ k \in Renders
      /\ "mutated" \in EventNames /\ "debounced" \in Renders
  BY PreviewConstants DEF EventNames, Renders
<1>1. /\ delayed' \in {delayed, [delayed EXCEPT ![k] = full]}
      /\ queued' \in {queued, [queued EXCEPT ![e] = @ - 1]} /\ queued[e] > 0
      /\ mishaps' \in {mishaps, mishaps + 1}
      /\ degraded' \in {TRUE, degraded /\ e # "mutated"}
      /\ ~degraded' => (e # "mutated" => ~degraded) /\ delayed' = [delayed EXCEPT ![k] = full]
      /\ UNCHANGED <<changes, due, stored, saveIn, leaves, window, ready, rendering, cooldown,
                     preview>>
  <2>1. /\ queued[e] > 0
        /\ UNCHANGED <<changes, due, stored, saveIn, leaves, window, ready, rendering,
                       cooldown, preview>>
    BY DEF Consume
  <2>2. \/ /\ enqueue(k) /\ degraded' = (degraded /\ e # "mutated")
           /\ queued' = [queued EXCEPT ![e] = @ - 1] /\ UNCHANGED mishaps
        \/ /\ enqueue(k) /\ degraded' = (degraded /\ e # "mutated")
           /\ Fault /\ UNCHANGED queued
        \/ /\ Fault /\ degraded' = TRUE /\ queued' = [queued EXCEPT ![e] = @ - 1]
           /\ UNCHANGED delayed
    BY DEF Consume
  <2>3. enqueue(k) => delayed' = [delayed EXCEPT ![k] = full]
    BY DEF enqueue
  <2>4. Fault => mishaps' = mishaps + 1
    BY DEF Fault
  <2> HIDE DEF k, full
  <2>5. /\ delayed' \in {delayed, [delayed EXCEPT ![k] = full]}
        /\ queued' \in {queued, [queued EXCEPT ![e] = @ - 1]}
        /\ mishaps' \in {mishaps, mishaps + 1}
    BY <2>2, <2>3, <2>4
  <2>6. degraded' \in {TRUE, degraded /\ e # "mutated"}
    BY <2>2
  <2>7. ~degraded' => (e # "mutated" => ~degraded) /\ delayed' = [delayed EXCEPT ![k] = full]
    BY <2>2, <2>3
  <2> QED
    BY <2>1, <2>5, <2>6, <2>7
<1>2. PreviewTypeOK' /\ TimerTypes'
  <2>1. delayed' \in [Renders -> 0..MinInterval]
    BY <1>0, <1>1 DEF PreviewInv, PreviewTypeOK
  <2>2. queued' \in [EventNames -> Nat]
    BY <1>1 DEF PreviewInv, PreviewTypeOK
  <2>3. mishaps' \in Nat
    BY <1>1 DEF PreviewInv, TimerTypes
  <2>4. degraded' \in BOOLEAN
    BY <1>1, Zenon DEF PreviewInv, TimerTypes
  <2> QED
    BY <1>1, <2>1, <2>2, <2>3, <2>4 DEF PreviewInv, PreviewTypeOK, TimerTypes
<1>3. ASSUME ~degraded' PROVE (WindowInv /\ SaveInv /\ PictureInv)'
  <2>2. /\ window["mutated"] \in Nat /\ window["mutated"] <= MutatedWindow
        /\ saveIn \in 0..SaveTime
    BY <1>0 DEF PreviewInv, PreviewTypeOK, TimerTypes
  <2>3. CASE e = "mutated"
    <3>1. delayed'["debounced"] = Debounce
      BY <1>0, <1>1, <1>3, <2>3 DEF PreviewInv, PreviewTypeOK
    <3>2. /\ delayed'["debounced"] > window'["mutated"] + SaveTime
          /\ delayed'["debounced"] > saveIn' /\ delayed'["debounced"] > 0
      BY <3>1, <1>0, <1>1, <2>2
    <3> QED
      BY <1>1, <3>2 DEF WindowInv, SaveInv, PictureInv, Waiting
  <2>4. CASE e # "mutated"
    <3>0. WindowInv /\ SaveInv /\ PictureInv
      BY <1>1, <1>3, <2>4 DEF PreviewInv
    <3>1. queued'["mutated"] = queued["mutated"] /\ delayed'["debounced"] = delayed["debounced"]
      BY <1>0, <1>1, <1>3, <2>4 DEF PreviewInv, PreviewTypeOK
    <3>2. Announced' = Announced /\ Waiting' = Waiting
      BY <3>1 DEF Announced, Waiting
    <3>3. Drawing' = Drawing
      BY <1>1 DEF Drawing
    <3>4. WindowInv'
      BY <1>1, <3>0, <3>1, <3>2 DEF WindowInv
    <3>5. SaveInv'
      BY <1>1, <3>0, <3>1, <3>2 DEF SaveInv
    <3>6. PictureInv'
      BY <1>1, <3>0, <3>2, <3>3 DEF PictureInv
    <3> QED
      BY <3>4, <3>5, <3>6
  <2> QED
    BY <2>3, <2>4
<1>4. (stored = changes => saveIn = 0)'
  BY <1>1 DEF PreviewInv
<1> QED
  BY <1>2, <1>3, <1>4 DEF PreviewInv

(* A render that puts itself off is due when the minimal interval is over, *)
(* and unless it cut another job short, no earlier than that one.          *)
LEMMA DeferKeeps ==
  ASSUME PreviewInv, NEW j \in Jobs, Defer(j)
  PROVE  PreviewInv'
<1>0. /\ "mutated" \in EventNames /\ "debounced" \in Renders
      /\ MinInterval \in Nat /\ SaveTime \in Nat
  BY PreviewConstants DEF EventNames, Renders
<1>1. /\ cooldown \in 0..MinInterval /\ cooldown > 0 /\ saveIn \in 0..SaveTime
      /\ window["mutated"] \in Nat /\ delayed["debounced"] \in 0..MinInterval
      /\ delayed'["debounced"] = cooldown
  BY <1>0 DEF Defer, PreviewInv, PreviewTypeOK, TimerTypes
<1>2. PreviewTypeOK' /\ TimerTypes'
  <2>1. ready' \in [Jobs -> Nat] /\ delayed' \in [Renders -> 0..MinInterval]
    BY <1>0, <1>1 DEF Defer, PreviewInv, PreviewTypeOK
  <2>2. degraded' \in BOOLEAN
    BY DEF Defer
  <2> QED
    BY <2>1, <2>2 DEF Defer, PreviewInv, PreviewTypeOK, TimerTypes
<1>3. ASSUME ~degraded' PROVE (WindowInv /\ SaveInv /\ PictureInv)'
  <2>1. ~degraded /\ ~(delayed["debounced"] > cooldown)
    BY <1>3 DEF Defer
  <2>2. WindowInv /\ SaveInv /\ PictureInv
    BY <2>1 DEF PreviewInv
  <2>3. delayed'["debounced"] >= delayed["debounced"] /\ Waiting' /\ Announced' = Announced
    BY <1>1, <2>1 DEF Waiting, Announced, Defer
  <2>4. WindowInv'
    BY <1>0, <1>1, <2>2, <2>3 DEF Defer, WindowInv
  <2>5. SaveInv'
    BY <1>0, <1>1, <2>2, <2>3 DEF Defer, SaveInv
  <2> QED
    BY <2>3, <2>4, <2>5 DEF PictureInv
<1>4. (stored = changes => saveIn = 0)'
  BY DEF Defer, PreviewInv
<1> QED
  BY <1>2, <1>3, <1>4 DEF PreviewInv

(* The render jobs move on while the queue and the timers stay. *)
LEMMA StartKeeps ==
  ASSUME PreviewInv, NEW j \in Jobs, StartRender(j)
  PROVE  PreviewInv'
<1> DEFINE r == [job |-> j, shows |-> stored]
<1>1. /\ rendering' = rendering \cup {r}
      /\ UNCHANGED <<changes, due, stored, saveIn, leaves, window, queued, delayed, cooldown,
                     preview, mishaps, degraded>>
  BY DEF StartRender
<1>2. PreviewTypeOK' /\ TimerTypes'
  <2>1. ready' \in [Jobs -> Nat]
    BY DEF StartRender, PreviewInv, PreviewTypeOK
  <2>2. r \in [job : Jobs, shows : 0..stored]
    BY DEF PreviewInv, PreviewTypeOK
  <2> QED
    BY <1>1, <2>1, <2>2 DEF PreviewInv, PreviewTypeOK, TimerTypes
<1>3. ASSUME ~degraded PROVE (WindowInv /\ SaveInv /\ PictureInv)'
  <2>1. WindowInv /\ SaveInv /\ PictureInv
    BY <1>3 DEF PreviewInv
  <2>2. Announced' = Announced /\ Waiting' = Waiting
    BY <1>1 DEF Announced, Waiting
  <2>3. WindowInv' /\ SaveInv'
    BY <1>1, <2>1, <2>2 DEF WindowInv, SaveInv
  <2>4. /\ stored \in Nat /\ due \in Nat /\ saveIn \in Nat /\ delayed["debounced"] \in Nat
        /\ r \in rendering' /\ r.shows = stored
    BY <1>1, PreviewConstants DEF PreviewInv, PreviewTypeOK, TimerTypes, Renders
  <2>5. stored < due => Waiting
    BY <2>1, <2>4 DEF SaveInv, Waiting
  <2>6. ~(stored < due) => Drawing'
    <3>1. ~(stored < due) => r.shows >= due'
      BY <1>1, <2>4
    <3> QED
      BY <2>4, <3>1 DEF Drawing
  <2>7. PictureInv'
    BY <1>1, <2>1, <2>2, <2>4, <2>5, <2>6 DEF PictureInv
  <2> QED
    BY <2>3, <2>7
<1> QED
  BY <1>1, <1>2, <1>3 DEF PreviewInv

LEMMA FinishKeeps ==
  ASSUME PreviewInv, NEW r \in rendering, FinishRender(r)
  PROVE  PreviewInv'
<1>1. /\ rendering' = rendering \ {r} /\ preview' = r.shows /\ cooldown' = MinInterval
      /\ UNCHANGED <<changes, due, stored, saveIn, leaves, window, queued, delayed, ready,
                     mishaps, degraded>>
  BY DEF FinishRender
<1>0. MinInterval \in Nat /\ stored \in Nat /\ r.shows \in 0..stored
  BY PreviewConstants DEF PreviewInv, PreviewTypeOK
<1>2. PreviewTypeOK' /\ TimerTypes'
  BY <1>0, <1>1 DEF PreviewInv, PreviewTypeOK, TimerTypes
<1>3. ASSUME ~degraded PROVE (WindowInv /\ SaveInv /\ PictureInv)'
  <2>1. WindowInv /\ SaveInv /\ PictureInv
    BY <1>3 DEF PreviewInv
  <2>2. Announced' = Announced /\ Waiting' = Waiting
    BY <1>1 DEF Announced, Waiting
  <2>3. WindowInv' /\ SaveInv'
    BY <1>1, <2>1, <2>2 DEF WindowInv, SaveInv
  <2>4. PictureInv'
    BY <1>1, <2>1, <2>2 DEF PictureInv
  <2> QED
    BY <2>3, <2>4
<1> QED
  BY <1>1, <1>2, <1>3 DEF PreviewInv

(* A job that fails is tried again, or the loss is on record. *)
LEMMA RetryKeeps ==
  ASSUME PreviewInv, NEW j \in Jobs, NEW others \in [Jobs -> Nat], Retry(j, others),
         rendering' \subseteq rendering,
         UNCHANGED <<changes, due, stored, saveIn, leaves, window, queued, delayed, cooldown,
                     preview>>
  PROVE  PreviewInv'
<1>0. RenderAttempts \in Nat
  BY PreviewConstants
<1>1. CASE j.try < RenderAttempts
  <2> DEFINE n == Job(j.kind, j.try + 1)
  <2>1. n \in Jobs
    BY <1>0, <1>1 DEF Jobs, Job
  <2>2. ready' = [others EXCEPT ![n] = @ + 1] /\ degraded' = degraded /\ mishaps' = mishaps + 1
    BY <1>1 DEF Retry, Fault
  <2> HIDE DEF n
  <2>3. ready' \in [Jobs -> Nat] /\ ready'[n] > 0
    BY <2>1, <2>2
  <2>4. PreviewTypeOK' /\ TimerTypes'
    BY <2>2, <2>3 DEF PreviewInv, PreviewTypeOK, TimerTypes
  <2>5. Drawing'
    BY <2>1, <2>3 DEF Drawing
  <2>6. Announced' = Announced /\ Waiting' = Waiting
    BY DEF Announced, Waiting
  <2>7. ASSUME ~degraded PROVE (WindowInv /\ SaveInv /\ PictureInv)'
    BY <2>5, <2>6, <2>7 DEF PreviewInv, WindowInv, SaveInv, PictureInv
  <2> QED
    BY <2>2, <2>4, <2>7 DEF PreviewInv
<1>2. CASE ~(j.try < RenderAttempts)
  <2>1. ready' = others /\ degraded' = TRUE /\ mishaps' = mishaps + 1
    BY <1>2 DEF Retry, Fault
  <2>2. PreviewTypeOK' /\ TimerTypes'
    BY <2>1 DEF PreviewInv, PreviewTypeOK, TimerTypes
  <2> QED
    BY <2>1, <2>2 DEF PreviewInv
<1> QED
  BY <1>1, <1>2

LEMMA FailureKeeps ==
  ASSUME PreviewInv
  PROVE  /\ \A r \in rendering : RenderFails(r) => PreviewInv'
         /\ \A j \in Jobs : ReadFails(j) => PreviewInv'
<1>0. ready \in [Jobs -> Nat] /\ rendering \subseteq [job : Jobs, shows : 0..stored]
  BY DEF PreviewInv, PreviewTypeOK
<1>1. ASSUME NEW r \in rendering, RenderFails(r) PROVE PreviewInv'
  <2>1. r.job \in Jobs
    BY <1>0
  <2> QED
    BY <1>0, <1>1, <2>1, RetryKeeps DEF RenderFails
<1>2. ASSUME NEW j \in Jobs, ReadFails(j) PROVE PreviewInv'
  <2> DEFINE others == [ready EXCEPT ![j] = @ - 1]
  <2>1. others \in [Jobs -> Nat]
    BY <1>0, <1>2 DEF ReadFails
  <2> QED
    BY <1>2, <2>1, RetryKeeps DEF ReadFails
<1> QED
  BY <1>1, <1>2

(* Time takes as much from the window and the save as from the job that    *)
(* outlasts them, and a job that is due is ready.                          *)
LEMMA TickKeeps == PreviewInv /\ Tick => PreviewInv'
<1> SUFFICES ASSUME PreviewInv, Tick PROVE PreviewInv'
  OBVIOUS
<1>0. /\ "mutated" \in EventNames /\ "debounced" \in Renders
      /\ {MinInterval, SaveTime, MutatedWindow} \subseteq Nat
  BY PreviewConstants DEF EventNames, Renders
<1>1. \A n \in Nat : Down(n) \in Nat /\ Down(n) <= n
  BY DEF Down
<1>2. PreviewTypeOK' /\ TimerTypes'
  <2>1. window' \in [EventNames -> Nat] /\ window'["mutated"] <= MutatedWindow
    BY <1>0, <1>1 DEF Tick, PreviewInv, PreviewTypeOK, TimerTypes
  <2>2. delayed' \in [Renders -> 0..MinInterval]
    <3>1. \A n \in 0..MinInterval : Down(n) \in 0..MinInterval
      BY <1>0 DEF Down
    <3> QED
      BY <3>1 DEF Tick, PreviewInv, PreviewTypeOK
  <2>3. ready' \in [Jobs -> Nat]
    BY DEF Tick, PreviewInv, PreviewTypeOK
  <2>4. saveIn' \in 0..SaveTime /\ cooldown' \in 0..MinInterval
    BY <1>0 DEF Tick, Down, PreviewInv, TimerTypes
  <2> QED
    BY <2>1, <2>2, <2>3, <2>4 DEF Tick, PreviewInv, PreviewTypeOK, TimerTypes
<1>3. /\ window["mutated"] \in Nat /\ delayed["debounced"] \in Nat /\ saveIn \in Nat
      /\ window'["mutated"] = Down(window["mutated"])
      /\ delayed'["debounced"] = Down(delayed["debounced"]) /\ saveIn' = Down(saveIn)
  BY <1>0 DEF Tick, PreviewInv, PreviewTypeOK, TimerTypes
<1>6. delayed["debounced"] = 1 => \E j \in Jobs : ready'[j] > 0
  <2> DEFINE j == Job("debounced", 1)
  <2>1. j \in Jobs /\ j.try = 1 /\ j.kind = "debounced"
    BY PreviewConstants DEF Job, Jobs, Renders
  <2> HIDE DEF j
  <2>2. ready[j] \in Nat /\ (delayed["debounced"] = 1 => ready'[j] = ready[j] + 1)
    BY <2>1 DEF Tick, PreviewInv, PreviewTypeOK
  <2> QED
    BY <2>1, <2>2
<1>4. (stored = changes => saveIn = 0)'
  BY <1>3 DEF Tick, PreviewInv, Down
<1>5. ASSUME ~degraded PROVE (WindowInv /\ SaveInv /\ PictureInv)'
  <2>1. WindowInv /\ SaveInv /\ PictureInv
    BY <1>5 DEF PreviewInv
  <2>2. Announced' = Announced
    BY DEF Announced, Tick
  <2>3. WindowInv'
    BY <1>0, <1>3, <2>1, <2>2 DEF WindowInv, Down
  <2>4. SaveInv'
    <3>1. (stored' < due') = (stored < due) /\ (stored < due => saveIn > 0)
      BY DEF Tick, PreviewInv, PreviewTypeOK
    <3> QED
      BY <1>3, <1>4, <2>1, <2>2, <3>1 DEF SaveInv, Down
  <2>5. rendering' = {} /\ rendering = {} /\ due' = due /\ preview' = preview
    BY DEF Tick
  <2>6. ASSUME Waiting PROVE Waiting' \/ Drawing'
    <3>1. CASE delayed["debounced"] = 1
      BY <1>6, <3>1 DEF Drawing
    <3>2. CASE delayed["debounced"] # 1
      BY <1>3, <2>2, <2>6, <3>2 DEF Waiting, Down
    <3> QED
      BY <3>1, <3>2
  <2>7. ASSUME Drawing PROVE Drawing'
    <3>1. PICK k \in Jobs : ready[k] > 0
      BY <2>5, <2>7 DEF Drawing
    <3>2. ready'[k] > 0
      BY <3>1 DEF Tick, PreviewInv, PreviewTypeOK
    <3> QED
      BY <3>2 DEF Drawing
  <2>8. PictureInv'
    BY <2>1, <2>5, <2>6, <2>7 DEF PictureInv
  <2> QED
    BY <2>3, <2>4, <2>8
<1> QED
  BY <1>2, <1>4, <1>5 DEF PreviewInv, Tick

LEMMA PreviewStep == PreviewInv /\ [PreviewNext]_previewVars => PreviewInv'
<1> SUFFICES ASSUME PreviewInv, [PreviewNext]_previewVars PROVE PreviewInv'
  OBVIOUS
<1>1. CASE UNCHANGED previewVars
  BY <1>1
  DEF previewVars, PreviewInv, PreviewTypeOK, TimerTypes, WindowInv, SaveInv, PictureInv,
      Announced, Waiting, Drawing
<1>2. CASE PreviewProgress
  BY <1>2, TickKeeps, StoreKeeps, DeferKeeps, ConsumeKeeps, StartKeeps, FinishKeeps
  DEF PreviewProgress
<1> QED
  BY <1>1, <1>2, MutateKeeps, CrdtKeeps, LeavingKeeps, FailureKeeps DEF PreviewNext

(* The inductive invariant of the previews: a change that is announced     *)
(* while announcements are coalesced is stored before the job of the first *)
(* one is due (the windows of shared/events.ts against the delays of       *)
(* preview-job.service.ts), and a picture that is out of date has a        *)
(* successor.                                                              *)
THEOREM PreviewInvariant == PreviewSpec => []PreviewInv
  BY PreviewInvInit, PreviewStep, PTL DEF PreviewSpec

(* No announced change is forgotten: it is shown, or a render that will    *)
(* read it is announced, scheduled or under way, or it is on record that   *)
(* an announcement or a job was lost since the last fresh one (the third   *)
(* attempt of a job is its last).                                          *)
THEOREM ChangesAreRemembered == PreviewSpec => []NoChangeForgotten
  BY PreviewInvariant, NothingForgotten, PTL

-----------------------------------------------------------------------------
(* The services side by side: a step of one is a step of it, and leaves    *)
(* the state of every other one alone.                                     *)

ServicesInv ==
  /\ MovesInv /\ DeliveryInv /\ ViewInv /\ PreviewInv
  /\ TokenInv /\ BillingInv /\ SharingInv

LEMMA ServicesInvInit == ServicesInit => ServicesInv
  BY MovesInit, DeliveryInvInit, ViewInit, PreviewInvInit, TokenInvInit, BillingInvInit,
     SharingInvInit
  DEF ServicesInit, ServicesInv

LEMMA StepsAreOwn ==
  ASSUME [ServicesNext]_<<service, boardJobVars, accountVars>>
  PROVE  /\ [BufferNext]_bufferVars /\ [DeliveryNext]_deliveryVars
         /\ [BroadcastNext]_broadcastVars /\ [PreviewNext]_previewVars
         /\ [TokenNext]_tokenVars /\ [BillingNext]_billingVars /\ [SharingNext]_sharingVars
<1> USE DEF boardJobVars, accountVars
<1>1. CASE MoveSteps
  BY <1>1 DEF MoveSteps
<1>2. CASE DeliverySteps
  BY <1>2 DEF DeliverySteps
<1>3. CASE ViewSteps
  BY <1>3 DEF ViewSteps
<1>4. CASE FlushSteps
  BY <1>4 DEF FlushSteps
<1>5. CASE PreviewSteps
  BY <1>5 DEF PreviewSteps
<1>6. CASE TokenSteps
  BY <1>6 DEF TokenSteps
<1>7. CASE BillingSteps
  BY <1>7 DEF BillingSteps
<1>8. CASE SharingSteps
  BY <1>8 DEF SharingSteps
<1>9. CASE UNCHANGED <<service, boardJobVars, accountVars>>
  BY <1>9
<1> QED
  BY <1>1, <1>2, <1>3, <1>4, <1>5, <1>6, <1>7, <1>8, <1>9 DEF ServicesNext

LEMMA ServicesStep ==
  ServicesInv /\ [ServicesNext]_<<service, boardJobVars, accountVars>> => ServicesInv'
  BY StepsAreOwn, MovesStep, DeliveryStep, ViewStep, PreviewStep, TokenInvStep, BillingStep,
     SharingStep
  DEF ServicesInv

LEMMA ServicesTypesFollow == ServicesInv => ServicesTypeOK
  BY BillingTypesFollow, SharingTypesFollow
  DEF ServicesInv, MovesInv, DeliveryInv, ViewInv, PreviewInv, TokenInv, ServicesTypeOK

(* The state of every service has its type, whichever of them runs: among  *)
(* other things a user has at most one billing link                        *)
(* (upsertCustomerLink), only events that Stripe sent are recorded         *)
(* (handleWebhook), and no picture shows more than is stored               *)
(* (processBoardPreview).                                                  *)
THEOREM ServicesTypes == ServicesSpec => []ServicesTypeOK
  BY ServicesInvInit, ServicesStep, ServicesTypesFollow, PTL DEF ServicesSpec

=============================================================================
