--------------------------- MODULE TrackLoadProofs ---------------------------
(***************************************************************************)
(* Theorems about TrackLoad, for every number of tracks, sessions and      *)
(* requests, both switch modes, with and without a file and a --seek on    *)
(* the command line.                                                       *)
(***************************************************************************)
EXTENDS TrackLoad, SequenceTheorems, TLAPS

-----------------------------------------------------------------------------
(* Type correctness.  ReportDrop names the last session, so TypeOK needs to *)
(* know that there has been one.                                           *)

Served == serving => lastSession # 0

\* The parts of TypeOK the model and the loads use, and those of the IPC link.
TypeOfModel ==
  /\ exiting \in BOOLEAN /\ running \in BOOLEAN
  /\ loading \in BOOLEAN /\ pendingSeek \in BOOLEAN /\ isPlaying \in BOOLEAN
  /\ loadGeneration \in Gens /\ activeGeneration \in Gens
  /\ pendingLoad \in Gens \cup {Nil}
  /\ audioPlayer \in Gens \cup {Nil}
  /\ accent \in Gens \cup {Nil}
  /\ task \in [Gens -> TaskState]
  /\ canceled \in [Gens -> BOOLEAN]
  /\ owned \in [Gens -> BOOLEAN]
  /\ player \in [Gens -> PlayerState]
  /\ inbox \in SUBSET Message
  /\ sought \in SUBSET Gens

TypeOfLink ==
  /\ ipcSession \in 0 .. MaxSession
  /\ ipcPendingOpen \in OpenRequest \cup {Nil}
  /\ server \in 0 .. MaxSession
  /\ serving \in BOOLEAN
  /\ lastSession \in 0 .. MaxSession
  /\ incoming \in Seq(Event)
  /\ answers \in [Request -> Seq(Status)]
  /\ openedAs \in [Request -> Gens \cup {Nil}]
  /\ Served

\* SendTo appends at most one status to the answers of a request.
LEMMA ReplyType ==
  ASSUME NEW ans \in [Request -> Seq(Status)], NEW r \in OpenRequest \cup {Nil}, NEW s \in Status
  PROVE  Reply(ans, r, s) \in [Request -> Seq(Status)]
<1>1. CASE r = Nil
  BY <1>1 DEF Reply
<1>2. CASE r # Nil
  <2>1. r.id \in Request
    BY <1>2 DEF OpenRequest
  <2>2. Append(ans[r.id], s) \in Seq(Status)
    BY <2>1
  <2> QED BY <2>1, <2>2 DEF Reply
<1> QED BY <1>1, <1>2

LEMMA InitType == Init => TypeOfModel /\ TypeOfLink
<1> SUFFICES ASSUME Init PROVE TypeOfModel /\ TypeOfLink
  OBVIOUS
<1>1. 0 \in Gens /\ 0 \in 0 .. MaxSession
  BY ConstantsAssumption DEF Gens
<1>2. loading \in BOOLEAN /\ pendingSeek \in BOOLEAN
  BY ConstantsAssumption, Zenon DEF Init
<1>3. task \in [Gens -> TaskState]
  BY DEF Init, TaskState
<1>4. canceled \in [Gens -> BOOLEAN] /\ owned \in [Gens -> BOOLEAN] /\ player \in [Gens -> PlayerState]
  BY DEF Init, PlayerState
<1>5. TypeOfModel
  BY <1>1, <1>2, <1>3, <1>4 DEF Init, TypeOfModel
<1>6. TypeOfLink
  BY <1>1 DEF Init, TypeOfLink, Served, NoSession
<1> QED BY <1>5, <1>6

\* The helpers keep the types of the functions they update.
LEMMA HelperTypes ==
  ASSUME TypeOfModel
  PROVE  /\ \A l : Cancel(canceled, l) \in [Gens -> BOOLEAN]
         /\ \A o \in [Gens -> BOOLEAN] : \A l : Disown(o, l) \in [Gens -> BOOLEAN]
         /\ \A S : Closed(player, S) \in [Gens -> PlayerState]
BY DEF TypeOfModel, Cancel, Disown, Closed, PlayerState

LEMMA LoadTrackType ==
  ASSUME TypeOfModel, LoadTrack, UNCHANGED <<exiting, running, inbox, sought>>
  PROVE  TypeOfModel'
<1>1. loadGeneration + 1 \in Gens
  BY ConstantsAssumption DEF TypeOfModel, LoadTrack, Gens
<1>2. task' \in [Gens -> TaskState]
  BY <1>1 DEF TypeOfModel, LoadTrack, TaskState
<1>3. /\ canceled' \in [Gens -> BOOLEAN]
      /\ owned' \in [Gens -> BOOLEAN]
      /\ player' \in [Gens -> PlayerState]
  BY HelperTypes DEF LoadTrack, TypeOfModel
<1>4. /\ loadGeneration' \in Gens /\ activeGeneration' \in Gens /\ pendingLoad' \in Gens \cup {Nil}
      /\ audioPlayer' \in Gens \cup {Nil} /\ accent' \in Gens \cup {Nil}
      /\ loading' \in BOOLEAN /\ pendingSeek' \in BOOLEAN /\ isPlaying' \in BOOLEAN
  BY <1>1 DEF LoadTrack, TypeOfModel, ForgetSeek
<1> QED BY <1>2, <1>3, <1>4 DEF TypeOfModel

LEMMA CleanupType ==
  ASSUME TypeOfModel, Cleanup,
         UNCHANGED <<loadGeneration, activeGeneration, loading, pendingSeek, isPlaying, accent, task,
                     loopVars, sought>>
  PROVE  TypeOfModel'
<1>1. /\ canceled' \in [Gens -> BOOLEAN]
      /\ owned' \in [Gens -> BOOLEAN]
      /\ player' \in [Gens -> PlayerState]
  BY HelperTypes DEF Cleanup, TypeOfModel
<1> QED BY <1>1 DEF TypeOfModel, Cleanup, loopVars
LEMMA ModelTypeStep ==
  ASSUME TypeOfModel, [Next]_vars PROVE TypeOfModel'
<1>1. ASSUME NEW g \in Gens, StartTask(g) PROVE TypeOfModel'
  BY <1>1 DEF StartTask, TypeOfModel, modelVars, audioVars, loopVars, TaskState, PlayerState
<1>2. ASSUME NEW g \in Gens, OpenDecoder(g) PROVE TypeOfModel'
  BY <1>2 DEF OpenDecoder, TypeOfModel, modelVars, audioVars, loopVars, TaskState, PlayerState,
     Live
<1>3. ASSUME NEW g \in Gens, Deliver(g) PROVE TypeOfModel'
  <2>1. /\ task' \in [Gens -> TaskState] /\ owned' \in [Gens -> BOOLEAN]
        /\ player' \in [Gens -> PlayerState] /\ inbox' \in SUBSET Message
    <3>1. task' \in [Gens -> TaskState]
      BY <1>3 DEF Deliver, TypeOfModel, TaskState
    <3>2. player' \in [Gens -> PlayerState]
      BY <1>3, HelperTypes DEF Deliver, TypeOfModel
    <3>3. CASE canceled[g]
      BY <1>3, <3>1, <3>2, <3>3 DEF Deliver, TypeOfModel
    <3>4. CASE ~canceled[g]
      <4>1. owned' \in [Gens -> BOOLEAN]
        BY <1>3, <3>4, (task[g] = "opened") \in BOOLEAN DEF Deliver, TypeOfModel
      <4>2. [kind |-> IF task[g] = "opened" THEN "loaded" ELSE "failed", gen |-> g] \in Message
        BY DEF Message
      <4>3. inbox' \in SUBSET Message
        BY <1>3, <3>4, <4>2 DEF Deliver, TypeOfModel
      <4> QED BY <3>1, <3>2, <4>1, <4>3
    <3> QED BY <3>3, <3>4
  <2> QED BY <1>3, <2>1 DEF Deliver, TypeOfModel, modelVars, audioVars
<1>4. ASSUME NEW g \in Gens, DiscardLoaded(g) PROVE TypeOfModel'
  <2>1. /\ canceled' \in [Gens -> BOOLEAN] /\ owned' \in [Gens -> BOOLEAN]
        /\ player' \in [Gens -> PlayerState]
    BY <1>4, HelperTypes DEF DiscardLoaded, TypeOfModel
  <2> QED BY <1>4, <2>1 DEF DiscardLoaded, TypeOfModel, modelVars, audioVars
<1>5. ASSUME NEW g \in Gens, AcceptLoaded(g) PROVE TypeOfModel'
  <2>1. /\ canceled' \in [Gens -> BOOLEAN] /\ owned' \in [Gens -> BOOLEAN]
    BY <1>5, HelperTypes DEF AcceptLoaded, FinishLoad, TypeOfModel
  <2>2. player' \in [Gens -> PlayerState]
    BY <1>5, HelperTypes DEF AcceptLoaded, TypeOfModel, PlayerState, Live
  <2>3. inbox' \in SUBSET Message
    BY <1>5 DEF AcceptLoaded, TypeOfModel, Message
  <2> QED BY <1>5, <2>1, <2>2, <2>3 DEF AcceptLoaded, FinishLoad, ForgetSeek, TypeOfModel
<1>6. ASSUME NEW g \in Gens, PlayFails(g) PROVE TypeOfModel'
  <2>1. /\ canceled' \in [Gens -> BOOLEAN] /\ owned' \in [Gens -> BOOLEAN]
    BY <1>6, HelperTypes DEF PlayFails, FinishLoad, TypeOfModel
  <2>2. player' \in [Gens -> PlayerState] /\ isPlaying' \in BOOLEAN
    BY <1>6 DEF PlayFails, TypeOfModel, PlayerState, Live
  <2> QED BY <1>6, <2>1, <2>2 DEF PlayFails, FinishLoad, TypeOfModel
<1>7. ASSUME NEW g \in Gens, HandleLoadFailed(g) PROVE TypeOfModel'
  <2>1. /\ canceled' \in [Gens -> BOOLEAN] /\ owned' \in [Gens -> BOOLEAN]
        /\ player' \in [Gens -> PlayerState] /\ pendingLoad' \in Gens \cup {Nil} /\ loading' \in BOOLEAN
    <3>1. CASE Stale(g)
      BY <1>7, <3>1 DEF HandleLoadFailed, TypeOfModel
    <3>2. CASE ~Stale(g)
      <4>1. canceled' \in [Gens -> BOOLEAN] /\ pendingLoad' \in Gens \cup {Nil} /\ loading' \in BOOLEAN
        BY <1>7, <3>2, HelperTypes DEF HandleLoadFailed, FinishLoad
      <4>2. owned' \in [Gens -> BOOLEAN]
        BY <1>7, <3>2, HelperTypes DEF HandleLoadFailed, TypeOfModel
      <4>3. player' \in [Gens -> PlayerState]
        BY <1>7, <3>2, HelperTypes DEF HandleLoadFailed
      <4> QED BY <4>1, <4>2, <4>3
    <3> QED BY <3>1, <3>2
  <2> QED BY <1>7, <2>1 DEF HandleLoadFailed, TypeOfModel, audioVars
<1>8. ASSUME NEW g \in Gens, HandleAccent(g) PROVE TypeOfModel'
  BY <1>8 DEF HandleAccent, TypeOfModel, modelVars, loadVars
<1>9. CASE UserOpen
  BY <1>9, LoadTrackType DEF UserOpen, loopVars
<1>10. CASE SetPlaying
  BY <1>10 DEF SetPlaying, TypeOfModel, PlayerState, Live, modelVars, loopVars
<1>11. CASE UserQuit \/ HostClose \/ HandleQuit
  BY <1>11, CleanupType DEF UserQuit, HostClose, HandleQuit
<1>12. CASE LoopEnds
  BY <1>12 DEF LoopEnds, TypeOfModel, modelVars, audioVars, loadVars
<1>13. CASE \/ Connect \/ Drop \/ ReportDrop \/ (\E r \in Request : GuiRequest(r))
            \/ HandleConnected \/ HandleDisconnected \/ RefuseRequest
  BY <1>13 DEF Connect, Drop, ReportDrop, GuiRequest, HandleConnected, HandleDisconnected,
     RefuseRequest,
               otherVars, TypeOfModel, modelVars, audioVars, loadVars, loopVars
<1>14. CASE HandleOpen
  BY <1>14, LoadTrackType DEF HandleOpen, loopVars
<1>15. CASE UNCHANGED vars
  BY <1>15 DEF vars, TypeOfModel, modelVars, audioVars, loadVars, loopVars
<1> QED BY <1>1, <1>2, <1>3, <1>4, <1>5, <1>6, <1>7, <1>8, <1>9, <1>10, <1>11, <1>12, <1>13,
           <1>14, <1>15
        DEF Next, Task, HandleLoadMessage, HandleEvent

LEMMA LinkTypeStep ==
  ASSUME TypeOfModel, TypeOfLink, [Next]_vars PROVE TypeOfLink'
<1> DEFINE Keeps == UNCHANGED <<ipcSession, server, serving, lastSession, incoming, openedAs>>
<1>a. ASSUME NEW s \in Status, FinishOpen(s), Keeps PROVE TypeOfLink'
  BY <1>a, ReplyType DEF FinishOpen, TypeOfLink, Served
<1>b. \A k \in {"connected", "disconnected"}, s \in Sessions :
        [kind |-> k, session |-> s, req |-> Nil] \in Event
  BY DEF Event
<1>c. \A k \in RequestKind, s \in Sessions, r \in Request :
        [kind |-> k, session |-> s, req |-> r] \in Event
  BY DEF Event
<1>d. ASSUME incoming # <<>>
      PROVE  Tail(incoming) \in Seq(Event) /\ Head(incoming) \in Event
  BY <1>d DEF TypeOfLink
<1>e. \A e \in Event : e.session \in Sessions /\ (e.kind \in RequestKind => e.req \in Request)
  BY DEF Event, RequestKind
<1>1. ASSUME NEW g \in Gens, Task(g) \/ DiscardLoaded(g) \/ HandleAccent(g) PROVE TypeOfLink'
  BY <1>1 DEF Task, StartTask, OpenDecoder, Deliver, DiscardLoaded, HandleAccent,
              TypeOfLink, Served, serverVars, linkVars
<1>2. ASSUME NEW g \in Gens, AcceptLoaded(g) PROVE TypeOfLink'
  BY <1>2, <1>a DEF AcceptLoaded, serverVars, Status
<1>3. ASSUME NEW g \in Gens, PlayFails(g) PROVE TypeOfLink'
  BY <1>3, <1>a DEF PlayFails, serverVars, Status
<1>4. ASSUME NEW g \in Gens, HandleLoadFailed(g) PROVE TypeOfLink'
  <2>1. CASE Stale(g)
    BY <1>4, <2>1 DEF HandleLoadFailed, TypeOfLink, Served, serverVars
  <2>2. CASE ~Stale(g)
    BY <1>4, <2>2, <1>a DEF HandleLoadFailed, serverVars, Status
  <2> QED BY <2>1, <2>2
<1>5. CASE UserOpen
  BY <1>5, <1>a DEF UserOpen, serverVars, Status
<1>6. CASE SetPlaying \/ LoopEnds
  BY <1>6 DEF SetPlaying, LoopEnds, TypeOfLink, Served, serverVars, linkVars
<1>7. CASE UserQuit \/ HostClose
  BY <1>7, ConstantsAssumption DEF UserQuit, HostClose, Cleanup, TypeOfLink, Served, linkVars,
     NoSession
<1>8. CASE Connect
  <2>1. lastSession + 1 \in Sessions /\ lastSession + 1 \in 0 .. MaxSession
    BY <1>8, ConstantsAssumption DEF Connect, TypeOfLink, Sessions
  <2> QED BY <1>8, <1>b, <2>1 DEF Connect, Post, TypeOfLink, Served, linkVars, Sessions
<1>9. ASSUME NEW r \in Request, GuiRequest(r) PROVE TypeOfLink'
  <2>1. server \in Sessions
    BY <1>9, ConstantsAssumption DEF GuiRequest, TypeOfLink, Sessions, NoSession
  <2> QED BY <1>9, <1>c, <2>1 DEF GuiRequest, Post, TypeOfLink, Served, serverVars, linkVars
<1>10. CASE Drop
  BY <1>10, ConstantsAssumption DEF Drop, TypeOfLink, Served, linkVars, NoSession
<1>11. CASE ReportDrop
  <2>1. lastSession \in Sessions
    BY <1>11, ConstantsAssumption DEF ReportDrop, TypeOfLink, Served, Sessions
  <2>2. incoming' \in Seq(Event)
    <3>1. [kind |-> "disconnected", session |-> lastSession, req |-> Nil] \in Event
      BY <1>b, <2>1
    <3> QED BY <1>11, <3>1 DEF ReportDrop, Post, TypeOfLink
  <2> QED BY <1>11, <2>2 DEF ReportDrop, TypeOfLink, Served, linkVars
<1>12. CASE HandleConnected
  BY <1>12, <1>d DEF HandleConnected, NextEvent, TypeOfLink, Served, serverVars
<1>13. CASE HandleDisconnected
  BY <1>13, <1>d, ConstantsAssumption
     DEF HandleDisconnected, NextEvent, TypeOfLink, Served, serverVars, NoSession
<1>14. CASE HandleOpen
  <2> DEFINE e == Head(incoming)
             request == [id |-> e.req, session |-> ipcSession]
  <2>1. e \in Event /\ e.kind \in RequestKind
    BY <1>14, <1>d DEF HandleOpen, NextEvent, RequestKind
  <2>2. e.req \in Request /\ request \in OpenRequest
    BY <1>14, <1>e, <2>1 DEF HandleOpen, Current, OpenRequest
  <2>3. answers' \in [Request -> Seq(Status)]
    <3>1. Reply(answers, ipcPendingOpen, "cancelled") \in [Request -> Seq(Status)]
      BY ReplyType DEF TypeOfLink, Status
    <3>2. Reply(Reply(answers, ipcPendingOpen, "cancelled"), request, "accepted") \in [Request -> Seq(Status)]
      BY <3>1, <2>2, ReplyType DEF Status
    <3> QED BY <1>14, <3>2 DEF HandleOpen
  <2>4. openedAs' \in [Request -> Gens \cup {Nil}]
    <3>1. loadGeneration + 1 \in Gens
      BY <1>14, ConstantsAssumption DEF HandleOpen, LoadTrack, TypeOfModel, Gens
    <3> QED BY <1>14, <3>1 DEF HandleOpen, TypeOfLink
  <2>5. ipcPendingOpen' \in OpenRequest \cup {Nil}
    BY <1>14, <2>2 DEF HandleOpen
  <2>6. incoming' \in Seq(Event)
    BY <1>14, <1>d DEF HandleOpen, NextEvent
  <2>7. UNCHANGED <<ipcSession, server, serving, lastSession>>
    BY <1>14 DEF HandleOpen, serverVars
  <2> HIDE DEF e, request
  <2> QED BY <2>3, <2>4, <2>5, <2>6, <2>7 DEF TypeOfLink, Served
<1>15. CASE RefuseRequest
  <2> DEFINE e == Head(incoming)
  <2>1. [id |-> e.req, session |-> e.session] \in OpenRequest
    BY <1>15, <1>d, <1>e DEF RefuseRequest, NextEvent, OpenRequest
  <2>2. answers' \in [Request -> Seq(Status)]
    BY <1>15, <2>1, ReplyType DEF RefuseRequest, TypeOfLink, Status
  <2> QED BY <1>15, <1>d, <2>2 DEF RefuseRequest, NextEvent, TypeOfLink, Served, serverVars
<1>16. CASE HandleQuit
  <2> DEFINE e == Head(incoming)
  <2>1. [id |-> e.req, session |-> e.session] \in OpenRequest
    BY <1>16, <1>d, <1>e DEF HandleQuit, NextEvent, OpenRequest, RequestKind
  <2>2. answers' \in [Request -> Seq(Status)]
    BY <1>16, <2>1, ReplyType DEF HandleQuit, TypeOfLink, Status
  <2> QED BY <1>16, <1>d, <2>2, ConstantsAssumption
          DEF HandleQuit, Cleanup, NextEvent, TypeOfLink, Served, NoSession
<1>17. CASE UNCHANGED vars
  BY <1>17 DEF vars, TypeOfLink, Served, serverVars, linkVars
<1> QED BY <1>1, <1>2, <1>3, <1>4, <1>5, <1>6, <1>7, <1>8, <1>9, <1>10, <1>11, <1>12, <1>13,
           <1>14, <1>15,
           <1>16, <1>17
        DEF Next, HandleLoadMessage, HandleEvent

\* Every handler keeps every variable in its range: in particular no answer is
\* recorded for a request of session 0 and no event names a session that never was.
THEOREM TypeCorrect == Spec => []TypeOK
<1> DEFINE T == TypeOfModel /\ TypeOfLink
<1>1. Init => T
  BY InitType
<1>2. T /\ [Next]_vars => T'
  BY ModelTypeStep, LinkTypeStep
<1>3. T => TypeOK
  BY DEF TypeOfModel, TypeOfLink, TypeOK
<1> QED BY <1>1, <1>2, <1>3, PTL DEF Spec
-----------------------------------------------------------------------------
(* Ownership.  PlayerOwned is not inductive: that a player is handed on and *)
(* never held twice depends on where its goroutine and its message are,    *)
(* and on every load but the newest having been canceled.                  *)

Heard == {"playing", "paused"}

\* A load that was not asked for has no trace.
Fresh == \A g \in Gens : g > loadGeneration => task[g] = "idle" /\ ~canceled[g]

\* The goroutine of a load tells how far its player is.
Stage ==
  \A g \in Gens :
    /\ task[g] \in {"idle", "queued"} => player[g] = "none"
    /\ task[g] = "opening" => player[g] = "opening"
    /\ task[g] = "opened" => player[g] = "ready"
    /\ task[g] = "failed" => player[g] = "closed"
    /\ task[g] = "done" => player[g] # "opening"

\* Messages come from goroutines that are done; one that carries a player still
\* owns it unless its load was canceled.
Posted ==
  /\ \A m \in inbox : task[m.gen] = "done"
  /\ \A g \in Gens : [kind |-> "loaded", gen |-> g] \in inbox /\ ~canceled[g] => owned[g]

\* A player that waits for the UI can be taken, and its message is on its way.
Waiting ==
  \A g \in Gens : owned[g] =>
    /\ task[g] = "done" /\ ~canceled[g] /\ player[g] = "ready"
    /\ [kind |-> "loaded", gen |-> g] \in inbox

\* Only the newest load is pending, and every other one that was started is canceled.
Newest ==
  /\ pendingLoad # Nil => /\ pendingLoad = loadGeneration /\ ~exiting
                          /\ ~canceled[pendingLoad] /\ task[pendingLoad] # "idle"
  /\ \A g \in Gens : task[g] # "idle" /\ ~canceled[g] => pendingLoad = g

\* The active player was taken from a load that is over, and only it can be heard.
Adopted ==
  /\ \A g \in Gens : audioPlayer = g =>
       /\ task[g] = "done" /\ canceled[g] /\ player[g] \in Heard
       /\ ~exiting /\ activeGeneration = g
  /\ \A g \in Gens : player[g] \in Heard => audioPlayer = g
  /\ \A g \in Gens : player[g] = "ready" => task[g] = "opened" \/ owned[g]
  /\ audioPlayer # Nil => (isPlaying <=> player[audioPlayer] = "playing")

Ownership == Fresh /\ Stage /\ Posted /\ Waiting /\ Newest /\ Adopted

\* Accents on their way belong to tracks that were adopted; the one that would be
\* accepted belongs to the active track.
Naming ==
  /\ accent # Nil /\ ~exiting => accent = audioPlayer
  /\ \A g \in Gens : [kind |-> "accent", gen |-> g] \in inbox /\ ~exiting /\ g = activeGeneration
                       => audioPlayer = g

\* The seek of the command line is forgotten by the first load after it.
Seeking == pendingSeek => loadGeneration = 0

\* The newest load is pending as long as it is unfinished, and reports only once.
Progress ==
  /\ \A g \in Gens : [kind |-> "loaded", gen |-> g] \in inbox => [kind |-> "failed", gen |-> g] \notin inbox
  /\ ~exiting => /\ loading <=> pendingLoad # Nil
                 /\ pendingLoad # Nil <=> Unfinished(loadGeneration)
LEMMA OwnershipStep ==
  ASSUME TypeOfModel, TypeOfModel', Ownership, [Next]_vars PROVE Ownership'
<1>1. ASSUME NEW g \in Gens, StartTask(g) PROVE Ownership'
  <2>1. Fresh'
    BY <1>1 DEF StartTask, modelVars, Ownership, Fresh, TypeOfModel
  <2>2. Stage'
    BY <1>1 DEF StartTask, Ownership, Stage, TypeOfModel
  <2>3. Posted'
    BY <1>1 DEF StartTask, loopVars, Ownership, Posted, TypeOfModel, Message
  <2>4. Waiting'
    BY <1>1 DEF StartTask, loopVars, Ownership, Waiting, TypeOfModel
  <2>5. Newest'
    BY <1>1 DEF StartTask, modelVars, Ownership, Newest, TypeOfModel
  <2>6. Adopted'
    <3>0. player[g] = "none" /\ audioPlayer # g /\ task[g] # "opened" /\ ~owned[g]
      BY <1>1 DEF StartTask, Ownership, Adopted, Waiting, Stage
    <3>1. player'[g] \notin Heard /\ player'[g] # "ready" /\ audioPlayer # g /\ task[g] # "opened" /\ ~owned[g]
      BY <1>1, <3>0 DEF StartTask, Heard, TypeOfModel

    <3>2. \A h \in Gens : h # g => player'[h] = player[h] /\ task'[h] = task[h]
      BY <1>1 DEF StartTask, TypeOfModel
    <3> QED BY <1>1, <3>1, <3>2 DEF StartTask, Ownership, Adopted, TypeOfModel, modelVars,
               audioVars
  <2> QED BY <2>1, <2>2, <2>3, <2>4, <2>5, <2>6 DEF Ownership
<1>2. ASSUME NEW g \in Gens, OpenDecoder(g) PROVE Ownership'
  <2>1. Fresh'
    BY <1>2 DEF OpenDecoder, modelVars, Ownership, Fresh
  <2>2. Stage'
    BY <1>2 DEF OpenDecoder, Ownership, Stage, TypeOfModel
  <2>3. Posted'
    BY <1>2 DEF OpenDecoder, loopVars, Ownership, Posted
  <2>4. Waiting'
    BY <1>2 DEF OpenDecoder, loopVars, Ownership, Waiting
  <2>5. Newest'
    BY <1>2 DEF OpenDecoder, modelVars, Ownership, Newest
  <2>6. Adopted'
    BY <1>2 DEF OpenDecoder, modelVars, audioVars, Ownership, Adopted, Heard, TypeOfModel
  <2> QED BY <2>1, <2>2, <2>3, <2>4, <2>5, <2>6 DEF Ownership
<1>3. ASSUME NEW g \in Gens, Deliver(g) PROVE Ownership'
  <2>1. Fresh'
    BY <1>3 DEF Deliver, modelVars, Ownership, Fresh
  <2>2. Stage'
    BY <1>3 DEF Deliver, Closed, Ownership, Stage, TypeOfModel
  <2>3. Posted'
    BY <1>3 DEF Deliver, Ownership, Posted, TypeOfModel
  <2>4. Waiting'
    BY <1>3 DEF Deliver, Closed, Ownership, Stage, Waiting, TypeOfModel
  <2>5. Newest'
    BY <1>3 DEF Deliver, modelVars, Ownership, Newest
  <2>6. Adopted'
    BY <1>3 DEF Deliver, Closed, modelVars, audioVars, Ownership, Stage, Adopted, Heard,
       TypeOfModel
  <2> QED BY <2>1, <2>2, <2>3, <2>4, <2>5, <2>6 DEF Ownership
<1>4. ASSUME NEW g \in Gens, DiscardLoaded(g) PROVE Ownership'
  <2>1. Fresh'
    BY <1>4 DEF DiscardLoaded, Cancel, modelVars, Ownership, Fresh, Posted
  <2>2. Stage'
    BY <1>4 DEF DiscardLoaded, Closed, OwnedBy, Ownership, Stage, Posted
  <2>3. Posted'
    BY <1>4 DEF DiscardLoaded, Cancel, Disown, Ownership, Posted
  <2>4. Waiting'
    BY <1>4 DEF DiscardLoaded, Cancel, Disown, Closed, OwnedBy, Ownership, Waiting
  <2>5. Newest'
    BY <1>4 DEF DiscardLoaded, Take, Stale, Cancel, modelVars, Ownership, Newest, TypeOfModel
  <2>6. Adopted'
    BY <1>4 DEF DiscardLoaded, Cancel, Disown, Closed, OwnedBy, modelVars, audioVars, Ownership,
       Waiting, Adopted, Heard, TypeOfModel
  <2> QED BY <2>1, <2>2, <2>3, <2>4, <2>5, <2>6 DEF Ownership
<1>5. ASSUME NEW g \in Gens, AcceptLoaded(g) PROVE Ownership'
  <2>1. Fresh'
    BY <1>5, ConstantsAssumption DEF AcceptLoaded, FinishLoad, Cancel, Ownership, Fresh, Newest
  <2>2. Stage'
    BY <1>5 DEF AcceptLoaded, Take, Closed, OwnedBy, Active, Ownership, Stage, Posted, Newest,
       Adopted
  <2>3. Posted'
    BY <1>5 DEF AcceptLoaded, FinishLoad, Cancel, Ownership, Posted, Newest, TypeOfModel
  <2>4. Waiting'
    BY <1>5 DEF AcceptLoaded, Disown, Ownership, Waiting, Newest
  <2>5. Newest'
    BY <1>5 DEF AcceptLoaded, FinishLoad, Cancel, Ownership, Newest
  <2>6. Adopted'
    BY <1>5 DEF AcceptLoaded, Take, FinishLoad, Cancel, Disown, Closed, Active, Ownership,
       Posted, Newest, Adopted, Heard, TypeOfModel
  <2> QED BY <2>1, <2>2, <2>3, <2>4, <2>5, <2>6 DEF Ownership
<1>6. ASSUME NEW g \in Gens, PlayFails(g) PROVE Ownership'
  <2>1. Fresh'
    BY <1>6, ConstantsAssumption DEF PlayFails, FinishLoad, Cancel, Ownership, Fresh, Newest
  <2>2. Stage'
    BY <1>6 DEF PlayFails, Take, OwnedBy, Ownership, Stage, Posted, Newest
  <2>3. Posted'
    BY <1>6 DEF PlayFails, FinishLoad, Cancel, Ownership, Posted, Newest
  <2>4. Waiting'
    BY <1>6 DEF PlayFails, Disown, Ownership, Waiting, Newest
  <2>5. Newest'
    BY <1>6 DEF PlayFails, FinishLoad, Cancel, Ownership, Newest
  <2>6. Adopted'
    BY <1>6, ConstantsAssumption DEF PlayFails, Take, FinishLoad, Cancel, Disown, OwnedBy,
       Active, Ownership, Newest, Adopted, Heard, TypeOfModel
  <2> QED BY <2>1, <2>2, <2>3, <2>4, <2>5, <2>6 DEF Ownership
<1>7. ASSUME NEW g \in Gens, HandleLoadFailed(g) PROVE Ownership'
  <2>1. Fresh'
    BY <1>7, ConstantsAssumption DEF HandleLoadFailed, FinishLoad, Cancel, Ownership, Fresh,
       Newest
  <2>2. Stage'
    BY <1>7, ConstantsAssumption DEF HandleLoadFailed, Stale, Closed, OwnedBy, Ownership, Stage,
       Waiting
  <2>3. Posted'
    <3>1. inbox' \subseteq inbox /\ \A h \in Gens : canceled[h] => canceled'[h]
      BY <1>7 DEF HandleLoadFailed, FinishLoad, Cancel, TypeOfModel
    <3>2. \A h \in Gens : owned[h] /\ ~owned'[h] => canceled'[h]
      BY <1>7 DEF HandleLoadFailed, FinishLoad, Cancel, Disown, TypeOfModel
    <3>3. task' = task
      BY <1>7 DEF HandleLoadFailed
    <3> QED BY <3>1, <3>2, <3>3 DEF Ownership, Posted, Message, TypeOfModel
  <2>4. Waiting'
    BY <1>7 DEF HandleLoadFailed, Disown, Ownership, Waiting, Newest
  <2>5. Newest'
    BY <1>7 DEF HandleLoadFailed, FinishLoad, Cancel, Ownership, Newest
  <2>6. Adopted'
    BY <1>7, ConstantsAssumption DEF HandleLoadFailed, FinishLoad, Cancel, Disown, Closed,
       OwnedBy, audioVars, Ownership, Newest, Adopted, Heard, TypeOfModel
  <2> QED BY <2>1, <2>2, <2>3, <2>4, <2>5, <2>6 DEF Ownership
<1>8. ASSUME NEW g \in Gens, HandleAccent(g) PROVE Ownership'
  <2>1. Fresh'
    BY <1>8 DEF HandleAccent, modelVars, loadVars, Ownership, Fresh
  <2>2. Stage'
    BY <1>8 DEF HandleAccent, loadVars, Ownership, Stage
  <2>3. Posted'
    BY <1>8 DEF HandleAccent, loadVars, Ownership, Posted
  <2>4. Waiting'
    BY <1>8 DEF HandleAccent, loadVars, Ownership, Waiting
  <2>5. Newest'
    BY <1>8 DEF HandleAccent, modelVars, loadVars, Ownership, Newest
  <2>6. Adopted'
    BY <1>8 DEF HandleAccent, modelVars, loadVars, Ownership, Adopted
  <2> QED BY <2>1, <2>2, <2>3, <2>4, <2>5, <2>6 DEF Ownership
<1>9. ASSUME ~exiting, LoadTrack, UNCHANGED <<exiting, running, inbox>> PROVE Ownership'
  <2> DEFINE g == loadGeneration + 1
  <2>0. /\ g \in Gens /\ task[g] = "idle" /\ player[g] = "none" /\ ~canceled[g] /\ ~owned[g]
        /\ audioPlayer # g /\ pendingLoad # g
        /\ task' = [task EXCEPT ![g] = "queued"] /\ pendingLoad' = g
    <3>1. g \in Gens /\ g > loadGeneration
      BY <1>9, ConstantsAssumption DEF LoadTrack, TypeOfModel, Gens
    <3>2. task[g] = "idle" /\ player[g] = "none" /\ ~canceled[g]
      BY <3>1 DEF Ownership, Fresh, Stage
    <3>3. ~owned[g] /\ audioPlayer # g
      BY <3>1, <3>2 DEF Ownership, Waiting, Adopted
    <3>4. pendingLoad # g
      BY <3>1, ConstantsAssumption DEF Ownership, Newest, TypeOfModel, Gens
    <3>5. task' = [task EXCEPT ![g] = "queued"] /\ pendingLoad' = g
      BY <1>9 DEF LoadTrack
    <3> QED BY <3>1, <3>2, <3>3, <3>4, <3>5
  <2>1. Fresh'
    BY <1>9, ConstantsAssumption DEF LoadTrack, Cancel, Ownership, Fresh, Newest, TypeOfModel
  <2>2. Stage'
    <3>1. player'[g] = "none" /\ task'[g] = "queued"
      BY <1>9, <2>0 DEF LoadTrack, Closed, OwnedBy, Active, TypeOfModel
    <3>2. \A h \in Gens : h # g =>
                               /\ task'[h] = task[h]
                               /\ player'[h] = player[h] \/ (player'[h] = "closed" /\ task[h] = "done")
      <4>1. PICK S : player' = Closed(player, S) /\ S \subseteq OwnedBy(pendingLoad) \cup Active
        BY <1>9 DEF LoadTrack
      <4>2. \A h \in S : task[h] = "done"
        BY <4>1 DEF OwnedBy, Active, Ownership, Waiting, Adopted
      <4>3. \A h \in Gens : h # g => task'[h] = task[h]
        BY <2>0 DEF TypeOfModel
      <4> QED BY <4>1, <4>2, <4>3 DEF Closed
    <3> QED BY <3>1, <3>2, <2>0 DEF Ownership, Stage
  <2>3. Posted'
    BY <1>9 DEF LoadTrack, Cancel, Disown, Ownership, Fresh, Posted, TypeOfModel
  <2>4. Waiting'
    BY <1>9 DEF LoadTrack, Disown, Ownership, Waiting, Newest
  <2>5. Newest'
    <3>1. \A h \in Gens : canceled'[h] <=> canceled[h] \/ h = pendingLoad
      BY <1>9 DEF LoadTrack, Cancel
    <3>2. pendingLoad' = loadGeneration' /\ ~exiting'
      BY <1>9 DEF LoadTrack
    <3>3. \A h \in Gens : h # g => task'[h] = task[h]
      BY <2>0 DEF TypeOfModel
    <3>4. task'[g] = "queued"
      BY <2>0 DEF TypeOfModel
    <3> QED BY <2>0, <3>1, <3>2, <3>3, <3>4 DEF Ownership, Newest
  <2>6. Adopted'
    BY <1>9, ConstantsAssumption DEF LoadTrack, Cancel, Disown, Closed, OwnedBy, Active,
       Ownership, Fresh, Newest, Adopted, Heard, TypeOfModel
  <2> QED BY <2>1, <2>2, <2>3, <2>4, <2>5, <2>6 DEF Ownership
<1>10. CASE SetPlaying
  <2>1. Fresh'
    BY <1>10 DEF SetPlaying, modelVars, Ownership, Fresh
  <2>2. Stage'
    BY <1>10 DEF SetPlaying, Ownership, Stage, Adopted
  <2>3. Posted'
    BY <1>10 DEF SetPlaying, loopVars, Ownership, Posted
  <2>4. Waiting'
    BY <1>10 DEF SetPlaying, loopVars, Ownership, Waiting, Adopted
  <2>5. Newest'
    BY <1>10 DEF SetPlaying, modelVars, Ownership, Newest
  <2>6. Adopted'
    BY <1>10 DEF SetPlaying, modelVars, Ownership, Adopted, Heard, TypeOfModel
  <2> QED BY <2>1, <2>2, <2>3, <2>4, <2>5, <2>6 DEF Ownership
<1>11. ASSUME Cleanup, UNCHANGED <<loadGeneration, activeGeneration, isPlaying, task, inbox>> PROVE Ownership'
  <2>1. Fresh'
    BY <1>11, ConstantsAssumption DEF Cleanup, Cancel, Ownership, Fresh, Newest
  <2>2. Stage'
    BY <1>11 DEF Cleanup, Closed, OwnedBy, Active, Ownership, Stage, Waiting, Adopted
  <2>3. Posted'
    BY <1>11 DEF Cleanup, Cancel, Disown, Ownership, Posted
  <2>4. Waiting'
    BY <1>11 DEF Cleanup, Disown, Ownership, Waiting, Newest
  <2>5. Newest'
    BY <1>11 DEF Cleanup, Cancel, Ownership, Newest
  <2>6. Adopted'
    BY <1>11, ConstantsAssumption DEF Cleanup, Disown, Closed, OwnedBy, Active, Ownership,
       Adopted, Heard
  <2> QED BY <2>1, <2>2, <2>3, <2>4, <2>5, <2>6 DEF Ownership
<1>12. ASSUME UNCHANGED <<modelVars, audioVars, loadVars, inbox>> PROVE Ownership'
  BY <1>12 DEF Ownership, Fresh, Stage, Posted, Waiting, Newest, Adopted, modelVars, audioVars,
     loadVars
<1>13. CASE UserOpen
  BY <1>13, <1>9 DEF UserOpen, loopVars
<1>14. CASE HandleOpen
  BY <1>14, <1>9 DEF HandleOpen, loopVars
<1>15. CASE UserQuit \/ HostClose \/ HandleQuit
  BY <1>15, <1>11 DEF UserQuit, HostClose, HandleQuit, loopVars
<1>16. CASE LoopEnds
  BY <1>16, <1>12 DEF LoopEnds
<1>17. CASE \/ Connect \/ Drop \/ ReportDrop \/ (\E r \in Request : GuiRequest(r))
            \/ HandleConnected \/ HandleDisconnected \/ RefuseRequest
  BY <1>17, <1>12 DEF Connect, Drop, ReportDrop, GuiRequest, HandleConnected,
     HandleDisconnected,
                      RefuseRequest, otherVars, loopVars
<1>18. CASE UNCHANGED vars
  BY <1>18, <1>12 DEF vars, loopVars
<1> QED BY <1>1, <1>2, <1>3, <1>4, <1>5, <1>6, <1>7, <1>8, <1>10, <1>13, <1>14, <1>15, <1>16,
           <1>17, <1>18
        DEF Next, Task, HandleLoadMessage, HandleEvent

LEMMA OwnershipInit == Init => Ownership
<1> SUFFICES ASSUME Init PROVE Ownership
  OBVIOUS
<1>1. TypeOfModel
  BY InitType
<1>2. \A g \in Gens : /\ task[g] = (IF g = 0 /\ HasPath THEN "queued" ELSE "idle")
                      /\ ~canceled[g] /\ ~owned[g] /\ player[g] = "none"
  BY DEF Init
<1>3. loadGeneration = 0 /\ audioPlayer = Nil /\ inbox = {} /\ ~exiting
      /\ pendingLoad = (IF HasPath THEN 0 ELSE Nil)
  BY DEF Init
<1>4. Fresh /\ Stage /\ Posted /\ Waiting
  BY <1>2, <1>3, ConstantsAssumption DEF Fresh, Stage, Posted, Waiting, Gens
<1>5. Newest /\ Adopted
  BY <1>2, <1>3, ConstantsAssumption DEF Newest, Adopted, Heard, Gens
<1> QED BY <1>4, <1>5 DEF Ownership

LEMMA OwnershipHolds == Spec => [](TypeOfModel /\ Ownership)
<1>1. Init => TypeOfModel /\ TypeOfLink /\ Ownership
  BY InitType, OwnershipInit
<1>2. TypeOfModel /\ TypeOfLink /\ Ownership /\ [Next]_vars => (TypeOfModel /\ TypeOfLink /\ Ownership)'
  BY ModelTypeStep, LinkTypeStep, OwnershipStep
<1> QED BY <1>1, <1>2, PTL DEF Spec

\* Every open player has one owner, whatever loads race, fail and are given up.
THEOREM PlayersOwned == Spec => []PlayerOwned
<1>1. TypeOfModel /\ Ownership => PlayerOwned
  <2> SUFFICES ASSUME TypeOfModel, Ownership, NEW g \in Gens
               PROVE  /\ player[g] \in Live <=> task[g] = "opened" \/ owned[g] \/ audioPlayer = g
                      /\ ~(owned[g] /\ task[g] = "opened")
                      /\ audioPlayer = g => ~owned[g] /\ task[g] # "opened"
    BY DEF PlayerOwned
  <2>1. task[g] = "opened" => player[g] = "ready"
    BY DEF Ownership, Stage
  <2>2. owned[g] => player[g] = "ready" /\ task[g] = "done"
    BY DEF Ownership, Waiting
  <2>3. audioPlayer = g => player[g] \in Heard /\ task[g] = "done"
    BY DEF Ownership, Adopted
  <2>4. player[g] \in Live => player[g] \in Heard \/ player[g] = "ready"
    BY DEF Live, Heard
  <2>5. /\ player[g] \in Heard => audioPlayer = g
        /\ player[g] = "ready" => task[g] = "opened" \/ owned[g]
    BY DEF Ownership, Adopted
  <2> QED BY <2>1, <2>2, <2>3, <2>4, <2>5 DEF Live, Heard
<1> QED BY <1>1, OwnershipHolds, PTL

\* No two tracks are heard at once, and the play button tells the truth.
THEOREM OneVoiceHeard == Spec => []OneVoice
<1>1. Ownership => OneVoice
  BY DEF Ownership, Adopted, Heard, OneVoice
<1> QED BY <1>1, OwnershipHolds, PTL

LEMMA NamingStep ==
  ASSUME TypeOfModel, TypeOfModel', Ownership, Ownership', Naming, [Next]_vars PROVE Naming'
<1>1. ASSUME NEW g \in Gens, StartTask(g) PROVE Naming'
  BY <1>1 DEF StartTask, modelVars, audioVars, loopVars, Naming
<1>2. ASSUME NEW g \in Gens, OpenDecoder(g) PROVE Naming'
  BY <1>2 DEF OpenDecoder, modelVars, audioVars, loopVars, Naming
<1>3. ASSUME NEW g \in Gens, Deliver(g) PROVE Naming'
  BY <1>3 DEF Deliver, modelVars, audioVars, Naming
<1>4. ASSUME NEW g \in Gens, DiscardLoaded(g) PROVE Naming'
  BY <1>4 DEF DiscardLoaded, modelVars, audioVars, Naming
<1>5. ASSUME NEW g \in Gens, AcceptLoaded(g) PROVE Naming'
  BY <1>5 DEF AcceptLoaded, Naming
<1>6. ASSUME NEW g \in Gens, PlayFails(g) PROVE Naming'
  BY <1>6 DEF PlayFails, Naming
<1>7. ASSUME NEW g \in Gens, HandleLoadFailed(g) PROVE Naming'
  BY <1>7 DEF HandleLoadFailed, audioVars, Naming
<1>8. ASSUME NEW g \in Gens, HandleAccent(g) PROVE Naming'
  BY <1>8 DEF HandleAccent, AccentCurrent, modelVars, Naming
<1>9. ASSUME LoadTrack, UNCHANGED <<exiting, running, inbox, sought>> PROVE Naming'
  BY <1>9 DEF LoadTrack, Naming, Ownership, Posted, TypeOfModel
<1>10. CASE SetPlaying
  BY <1>10 DEF SetPlaying, modelVars, loopVars, Naming
<1>11. ASSUME Cleanup, UNCHANGED <<loadGeneration, activeGeneration, loading, pendingSeek, accent, task, inbox, sought>> PROVE Naming'
  BY <1>11 DEF Cleanup, Naming
<1>12. ASSUME UNCHANGED <<modelVars, audioVars, loadVars, inbox, sought>> PROVE Naming'
  BY <1>12 DEF Naming, modelVars, audioVars, loadVars
<1>13. CASE UserOpen \/ HandleOpen
  BY <1>13, <1>9 DEF UserOpen, HandleOpen, loopVars
<1>14. CASE UserQuit \/ HostClose \/ HandleQuit
  BY <1>14, <1>11 DEF UserQuit, HostClose, HandleQuit, loopVars
<1>15. CASE \/ LoopEnds \/ Connect \/ Drop \/ ReportDrop \/ (\E r \in Request : GuiRequest(r))
            \/ HandleConnected \/ HandleDisconnected \/ RefuseRequest \/ UNCHANGED vars
  BY <1>15, <1>12 DEF LoopEnds, Connect, Drop, ReportDrop, GuiRequest, HandleConnected,
     HandleDisconnected,
                      RefuseRequest, otherVars, loopVars, vars
<1> QED BY <1>1, <1>2, <1>3, <1>4, <1>5, <1>6, <1>7, <1>8, <1>10, <1>13, <1>14, <1>15
        DEF Next, Task, HandleLoadMessage, HandleEvent

\* The accent and everything else tagged with activeGeneration are about the active track.
THEOREM NamesRight == Spec => []GenerationNamesTrack
<1>1. Init => TypeOfModel /\ TypeOfLink /\ Ownership /\ Naming
  BY InitType, OwnershipInit DEF Init, Naming
<1>2. TypeOfModel /\ TypeOfLink /\ Ownership /\ Naming /\ [Next]_vars
        => (TypeOfModel /\ TypeOfLink /\ Ownership /\ Naming)'
  BY ModelTypeStep, LinkTypeStep, OwnershipStep, NamingStep
<1>3. TypeOfModel /\ Ownership /\ Naming => GenerationNamesTrack
  BY DEF TypeOfModel, Ownership, Adopted, Naming, GenerationNamesTrack
<1> QED BY <1>1, <1>2, <1>3, PTL DEF Spec

LEMMA SeekingStep ==
  ASSUME TypeOfModel, Seeking, SeekInitialOnly, [Next]_vars PROVE (Seeking /\ SeekInitialOnly)'
<1>1. ASSUME NEW g \in Gens, AcceptLoaded(g) PROVE (Seeking /\ SeekInitialOnly)'
  BY <1>1 DEF AcceptLoaded, Take, Stale, ForgetSeek, Seeking, SeekInitialOnly
<1>2. CASE UserOpen \/ HandleOpen
  BY <1>2 DEF UserOpen, HandleOpen, LoadTrack, ForgetSeek, Seeking, SeekInitialOnly
<1>3. ASSUME UNCHANGED <<loadGeneration, pendingSeek, sought>> PROVE (Seeking /\ SeekInitialOnly)'
  BY <1>3 DEF Seeking, SeekInitialOnly
<1>4. ASSUME NEW g \in Gens, Task(g) \/ DiscardLoaded(g) \/ PlayFails(g) \/ HandleLoadFailed(g) \/ HandleAccent(g)
      PROVE  UNCHANGED <<loadGeneration, pendingSeek, sought>>
  BY <1>4 DEF Task, StartTask, OpenDecoder, Deliver, DiscardLoaded, PlayFails, HandleLoadFailed,
     HandleAccent,
              modelVars
<1>5. CASE SetPlaying \/ UserQuit \/ LoopEnds \/ HostClose \/ HandleQuit
  BY <1>5, <1>3 DEF SetPlaying, UserQuit, LoopEnds, HostClose, HandleQuit, modelVars
<1>6. CASE \/ Connect \/ Drop \/ ReportDrop \/ (\E r \in Request : GuiRequest(r))
           \/ HandleConnected \/ HandleDisconnected \/ RefuseRequest \/ UNCHANGED vars
  BY <1>6, <1>3 DEF Connect, Drop, ReportDrop, GuiRequest, HandleConnected, HandleDisconnected,
                    RefuseRequest, otherVars, modelVars, vars
<1> QED BY <1>1, <1>2, <1>3, <1>4, <1>5, <1>6 DEF Next, HandleLoadMessage, HandleEvent

\* --seek never moves a track opened later, even when the file of the command line fails.
THEOREM SeekOnce == Spec => []SeekInitialOnly
<1>1. Init => TypeOfModel /\ TypeOfLink /\ Seeking /\ SeekInitialOnly
  BY InitType DEF Init, Seeking, SeekInitialOnly
<1>2. TypeOfModel /\ TypeOfLink /\ Seeking /\ SeekInitialOnly /\ [Next]_vars
        => (TypeOfModel /\ TypeOfLink /\ Seeking /\ SeekInitialOnly)'
  BY ModelTypeStep, LinkTypeStep, SeekingStep
<1> QED BY <1>1, <1>2, PTL DEF Spec

Sent(box, g) == [kind |-> "loaded", gen |-> g] \in box \/ [kind |-> "failed", gen |-> g] \in box
Working == {"queued", "opening", "opened", "failed"}

\* The messages that matter to a load are its result, of one kind or the other.
LEMMA ResultOf ==
  ASSUME NEW box \in SUBSET Message, NEW g \in Gens
  PROVE  (\E m \in box : m.gen = g /\ m.kind # "accent") <=> Sent(box, g)
BY DEF Message, Sent

LEMMA ProgressStep ==
  ASSUME TypeOfModel, TypeOfModel', Ownership, Ownership', Progress, [Next]_vars PROVE Progress'
<1>u. Unfinished(loadGeneration) <=> task[loadGeneration] \in Working \/ Sent(inbox, loadGeneration)
  BY ResultOf DEF Unfinished, Working, TypeOfModel
<1>v. Unfinished(loadGeneration)' <=> task'[loadGeneration'] \in Working \/ Sent(inbox', loadGeneration')
  BY ResultOf DEF Unfinished, Working, TypeOfModel
<1>1. ASSUME NEW g \in Gens, StartTask(g) PROVE Progress'
  BY <1>1, <1>u, <1>v DEF StartTask, modelVars, loopVars, Progress, Working, Ownership, Newest,
     TypeOfModel
<1>2. ASSUME NEW g \in Gens, OpenDecoder(g) PROVE Progress'
  BY <1>2, <1>u, <1>v DEF OpenDecoder, modelVars, loopVars, Progress, Working
<1>3. ASSUME NEW g \in Gens, Deliver(g) PROVE Progress'
  BY <1>3, <1>u, <1>v DEF Deliver, modelVars, Progress, Sent, Working, Ownership, Newest, Posted
<1>4. ASSUME NEW g \in Gens, DiscardLoaded(g) PROVE Progress'
  BY <1>4, <1>u, <1>v DEF DiscardLoaded, Cancel, modelVars, Progress, Sent, Working, Ownership,
     Newest, Posted
<1>5. ASSUME NEW g \in Gens, AcceptLoaded(g) PROVE Progress'
  BY <1>5, <1>v DEF AcceptLoaded, Take, Stale, FinishLoad, Progress, Sent, Working, Ownership,
     Posted
<1>6. ASSUME NEW g \in Gens, PlayFails(g) PROVE Progress'
  BY <1>6, <1>v DEF PlayFails, Take, Stale, FinishLoad, Progress, Sent, Working, Ownership,
     Posted
<1>7. ASSUME NEW g \in Gens, HandleLoadFailed(g) PROVE Progress'
  BY <1>7, <1>u, <1>v DEF HandleLoadFailed, Stale, FinishLoad, Progress, Sent, Working,
     Ownership, Posted
<1>8. ASSUME NEW g \in Gens, HandleAccent(g) PROVE Progress'
  BY <1>8, <1>u, <1>v DEF HandleAccent, modelVars, loadVars, Progress, Sent
<1>9. ASSUME LoadTrack, UNCHANGED <<exiting, running, inbox, sought>> PROVE Progress'
  <2>1. /\ loadGeneration' \in Gens /\ pendingLoad' = loadGeneration'
        /\ loading' = TRUE /\ task'[loadGeneration'] = "queued"
    BY <1>9, ConstantsAssumption DEF LoadTrack, TypeOfModel, Gens
  <2>2. pendingLoad' # Nil
    BY <2>1, ConstantsAssumption
  <2> QED BY <1>9, <1>v, <2>1, <2>2 DEF Progress, Working
<1>10. CASE SetPlaying
  BY <1>10, <1>u, <1>v DEF SetPlaying, modelVars, loopVars, Progress
<1>11. ASSUME Cleanup, UNCHANGED <<loadGeneration, activeGeneration, loading, pendingSeek, accent, task, inbox, sought>> PROVE Progress'
  BY <1>11 DEF Cleanup, Progress
<1>12. ASSUME UNCHANGED <<modelVars, audioVars, loadVars, inbox, sought>> PROVE Progress'
  BY <1>12 DEF Progress, Unfinished, modelVars, audioVars, loadVars
<1>13. CASE UserOpen \/ HandleOpen
  BY <1>13, <1>9 DEF UserOpen, HandleOpen, loopVars
<1>14. CASE UserQuit \/ HostClose \/ HandleQuit
  BY <1>14, <1>11 DEF UserQuit, HostClose, HandleQuit, loopVars
<1>15. CASE \/ LoopEnds \/ Connect \/ Drop \/ ReportDrop \/ (\E r \in Request : GuiRequest(r))
            \/ HandleConnected \/ HandleDisconnected \/ RefuseRequest \/ UNCHANGED vars
  BY <1>15, <1>12 DEF LoopEnds, Connect, Drop, ReportDrop, GuiRequest, HandleConnected,
     HandleDisconnected,
                      RefuseRequest, otherVars, loopVars, vars
<1> QED BY <1>1, <1>2, <1>3, <1>4, <1>5, <1>6, <1>7, <1>8, <1>10, <1>13, <1>14, <1>15
        DEF Next, Task, HandleLoadMessage, HandleEvent

\* The spinner is shown exactly while the newest load is on its way.
THEOREM LoadingHonest == Spec => []LoadingIsNewest
<1>1. Init => TypeOfModel /\ TypeOfLink /\ Ownership /\ Progress
  <2>1. Init => Progress
    BY ConstantsAssumption DEF Init, Progress, Unfinished, Gens
  <2> QED BY <2>1, InitType, OwnershipInit
<1>2. TypeOfModel /\ TypeOfLink /\ Ownership /\ Progress /\ [Next]_vars
        => (TypeOfModel /\ TypeOfLink /\ Ownership /\ Progress)'
  BY ModelTypeStep, LinkTypeStep, OwnershipStep, ProgressStep
<1>3. Ownership /\ Progress => LoadingIsNewest
  BY DEF Ownership, Newest, Progress, LoadingIsNewest
<1> QED BY <1>1, <1>2, <1>3, PTL DEF Spec

-----------------------------------------------------------------------------
(* TrackLoad implements PlayerLifetime.                                    *)

\* A step that closes open players and touches no other is an abstract Close.
LEMMA CloseStep ==
  ASSUME NEW S \in SUBSET Gens,
         \A g \in S : life[g] \in {"prepared", "active"} /\ life'[g] = "closed",
         \A g \in Gens \ S : life'[g] = life[g]
  PROVE  Lifetime!Next
<1>1. life' = [g \in Gens |-> IF g \in S THEN "closed" ELSE life[g]]
  <2>1. life' = [g \in Gens |-> life'[g]]
    BY DEF life
  <2> QED BY <2>1
<1> QED BY <1>1 DEF Lifetime!Next, Lifetime!Close

LEMMA LifeStep ==
  ASSUME TypeOfModel, TypeOfModel', Ownership, Ownership', [Next]_vars
  PROVE  [Lifetime!Next]_life
<1> DEFINE Lives(pl, a, g) == IF a = g THEN "active"
                              ELSE IF pl[g] \in Live \cup {"opening"} THEN "prepared" ELSE pl[g]
<1>a. \A g \in Gens : life[g] = Lives(player, audioPlayer, g)
  BY DEF life
<1>b. \A g \in Gens : life'[g] = Lives(player', audioPlayer', g)
  BY DEF life
<1>c. life = [g \in Gens |-> life[g]] /\ life' = [g \in Gens |-> life'[g]]
  BY DEF life
<1>d. ASSUME UNCHANGED <<player, audioPlayer>> PROVE UNCHANGED life
  BY <1>d DEF life
<1>1. ASSUME NEW g \in Gens, StartTask(g) PROVE [Lifetime!Next]_life
  <2>1. CASE canceled[g]
    BY <1>1, <1>d, <2>1 DEF StartTask, audioVars
  <2>2. CASE ~canceled[g]
    <3>1. life[g] = "none" /\ audioPlayer # g
      BY <1>1, <1>a DEF StartTask, Ownership, Stage, Adopted, Live
    <3>2. life'[g] = "prepared" /\ \A h \in Gens : h # g => life'[h] = life[h]
      BY <1>1, <1>a, <1>b, <2>2, <3>1 DEF StartTask, audioVars, TypeOfModel
    <3>3. life' = [life EXCEPT ![g] = "prepared"]
      BY <1>c, <3>2
    <3> QED BY <3>1, <3>3 DEF Lifetime!Next, Lifetime!Prepare
  <2> QED BY <2>1, <2>2
<1>2. ASSUME NEW g \in Gens, OpenDecoder(g) PROVE [Lifetime!Next]_life
  <2>1. life[g] = "prepared" /\ audioPlayer # g
    BY <1>2, <1>a DEF OpenDecoder, Ownership, Stage, Adopted
  <2>2. /\ life'[g] \in {"prepared", "closed"}
        /\ \A h \in Gens : h # g => life'[h] = life[h]
    BY <1>2, <1>a, <1>b, <2>1 DEF OpenDecoder, audioVars, TypeOfModel, Live
  <2>3. CASE life'[g] = "closed"
    BY <2>1, <2>2, <2>3, CloseStep, {g} \in SUBSET Gens
  <2>4. CASE life'[g] = "prepared"
    BY <1>c, <2>1, <2>2, <2>4
  <2> QED BY <2>2, <2>3, <2>4
<1>3. ASSUME NEW g \in Gens, Deliver(g) PROVE [Lifetime!Next]_life
  <2>1. CASE canceled[g] /\ task[g] = "opened"
    <3>1. life[g] = "prepared" /\ audioPlayer # g
      BY <1>a, <2>1 DEF Ownership, Stage, Adopted, Live
    <3>2. life'[g] = "closed" /\ \A h \in Gens : h # g => life'[h] = life[h]
      BY <1>3, <1>a, <1>b, <2>1, <3>1 DEF Deliver, Closed, audioVars, TypeOfModel, Live
    <3> QED BY <3>1, <3>2, CloseStep, {g} \in SUBSET Gens
  <2>2. CASE ~(canceled[g] /\ task[g] = "opened")
    <3>1. \A h \in Gens : player'[h] = player[h]
      BY <1>3, <2>2 DEF Deliver, Closed, Ownership, Stage
    <3>2. UNCHANGED life
      BY <1>3, <1>a, <1>b, <1>c, <3>1 DEF Deliver, audioVars
    <3> QED BY <3>2
  <2> QED BY <2>1, <2>2
<1>4. ASSUME NEW g \in Gens, DiscardLoaded(g) PROVE [Lifetime!Next]_life
  <2>1. \A h \in OwnedBy(g) : life[h] = "prepared" /\ audioPlayer # h
    BY <1>a DEF OwnedBy, Ownership, Waiting, Adopted, Heard, Live
  <2>2. /\ \A h \in OwnedBy(g) : life'[h] = "closed"
        /\ \A h \in Gens \ OwnedBy(g) : life'[h] = life[h]
    BY <1>4, <1>a, <1>b, <2>1 DEF DiscardLoaded, OwnedBy, Closed, audioVars, Live
  <2> QED BY <2>1, <2>2, CloseStep DEF OwnedBy
<1>5. ASSUME NEW g \in Gens, AcceptLoaded(g) PROVE [Lifetime!Next]_life
  <2>1. owned[g] /\ pendingLoad = g /\ loadGeneration = g
    BY <1>5 DEF AcceptLoaded, Take, Stale, Ownership, Posted, Waiting, Newest
  <2>2. life[g] = "prepared" /\ audioPlayer # g
    BY <1>a, <2>1 DEF Ownership, Waiting, Adopted, Heard, Live
  <2>3. \A u \in Gens : life[u] = "active" => u < g
    <3>1. \A u \in Gens : life[u] = "active" => u = audioPlayer
      BY <1>a DEF TypeOfModel, PlayerState, Live
    <3>2. \A u \in Gens : u = audioPlayer => u < g
      BY <2>1, <2>2 DEF Ownership, Adopted, Fresh, Gens, TypeOfModel
    <3> QED BY <3>1, <3>2
  <2>4. \A u \in Gens : life[u] = "active" <=> u = audioPlayer
    BY <1>a DEF TypeOfModel, PlayerState, Live
  <2>5. audioPlayer' = g
    BY <1>5 DEF AcceptLoaded
  <2>6. \A u \in Gens : player'[u] = IF u = g THEN "playing"
                                     ELSE IF u = audioPlayer THEN "closed" ELSE player[u]
    BY <1>5, <2>1 DEF AcceptLoaded, Closed, Active, OwnedBy
  <2>7. \A u \in Gens : life'[u] = IF u = g THEN "active"
                                   ELSE IF life[u] = "active" THEN "closed" ELSE life[u]
    BY <1>a, <1>b, <2>4, <2>5, <2>6 DEF Live
  <2>8. Lifetime!Adopt(g)
    BY <1>c, <2>2, <2>3, <2>7 DEF Lifetime!Adopt
  <2> QED BY <2>8 DEF Lifetime!Next
<1>6. ASSUME NEW g \in Gens, PlayFails(g) PROVE [Lifetime!Next]_life
  <2>1. owned[g] /\ pendingLoad = g
    BY <1>6 DEF PlayFails, Take, Ownership, Posted, Waiting, Newest
  <2>2. life[g] = "prepared" /\ audioPlayer # g
    BY <1>a, <2>1 DEF Ownership, Waiting, Adopted, Heard, Live
  <2>3. /\ audioPlayer' = audioPlayer /\ player'[g] = "closed"
        /\ \A h \in Gens : h # g => \/ player'[h] = player[h]
                                   \/ h = audioPlayer
    BY <1>6, <2>1 DEF PlayFails, OwnedBy, Active
  <2>4. life'[g] = "closed" /\ \A h \in Gens : h # g => life'[h] = life[h]
    BY <1>a, <1>b, <2>2, <2>3 DEF Live
  <2> QED BY <2>2, <2>4, CloseStep, {g} \in SUBSET Gens
<1>7. ASSUME NEW g \in Gens, HandleLoadFailed(g) PROVE [Lifetime!Next]_life
  <2>1. CASE Stale(g)
    BY <1>7, <1>d, <2>1 DEF HandleLoadFailed, audioVars
  <2>2. CASE ~Stale(g)
    <3>1. \A h \in OwnedBy(pendingLoad) : life[h] = "prepared" /\ audioPlayer # h
      BY <1>a DEF OwnedBy, Ownership, Waiting, Adopted, Heard, Live
    <3>2. /\ \A h \in OwnedBy(pendingLoad) : life'[h] = "closed"
          /\ \A h \in Gens \ OwnedBy(pendingLoad) : life'[h] = life[h]
      BY <1>7, <1>a, <1>b, <2>2, <3>1 DEF HandleLoadFailed, OwnedBy, Closed, audioVars, Live
    <3> QED BY <3>1, <3>2, CloseStep DEF OwnedBy
  <2> QED BY <2>1, <2>2
<1>8. ASSUME LoadTrack PROVE [Lifetime!Next]_life
  <2> DEFINE dropped == IF SwitchNow THEN Active ELSE {}
             S == OwnedBy(pendingLoad) \cup dropped
  <2>1. S \in SUBSET Gens
    BY DEF OwnedBy, Active
  <2>2. \A h \in S : life[h] \in {"prepared", "active"}
    BY <1>a DEF OwnedBy, Active, Ownership, Waiting, Live
  <2>3. player' = Closed(player, S)
    BY <1>8 DEF LoadTrack
  <2>4. \A h \in S : audioPlayer' # h
    <3>1. \A h \in OwnedBy(pendingLoad) : audioPlayer # h
      BY DEF OwnedBy, Ownership, Waiting, Adopted
    <3>2. CASE SwitchNow
      BY <1>8, <2>1, <3>2, ConstantsAssumption DEF LoadTrack
    <3>3. CASE ~SwitchNow
      BY <1>8, <3>1, <3>3 DEF LoadTrack
    <3> QED BY <3>2, <3>3
  <2>5. \A h \in Gens \ S : audioPlayer' = h <=> audioPlayer = h
    BY <1>8, ConstantsAssumption DEF LoadTrack, Active
  <2>6. /\ \A h \in S : life'[h] = "closed"
        /\ \A h \in Gens \ S : life'[h] = life[h]
    BY <1>a, <1>b, <2>1, <2>3, <2>4, <2>5 DEF Closed, Live
  <2> HIDE DEF S
  <2> QED BY <2>1, <2>2, <2>6, CloseStep
<1>9. ASSUME Cleanup PROVE [Lifetime!Next]_life
  <2> DEFINE S == OwnedBy(pendingLoad) \cup Active
  <2>1. S \in SUBSET Gens
    BY DEF OwnedBy, Active
  <2>2. \A h \in S : life[h] \in {"prepared", "active"}
    BY <1>a DEF OwnedBy, Active, Ownership, Waiting, Live
  <2>3. player' = Closed(player, S) /\ audioPlayer' = Nil
    BY <1>9 DEF Cleanup
  <2>4. \A h \in Gens \ S : audioPlayer # h
    BY DEF Active
  <2>5. /\ \A h \in S : life'[h] = "closed"
        /\ \A h \in Gens \ S : life'[h] = life[h]
    BY <1>a, <1>b, <2>1, <2>3, <2>4, ConstantsAssumption DEF Closed, Live
  <2> HIDE DEF S
  <2> QED BY <2>1, <2>2, <2>5, CloseStep
<1>10. CASE SetPlaying
  <2>1. /\ UNCHANGED audioPlayer
        /\ \A h \in Gens : h # audioPlayer => player'[h] = player[h]
    BY <1>10 DEF SetPlaying, TypeOfModel
  <2>2. \A h \in Gens : life'[h] = life[h]
    BY <1>a, <1>b, <2>1
  <2> QED BY <1>c, <2>2
<1>11. ASSUME NEW g \in Gens, HandleAccent(g) PROVE [Lifetime!Next]_life
  BY <1>11, <1>d DEF HandleAccent, loadVars
<1>12. CASE UserOpen \/ HandleOpen
  BY <1>12, <1>8 DEF UserOpen, HandleOpen
<1>13. CASE UserQuit \/ HostClose \/ HandleQuit
  BY <1>13, <1>9 DEF UserQuit, HostClose, HandleQuit
<1>14. CASE \/ LoopEnds \/ Connect \/ Drop \/ ReportDrop \/ (\E r \in Request : GuiRequest(r))
            \/ HandleConnected \/ HandleDisconnected \/ RefuseRequest \/ UNCHANGED vars
  BY <1>14, <1>d DEF LoopEnds, Connect, Drop, ReportDrop, GuiRequest, HandleConnected,
     HandleDisconnected,
                     RefuseRequest, otherVars, audioVars, loadVars, vars
<1> QED BY <1>1, <1>2, <1>3, <1>4, <1>5, <1>6, <1>7, <1>10, <1>11, <1>12, <1>13, <1>14
        DEF Next, Task, HandleLoadMessage, HandleEvent

\* Seen from outside, the loader prepares, adopts and closes players as PlayerLifetime
\* says: each is active at most once, in order, and closed for good.
THEOREM ImplementsLifetime == Spec => LifetimeSafety
<1>1. Init => Lifetime!Init
  BY ConstantsAssumption DEF Init, Lifetime!Init, life, Live
<1>2. TypeOfModel /\ Ownership /\ (TypeOfModel /\ Ownership)' /\ [Next]_vars => [Lifetime!Next]_life
  BY LifeStep
<1>3. LifetimeSafety <=> Lifetime!Init /\ [][Lifetime!Next]_life
  BY DEF LifetimeSafety, Lifetime!SafeSpec
<1> QED BY <1>1, <1>2, <1>3, OwnershipHolds, PTL DEF Spec

\* In deferred mode the current track is only ever replaced by one that plays.
THEOREM DeferredKeeps == Spec => DeferredKeepsTrack
<1> DEFINE A == ~Immediate /\ audioPlayer # Nil /\ ~exiting' =>
                  /\ audioPlayer' # Nil
                  /\ audioPlayer' # audioPlayer => player'[audioPlayer'] = "playing"
<1>1. ASSUME TypeOfModel, TypeOfModel', [Next]_vars PROVE A \/ UNCHANGED vars
  <2>1. ASSUME UNCHANGED audioPlayer PROVE A
    BY <2>1
  <2>2. ASSUME NEW g \in Gens, AcceptLoaded(g) PROVE A
    BY <2>2, ConstantsAssumption DEF AcceptLoaded, Closed, TypeOfModel
  <2>3. CASE UserOpen \/ HandleOpen
    BY <2>3 DEF UserOpen, HandleOpen, LoadTrack, SwitchNow
  <2>4. CASE UserQuit \/ HostClose \/ HandleQuit
    BY <2>4 DEF UserQuit, HostClose, HandleQuit, Cleanup
  <2>5. ASSUME NEW g \in Gens, Task(g) \/ DiscardLoaded(g) \/ PlayFails(g) \/ HandleLoadFailed(g) \/ HandleAccent(g)
        PROVE  UNCHANGED audioPlayer
    BY <2>5 DEF Task, StartTask, OpenDecoder, Deliver, DiscardLoaded, PlayFails,
       HandleLoadFailed, HandleAccent,
                audioVars
  <2>6. CASE \/ SetPlaying \/ LoopEnds \/ Connect \/ Drop \/ ReportDrop \/ (\E r \in Request : GuiRequest(r))
             \/ HandleConnected \/ HandleDisconnected \/ RefuseRequest
    BY <2>6, <2>1 DEF SetPlaying, LoopEnds, Connect, Drop, ReportDrop, GuiRequest,
       HandleConnected,
                      HandleDisconnected, RefuseRequest, otherVars, audioVars
  <2> HIDE DEF A
  <2>7. ASSUME NEW g \in Gens, Task(g) \/ HandleLoadMessage(g) \/ HandleAccent(g) PROVE A
    BY <2>1, <2>2, <2>5, <2>7 DEF HandleLoadMessage
  <2> QED BY <1>1, <2>3, <2>4, <2>6, <2>7 DEF Next, HandleEvent
<1>2. DeferredKeepsTrack <=> [][A]_vars
  BY DEF DeferredKeepsTrack
<1>3. TypeOfModel /\ TypeOfModel' /\ [Next]_vars => [A]_vars
  BY <1>1
<1> HIDE DEF A
<1> QED BY <1>2, <1>3, OwnershipHolds, PTL DEF Spec

-----------------------------------------------------------------------------
(* The answers of an open request.  VerdictsHold speaks of what was answered *)
(* and not of what will be: that the one terminal result is about the right *)
(* track needs the request that is pending to be about the newest load, and *)
(* that what a result says of a load stays true.                           *)

\* A load that has had its turn: it was taken and played, or tried to.
Over(g) == canceled[g] /\ player[g] \in Heard \cup {"closed"}

\* A load that is not the active track and can no longer become it.
GivenUp(g) == audioPlayer # g /\ (canceled[g] \/ g < loadGeneration)

\* What a request that started load g has been answered by now.
Answer(a, g) ==
  IF g = Nil THEN Len(a) <= 1
  ELSE /\ g \in 0 .. loadGeneration
       /\ \/ a = <<"accepted">>
          \/ a = <<"accepted", "succeeded">> /\ Over(g)
          \/ a \in {<<"accepted", "failed">>, <<"accepted", "cancelled">>} /\ GivenUp(g)

Told == \A r \in Request : Answer(answers[r], openedAs[r])

\* A request that waits in the queue is there once, and has neither been answered nor opened.
Queued ==
  \A i \in 1 .. Len(incoming) :
    incoming[i].req # Nil =>
      /\ answers[incoming[i].req] = <<>> /\ openedAs[incoming[i].req] = Nil
      /\ \A j \in 1 .. Len(incoming) : incoming[j].req = incoming[i].req => j = i

\* The pending request is about the newest load, and waits for its terminal result.
Pending ==
  ipcPendingOpen # Nil =>
    /\ answers[ipcPendingOpen.id] = <<"accepted">>
    /\ openedAs[ipcPendingOpen.id] = loadGeneration
    /\ audioPlayer # loadGeneration

Verdicts == Told /\ Queued /\ Pending

\* The first answer of a request and the second.
LEMMA AnswersGrow ==
  ASSUME NEW s \in Status
  PROVE  /\ Append(<<>>, s) = <<s>> /\ Len(<<s>>) = 1
         /\ Append(<<"accepted">>, s) = <<"accepted", s>>
<1>1. Append(<<>>, s) = <<s>>
  OBVIOUS
<1>2. Len(<<s>>) = 1
  OBVIOUS
<1>3. Append(<<"accepted">>, s) = <<"accepted", s>>
  <2>1. <<"accepted">> \in Seq(Status) /\ Len(<<"accepted">>) = 1
    BY DEF Status
  <2>2. Append(<<"accepted">>, s) \in Seq(Status) /\ Len(Append(<<"accepted">>, s)) = 2
    BY <2>1
  <2>3. Append(<<"accepted">>, s)[1] = "accepted" /\ Append(<<"accepted">>, s)[2] = s
    BY <2>1
  <2>4. <<"accepted", s>> \in Seq(Status) /\ Len(<<"accepted", s>>) = 2
    BY DEF Status
  <2> DEFINE a == Append(<<"accepted">>, s)
             b == <<"accepted", s>>
  <2>5. b[1] = "accepted" /\ b[2] = s
    OBVIOUS
  <2>6. \A i \in 1 .. 2 : i = 1 \/ i = 2
    OBVIOUS
  <2> HIDE DEF a, b
  <2>7. a \in Seq(Status) /\ b \in Seq(Status) /\ Len(a) = 2 /\ Len(b) = 2
    BY <2>2, <2>4 DEF a, b
  <2>8. \A i \in 1 .. Len(a) : a[i] = b[i]
    BY <2>3, <2>5, <2>6, <2>7 DEF a
  <2>9. a = b
    BY <2>7, <2>8, SeqEqual
  <2> QED BY <2>9 DEF a, b
<1> QED BY <1>1, <1>2, <1>3



\* SendTo adds to the answers of the request it names and to no other, and does
\* add to them when the session of the request is the current one.
LEMMA ReplyEffect ==

  ASSUME NEW ans \in [Request -> Seq(Status)], NEW request \in OpenRequest \cup {Nil},
         NEW s \in Status, NEW r \in Request
  PROVE  /\ Reply(ans, request, s) \in [Request -> Seq(Status)]
         /\ request = Nil \/ request.id # r => Reply(ans, request, s)[r] = ans[r]
         /\ Reply(ans, request, s)[r] \in {ans[r], Append(ans[r], s)}
         /\ request # Nil /\ request.id = r /\ request.session = server
              => Reply(ans, request, s)[r] = Append(ans[r], s)
<1>1. Reply(ans, request, s) \in [Request -> Seq(Status)]
  BY ReplyType
<1>2. CASE request = Nil
  BY <1>1, <1>2 DEF Reply
<1>3. CASE request # Nil
  <2>1. request.id \in Request
    BY <1>3 DEF OpenRequest
  <2>2. CASE request.session = server
    BY <1>1, <1>3, <2>1, <2>2 DEF Reply
  <2>3. CASE request.session # server
    BY <1>1, <1>3, <2>1, <2>3 DEF Reply
  <2> QED BY <2>2, <2>3
<1> QED BY <1>2, <1>3

\* No step takes back a cancellation, reopens a player that had its turn, or makes
\* another load active than the newest, not canceled one.
OneWay ==
  /\ loadGeneration <= loadGeneration'
  /\ \A g \in Gens : canceled[g] => canceled'[g]
  /\ \A g \in Gens : player[g] \in Heard \cup {"closed"} => player'[g] \in Heard \cup {"closed"}
  /\ audioPlayer' \in {audioPlayer, Nil} \/ (audioPlayer' = loadGeneration /\ ~canceled[loadGeneration])

LEMMA OneWayStep ==
  ASSUME TypeOfModel, Ownership, [Next]_vars PROVE OneWay
<1>0. loadGeneration \in Nat
  BY ConstantsAssumption DEF TypeOfModel, Gens
<1>1. ASSUME NEW g \in Gens, StartTask(g) PROVE OneWay
  BY <1>0, <1>1 DEF StartTask, modelVars, audioVars, OneWay, Ownership, Stage, Heard, TypeOfModel
<1>2. ASSUME NEW g \in Gens, OpenDecoder(g) PROVE OneWay
  BY <1>0, <1>2 DEF OpenDecoder, modelVars, audioVars, OneWay, Ownership, Stage, Heard, TypeOfModel
<1>3. ASSUME NEW g \in Gens, Deliver(g) PROVE OneWay
  BY <1>0, <1>3 DEF Deliver, Closed, modelVars, audioVars, OneWay, TypeOfModel
<1>4. ASSUME NEW g \in Gens, DiscardLoaded(g) PROVE OneWay
  BY <1>0, <1>4 DEF DiscardLoaded, Cancel, Closed, modelVars, audioVars, OneWay, TypeOfModel
<1>5. ASSUME NEW g \in Gens, AcceptLoaded(g) PROVE OneWay
  <2>1. \A h \in Gens : player'[h] \in {player[h], "closed", "playing"}
    BY <1>5 DEF AcceptLoaded, Closed, TypeOfModel
  <2>2. loadGeneration' = loadGeneration /\ audioPlayer' = loadGeneration /\ ~canceled[loadGeneration]
    BY <1>5 DEF AcceptLoaded, Take, Stale
  <2>3. \A h \in Gens : canceled[h] => canceled'[h]
    BY <1>5 DEF AcceptLoaded, FinishLoad, Cancel
  <2> QED BY <1>0, <2>1, <2>2, <2>3 DEF OneWay, Heard
<1>6. ASSUME NEW g \in Gens, PlayFails(g) PROVE OneWay
  BY <1>0, <1>6 DEF PlayFails, FinishLoad, Cancel, OneWay, Heard, TypeOfModel
<1>7. ASSUME NEW g \in Gens, HandleLoadFailed(g) PROVE OneWay
  BY <1>0, <1>7 DEF HandleLoadFailed, FinishLoad, Cancel, Closed, audioVars, OneWay, TypeOfModel
<1>8. ASSUME NEW g \in Gens, HandleAccent(g) PROVE OneWay
  BY <1>0, <1>8 DEF HandleAccent, modelVars, loadVars, OneWay
<1>9. ASSUME LoadTrack PROVE OneWay
  <2>1. loadGeneration <= loadGeneration'
    BY <1>0, <1>9 DEF LoadTrack
  <2>2. \A h \in Gens : canceled[h] => canceled'[h]
    BY <1>9 DEF LoadTrack, Cancel
  <2>3. \A h \in Gens : player'[h] \in {player[h], "closed"}
    BY <1>9 DEF LoadTrack, Closed
  <2>4. audioPlayer' \in {audioPlayer, Nil}
    BY <1>9 DEF LoadTrack
  <2> QED BY <2>1, <2>2, <2>3, <2>4 DEF OneWay
<1>10. CASE SetPlaying
  BY <1>0, <1>10 DEF SetPlaying, modelVars, OneWay, Heard, TypeOfModel
<1>11. ASSUME Cleanup, UNCHANGED loadGeneration PROVE OneWay
  <2>1. loadGeneration <= loadGeneration'
    BY <1>0, <1>11
  <2>2. \A h \in Gens : canceled[h] => canceled'[h]
    BY <1>11 DEF Cleanup, Cancel
  <2>3. \A h \in Gens : player'[h] \in {player[h], "closed"}
    BY <1>11 DEF Cleanup, Closed
  <2>4. audioPlayer' = Nil
    BY <1>11 DEF Cleanup
  <2> QED BY <2>1, <2>2, <2>3, <2>4 DEF OneWay
<1>12. ASSUME UNCHANGED <<modelVars, audioVars, loadVars>> PROVE OneWay
  BY <1>0, <1>12 DEF modelVars, audioVars, loadVars, OneWay
<1>13. CASE UserOpen \/ HandleOpen
  BY <1>13, <1>9 DEF UserOpen, HandleOpen
<1>14. CASE UserQuit \/ HostClose \/ HandleQuit
  BY <1>14, <1>11 DEF UserQuit, HostClose, HandleQuit
<1>15. CASE \/ LoopEnds \/ Connect \/ Drop \/ ReportDrop \/ (\E r \in Request : GuiRequest(r))
            \/ HandleConnected \/ HandleDisconnected \/ RefuseRequest \/ UNCHANGED vars
  BY <1>15, <1>12 DEF LoopEnds, Connect, Drop, ReportDrop, GuiRequest, HandleConnected,
     HandleDisconnected, RefuseRequest, otherVars, vars
<1> QED BY <1>1, <1>2, <1>3, <1>4, <1>5, <1>6, <1>7, <1>8, <1>10, <1>13, <1>14, <1>15
        DEF Next, Task, HandleLoadMessage, HandleEvent

\* What a result has said of a load stays true.
LEMMA ResultsStay ==
  ASSUME TypeOfModel, TypeOfModel', Ownership, OneWay, NEW g \in Gens
  PROVE  (Over(g) => Over(g)') /\ (g <= loadGeneration /\ GivenUp(g) => GivenUp(g)')
<1>1. g \in Nat /\ loadGeneration \in Nat /\ loadGeneration' \in Nat /\ g # Nil
  BY ConstantsAssumption DEF TypeOfModel, Gens
<1>2. Over(g) => Over(g)'
  BY DEF OneWay, Over
<1>3. ASSUME g <= loadGeneration, GivenUp(g) PROVE GivenUp(g)'
  <2>1. canceled'[g] \/ g < loadGeneration'
    <3>1. CASE canceled[g]
      BY <3>1 DEF OneWay
    <3>2. CASE g < loadGeneration
      <4>1. loadGeneration <= loadGeneration'
        BY DEF OneWay
      <4> QED BY <1>1, <3>2, <4>1
    <3> QED BY <1>3, <3>1, <3>2 DEF GivenUp
  <2>2. audioPlayer' # g
    BY <1>1, <1>3 DEF OneWay, GivenUp
  <2> QED BY <2>1, <2>2 DEF GivenUp
<1> QED BY <1>2, <1>3

\* An answer that no step adds to stays good.
LEMMA AnswerStays ==
  ASSUME TypeOfModel, TypeOfModel', Ownership, OneWay, NEW a, NEW g \in Gens \cup {Nil}, Answer(a, g)
  PROVE  Answer(a, g)'
<1>1. CASE g = Nil
  BY <1>1 DEF Answer
<1>2. CASE g # Nil
  <2>1. g \in Gens /\ g \in 0 .. loadGeneration
    BY <1>2 DEF Answer
  <2>2. g <= loadGeneration /\ g \in 0 .. loadGeneration'
    <3> DEFINE l == loadGeneration
               m == loadGeneration'
    <3>1. l \in Nat /\ m \in Nat /\ l <= m
      BY ConstantsAssumption DEF TypeOfModel, Gens, OneWay
    <3>2. g \in 0 .. l
      BY <2>1
    <3> HIDE DEF l, m
    <3>3. g <= l /\ g \in 0 .. m
      BY <3>1, <3>2
    <3> QED BY <3>3 DEF l, m
  <2>3. (Over(g) => Over(g)') /\ (GivenUp(g) => GivenUp(g)')
    BY <2>1, <2>2, ResultsStay
  <2> QED BY <1>2, <2>2, <2>3 DEF Answer
<1> QED BY <1>1, <1>2

\* The terminal result of the pending request, and what is left of the others.
LEMMA FinishTold ==
  ASSUME TypeOfModel, TypeOfModel', TypeOfLink, TypeOfLink', Ownership, OneWay, Verdicts,
         NEW s \in Terminal, FinishOpen(s), openedAs' = openedAs,
         ipcPendingOpen # Nil =>
           IF s = "succeeded" THEN Over(loadGeneration)' /\ loadGeneration' = loadGeneration
           ELSE audioPlayer' # loadGeneration /\ (canceled'[loadGeneration] \/ loadGeneration < loadGeneration')
  PROVE  Told'
<1> SUFFICES ASSUME NEW r \in Request PROVE Answer(answers[r], openedAs[r])'
  BY DEF Told
<1>1. CASE answers'[r] = answers[r]
  <2> SUFFICES ASSUME NEW a, NEW g, a = answers[r], g = openedAs[r] PROVE Answer(a, g)'
    BY <1>1
  <2>1. Answer(a, g) /\ g \in Gens \cup {Nil}
    BY DEF Verdicts, Told, TypeOfLink
  <2> QED BY <2>1, AnswerStays
<1>2. CASE answers'[r] # answers[r]
  <2>1. /\ ipcPendingOpen # Nil /\ r = ipcPendingOpen.id /\ answers'[r] = Append(answers[r], s)
    <3>1. s \in Status /\ answers'[r] = Reply(answers, ipcPendingOpen, s)[r]
      BY DEF FinishOpen, Terminal, Status
    <3>2. answers \in [Request -> Seq(Status)] /\ ipcPendingOpen \in OpenRequest \cup {Nil}
      BY DEF TypeOfLink
    <3> QED BY <1>2, <3>1, <3>2, ReplyEffect
  <2>2. answers'[r] = <<"accepted", s>> /\ openedAs'[r] = loadGeneration
    <3>1. answers[r] = <<"accepted">> /\ openedAs[r] = loadGeneration
      BY <2>1 DEF Verdicts, Pending
    <3>2. Append(<<"accepted">>, s) = <<"accepted", s>>
      BY AnswersGrow DEF Terminal, Status

    <3> QED BY <2>1, <3>1, <3>2
  <2>3. loadGeneration \in Gens /\ loadGeneration # Nil /\ loadGeneration \in 0 .. loadGeneration'
    BY ConstantsAssumption DEF TypeOfModel, Gens, OneWay
  <2>4. CASE s = "succeeded"
    BY <2>1, <2>2, <2>3, <2>4 DEF Answer
  <2>5. CASE s # "succeeded"
    BY <2>1, <2>2, <2>3, <2>5 DEF Answer, GivenUp, Terminal
  <2> QED BY <2>4, <2>5
<1> QED BY <1>1, <1>2

\* The queue moves on, or not, and nobody who waits in it is answered.
LEMMA QueueKept ==
  ASSUME TypeOfLink, TypeOfLink', Queued,
         \/ incoming' = incoming
         \/ incoming # <<>> /\ incoming' = Tail(incoming),
         \A i \in 1 .. Len(incoming') : LET r == incoming'[i].req IN
           r # Nil => answers'[r] = answers[r] /\ openedAs'[r] = openedAs[r]
  PROVE  Queued'
<1>1. PICK k \in {0, 1} : /\ \A i \in 1 .. Len(incoming') : /\ i + k \in 1 .. Len(incoming)
                                                           /\ incoming'[i] = incoming[i + k]
  <2>1. CASE incoming' = incoming
    BY <2>1 DEF TypeOfLink
  <2>2. CASE incoming # <<>> /\ incoming' = Tail(incoming)
    <3>1. /\ Len(incoming') = Len(incoming) - 1
          /\ \A i \in 1 .. Len(incoming') : incoming'[i] = incoming[i + 1]
      BY <2>2, HeadTailProperties DEF TypeOfLink
    <3> DEFINE n == Len(incoming)
               m == Len(incoming')
    <3>2. n \in Nat /\ m = n - 1
      BY <3>1 DEF TypeOfLink
    <3> HIDE DEF n, m
    <3>3. \A i \in 1 .. m : i + 1 \in 1 .. n
      BY <3>2
    <3> USE DEF n, m
    <3> QED BY <3>1, <3>3
  <2> QED BY <2>1, <2>2
<1> SUFFICES ASSUME NEW i \in 1 .. Len(incoming'), incoming'[i].req # Nil
             PROVE  /\ answers'[incoming'[i].req] = <<>> /\ openedAs'[incoming'[i].req] = Nil
                    /\ \A j \in 1 .. Len(incoming') : incoming'[j].req = incoming'[i].req => j = i
  BY DEF Queued
<1>2. /\ answers'[incoming'[i].req] = <<>> /\ openedAs'[incoming'[i].req] = Nil
  BY <1>1 DEF Queued
<1>3. ASSUME NEW j \in 1 .. Len(incoming'), incoming'[j].req = incoming'[i].req PROVE j = i
  <2>1. j + k = i + k
    <3>1. /\ incoming[i + k].req # Nil /\ incoming[j + k].req = incoming[i + k].req
          /\ i + k \in 1 .. Len(incoming) /\ j + k \in 1 .. Len(incoming)
      BY <1>1, <1>3
    <3>2. \A h \in 1 .. Len(incoming) : incoming[h].req = incoming[i + k].req => h = i + k
      BY <3>1 DEF Queued
    <3> QED BY <3>1, <3>2

  <2>2. i \in Nat /\ j \in Nat /\ k \in Nat
    OBVIOUS
  <2> QED BY <2>1, <2>2
<1> QED BY <1>2, <1>3

\* A new event comes last.
LEMMA QueueGrows ==
  ASSUME TypeOfLink, Queued, UNCHANGED <<answers, openedAs>>,
         NEW e \in Event, incoming' = Append(incoming, e),
         e.req # Nil => /\ answers[e.req] = <<>> /\ openedAs[e.req] = Nil
                        /\ \A i \in DOMAIN incoming : incoming[i].req # e.req
  PROVE  Queued'
<1> DEFINE n == Len(incoming)
           m == Len(incoming')
<1>1. /\ n \in Nat /\ m = n + 1 /\ incoming'[n + 1] = e
      /\ \A i \in 1 .. n : incoming'[i] = incoming[i]
      /\ DOMAIN incoming = 1 .. n
  BY DEF TypeOfLink
<1>2. \A i \in 1 .. m : i \in 1 .. n \/ i = n + 1
  <2> HIDE DEF n, m
  <2> QED BY <1>1
<1> SUFFICES ASSUME NEW i \in 1 .. m, incoming'[i].req # Nil
             PROVE  /\ answers'[incoming'[i].req] = <<>> /\ openedAs'[incoming'[i].req] = Nil
                    /\ \A j \in 1 .. m : incoming'[j].req = incoming'[i].req => j = i
  BY DEF Queued
<1> HIDE DEF m
<1>3. CASE i \in 1 .. n
  BY <1>1, <1>2, <1>3 DEF Queued
<1>4. CASE i = n + 1
  BY <1>1, <1>2, <1>4
<1> QED BY <1>2, <1>3, <1>4

\* The event at the head of the queue is the only one of its request.
LEMMA HeadOfQueue ==
  ASSUME TypeOfLink, Queued, incoming # <<>>, NEW e, e = Head(incoming), e.kind \in RequestKind
  PROVE  /\ e.req \in Request /\ e.session \in Sessions /\ answers[e.req] = <<>> /\ openedAs[e.req] = Nil
         /\ \A i \in 1 .. Len(Tail(incoming)) : Tail(incoming)[i].req # e.req
<1>1. /\ e = incoming[1] /\ 1 \in 1 .. Len(incoming) /\ Len(incoming) \in Nat
      /\ Len(Tail(incoming)) = Len(incoming) - 1
      /\ \A i \in 1 .. Len(Tail(incoming)) : Tail(incoming)[i] = incoming[i + 1]
  BY HeadTailProperties DEF TypeOfLink
<1>2. e \in Event
  BY <1>1 DEF TypeOfLink
<1>3. e.req \in Request /\ e.session \in Sessions /\ e.req # Nil
  BY <1>2, ConstantsAssumption DEF Event, RequestKind
<1>4. /\ answers[e.req] = <<>> /\ openedAs[e.req] = Nil
      /\ \A j \in 1 .. Len(incoming) : incoming[j].req = e.req => j = 1
  BY <1>1, <1>3 DEF Queued
<1>5. ASSUME NEW i \in 1 .. Len(Tail(incoming)) PROVE i + 1 \in 1 .. Len(incoming) /\ i + 1 # 1
  <2> DEFINE n == Len(incoming)
             m == Len(Tail(incoming))
  <2>1. n \in Nat /\ m = n - 1 /\ i \in 1 .. m
    BY <1>1
  <2> HIDE DEF n, m
  <2>2. i + 1 \in 1 .. n /\ i + 1 # 1
    BY <2>1
  <2> QED BY <2>2 DEF n
<1> QED BY <1>1, <1>3, <1>4, <1>5

\* The answers stay good whoever the UI answers, whatever becomes of the load.
LEMMA VerdictStep ==
  ASSUME TypeOfModel, TypeOfModel', TypeOfLink, TypeOfLink', Ownership, Ownership',
         Verdicts, [Next]_vars
  PROVE  Verdicts'
<1>o. OneWay
  BY OneWayStep
<1>n. loadGeneration \in Gens /\ loadGeneration # Nil
  BY ConstantsAssumption DEF TypeOfModel
<1>p. ipcPendingOpen # Nil => ipcPendingOpen.id \in Request /\ openedAs[ipcPendingOpen.id] # Nil
  BY <1>n DEF TypeOfLink, OpenRequest, Verdicts, Pending
<1>r. \A i \in 1 .. Len(incoming) : incoming[i].req \in Request \cup {Nil}
  <2>1. \A e \in Event : e.req \in Request \cup {Nil}
    BY DEF Event
  <2> QED BY <2>1 DEF TypeOfLink
<1>rr. \A i \in 1 .. Len(incoming') : incoming'[i].req \in Request \cup {Nil}
  <2>1. \A e \in Event : e.req \in Request \cup {Nil}
    BY DEF Event
  <2> QED BY <2>1 DEF TypeOfLink
\* One answer unchanged.
<1>a. ASSUME NEW r \in Request, answers'[r] = answers[r], openedAs'[r] = openedAs[r]
      PROVE  Answer(answers[r], openedAs[r])'
  <2> SUFFICES ASSUME NEW a, NEW g, a = answers[r], g = openedAs[r] PROVE Answer(a, g)'
    BY <1>a
  <2>1. Answer(a, g) /\ g \in Gens \cup {Nil}
    BY DEF Verdicts, Told, TypeOfLink
  <2> QED BY <2>1, <1>o, AnswerStays
\* Nobody answered.
<1>b. ASSUME UNCHANGED <<answers, openedAs>> PROVE Told'
  BY <1>a, <1>b DEF Told
<1>c. ASSUME UNCHANGED <<answers, openedAs, incoming>> PROVE Queued'
  BY <1>c, QueueKept DEF Verdicts
<1>d. ASSUME UNCHANGED <<answers, openedAs, loadGeneration>>, ipcPendingOpen' \in {ipcPendingOpen, Nil},
             audioPlayer' \in {audioPlayer, Nil}
      PROVE  Pending'
  BY <1>d, <1>n DEF Verdicts, Pending
\* The pending request answered.
<1>e. ASSUME NEW s \in Terminal, FinishOpen(s), UNCHANGED <<openedAs, incoming>> PROVE Queued' /\ Pending'
  <2>1. Pending'
    BY <1>e DEF FinishOpen, Pending
  <2>2. ASSUME NEW i \in 1 .. Len(incoming'), incoming'[i].req # Nil
        PROVE  answers'[incoming'[i].req] = answers[incoming'[i].req]
    <3> DEFINE r == incoming[i].req
    <3>1. r \in Request /\ openedAs[r] = Nil
      BY <1>e, <1>r, <2>2 DEF Verdicts, Queued
    <3>2. ipcPendingOpen = Nil \/ ipcPendingOpen.id # r
      BY <3>1, <1>p
    <3>3. answers'[r] = Reply(answers, ipcPendingOpen, s)[r] /\ s \in Status
      BY <1>e DEF FinishOpen, Terminal, Status
    <3>4. answers \in [Request -> Seq(Status)] /\ ipcPendingOpen \in OpenRequest \cup {Nil}
      BY DEF TypeOfLink
    <3>5. answers'[r] = answers[r]
      BY <3>1, <3>2, <3>3, <3>4, ReplyEffect
    <3> QED BY <3>5, <1>e
  <2>3. Queued'
    BY <1>e, <2>2, QueueKept DEF Verdicts
  <2> QED BY <2>1, <2>3
\* A request answered on the spot.
<1>f. ASSUME NEW e, e = Head(incoming), incoming # <<>>, e.kind \in RequestKind, NEW s \in Status,
             answers' \in {answers, Reply(answers, [id |-> e.req, session |-> e.session], s)},
             incoming' = Tail(incoming), UNCHANGED <<openedAs, ipcPendingOpen, loadGeneration>>,
             audioPlayer' \in {audioPlayer, Nil}
      PROVE  Verdicts'
  <2>1. /\ e.req \in Request /\ e.session \in Sessions /\ answers[e.req] = <<>> /\ openedAs[e.req] = Nil
        /\ \A i \in 1 .. Len(Tail(incoming)) : Tail(incoming)[i].req # e.req
    BY <1>f, HeadOfQueue DEF Verdicts
  <2> DEFINE request == [id |-> e.req, session |-> e.session]
  <2>2. request \in OpenRequest /\ request.id = e.req
    BY <2>1 DEF OpenRequest
  <2>3. answers \in [Request -> Seq(Status)] /\ answers' \in {answers, Reply(answers, request, s)}
    BY <1>f DEF TypeOfLink
  <2> HIDE DEF request
  <2>10. \A r \in Request : /\ Reply(answers, request, s)[r] \in {answers[r], Append(answers[r], s)}
                            /\ request.id # r => Reply(answers, request, s)[r] = answers[r]
    BY <2>2, <2>3, ReplyEffect
  <2>4. \A r \in Request : r # e.req => answers'[r] = answers[r]
    BY <2>2, <2>3, <2>10
  <2>5. answers'[e.req] \in {<<>>, Append(<<>>, s)}
    BY <2>1, <2>3, <2>10
  <2>6. Len(answers'[e.req]) <= 1
    <3>1. Append(<<>>, s) = <<s>> /\ Len(<<s>>) = 1
      BY AnswersGrow
    <3>2. CASE answers'[e.req] = <<>>
      BY <3>2
    <3>3. CASE answers'[e.req] = <<s>>
      BY <3>1, <3>3
    <3> QED BY <2>5, <3>1, <3>2, <3>3
  <2>7. Told'
    <3> SUFFICES ASSUME NEW r \in Request PROVE Answer(answers[r], openedAs[r])'
      BY DEF Told
    <3>1. CASE r = e.req
      BY <1>f, <2>1, <2>6, <3>1 DEF Answer
    <3>2. CASE r # e.req
      BY <1>a, <1>f, <2>4, <3>2
    <3> QED BY <3>1, <3>2
  <2>8. Queued'
    BY <1>f, <1>rr, <2>1, <2>4, QueueKept DEF Verdicts
  <2>9. Pending'
    <3>1. ipcPendingOpen # Nil => ipcPendingOpen.id # e.req
      BY <1>p, <2>1
    <3>2. ipcPendingOpen # Nil => answers'[ipcPendingOpen.id] = answers[ipcPendingOpen.id]
      BY <1>p, <2>4, <3>1
    <3> QED BY <1>f, <1>n, <3>2 DEF Verdicts, Pending
  <2> QED BY <2>7, <2>8, <2>9 DEF Verdicts
<1>1. ASSUME NEW g \in Gens, Task(g) \/ DiscardLoaded(g) \/ HandleAccent(g) PROVE Verdicts'
  <2>1. UNCHANGED <<answers, openedAs, incoming, ipcPendingOpen, loadGeneration, audioPlayer>>
    BY <1>1 DEF Task, StartTask, OpenDecoder, Deliver, DiscardLoaded, HandleAccent, linkVars, modelVars,
       audioVars
  <2> QED BY <1>b, <1>c, <1>d, <2>1 DEF Verdicts
<1>2. CASE SetPlaying \/ LoopEnds \/ UserQuit \/ HostClose \/ Drop \/ UNCHANGED vars
  <2>1. UNCHANGED <<answers, openedAs, incoming, ipcPendingOpen, loadGeneration>>
        /\ audioPlayer' \in {audioPlayer, Nil}
    BY <1>2 DEF SetPlaying, LoopEnds, UserQuit, HostClose, Drop, Cleanup, linkVars, modelVars, audioVars,
       otherVars, vars
  <2> QED BY <1>b, <1>c, <1>d, <2>1 DEF Verdicts
<1>3. ASSUME NEW g \in Gens, AcceptLoaded(g) PROVE Verdicts'
  <2>1. /\ g = loadGeneration /\ loadGeneration' = loadGeneration /\ pendingLoad = g
        /\ FinishOpen("succeeded") /\ UNCHANGED <<openedAs, incoming>>
    BY <1>3 DEF AcceptLoaded, Take, Stale, Ownership, Posted, Newest
  <2>2. Over(loadGeneration)'
    <3>1. canceled'[g] /\ player'[g] = "playing"
      BY <1>3, <2>1 DEF AcceptLoaded, FinishLoad, Cancel, Closed, TypeOfModel
    <3> QED BY <2>1, <3>1 DEF Over, Heard
  <2>3. Told'
    BY <1>o, <2>1, <2>2, FinishTold DEF Terminal
  <2> QED BY <1>e, <2>1, <2>3 DEF Verdicts, Terminal
<1>4. ASSUME NEW g \in Gens, PlayFails(g) PROVE Verdicts'
  <2>1. /\ g = loadGeneration /\ loadGeneration' = loadGeneration /\ pendingLoad = g
        /\ FinishOpen("failed") /\ UNCHANGED <<openedAs, incoming, audioPlayer>>
    BY <1>4 DEF PlayFails, Take, Stale, Ownership, Posted, Newest
  <2>2. canceled'[loadGeneration]
    BY <1>4, <2>1 DEF PlayFails, FinishLoad, Cancel
  <2>3. ipcPendingOpen # Nil => audioPlayer' # loadGeneration
    BY <2>1 DEF Verdicts, Pending
  <2>4. Told'
    BY <1>o, <2>1, <2>2, <2>3, FinishTold DEF Terminal
  <2> QED BY <1>e, <2>1, <2>4 DEF Verdicts, Terminal
<1>5. ASSUME NEW g \in Gens, HandleLoadFailed(g) PROVE Verdicts'
  <2>1. loadGeneration' = loadGeneration /\ UNCHANGED <<openedAs, incoming, audioPlayer>>
    BY <1>5 DEF HandleLoadFailed, audioVars
  <2>2. CASE Stale(g)
    <3>1. UNCHANGED <<answers, ipcPendingOpen>>
      BY <1>5, <2>2 DEF HandleLoadFailed
    <3> QED BY <1>b, <1>c, <1>d, <2>1, <3>1 DEF Verdicts
  <2>3. CASE ~Stale(g)
    <3>1. g = loadGeneration /\ task[g] = "done"
      BY <1>5, <2>3 DEF HandleLoadFailed, Stale, Ownership, Posted
    <3>2. canceled'[loadGeneration]
      BY <1>5, <2>3, <3>1 DEF HandleLoadFailed, FinishLoad, Cancel, Ownership, Newest
    <3>3. FinishOpen("failed")
      BY <1>5, <2>3 DEF HandleLoadFailed
    <3>4. ipcPendingOpen # Nil => audioPlayer' # loadGeneration
      BY <2>1 DEF Verdicts, Pending
    <3>5. Told'
      BY <1>o, <2>1, <3>2, <3>3, <3>4, FinishTold DEF Terminal
    <3> QED BY <1>e, <2>1, <3>3, <3>5 DEF Verdicts, Terminal
  <2> QED BY <2>2, <2>3
\* A load begins: the one before it is not the active track, and never will be.
<1>l. ASSUME LoadTrack
      PROVE  /\ loadGeneration' = loadGeneration + 1 /\ loadGeneration < loadGeneration'
             /\ audioPlayer' # loadGeneration'
             /\ ipcPendingOpen # Nil => audioPlayer' # loadGeneration
  <2>1. loadGeneration' = loadGeneration + 1 /\ loadGeneration < loadGeneration' /\ loadGeneration' # Nil
    BY <1>l, <1>n, ConstantsAssumption DEF LoadTrack, TypeOfModel, Gens
  <2>2. audioPlayer' \in {audioPlayer, Nil}
    BY <1>l DEF LoadTrack
  <2>3. audioPlayer # loadGeneration'
    <3>1. loadGeneration' \in Gens /\ loadGeneration' > loadGeneration
      BY <1>n, <2>1 DEF TypeOfModel, Gens
    <3> QED BY <3>1 DEF Ownership, Fresh, Adopted
  <2>4. ipcPendingOpen # Nil => audioPlayer' # loadGeneration
    BY <1>n, <2>2 DEF Verdicts, Pending
  <2> QED BY <2>1, <2>2, <2>3, <2>4
<1>6. CASE UserOpen
  <2>1. LoadTrack /\ FinishOpen("cancelled") /\ UNCHANGED <<openedAs, incoming>>
    BY <1>6 DEF UserOpen
  <2>2. Told'
    BY <1>l, <1>o, <2>1, FinishTold DEF Terminal
  <2> QED BY <1>e, <2>1, <2>2 DEF Verdicts, Terminal
<1>7. CASE Connect \/ ReportDrop
  <2>1. UNCHANGED <<answers, openedAs, ipcPendingOpen, loadGeneration, audioPlayer>>
    BY <1>7 DEF Connect, ReportDrop, otherVars, linkVars, modelVars, audioVars
  <2>2. PICK e : e.req = Nil /\ incoming' = Append(incoming, e) /\ e \in Event
    <3>1. CASE Connect
      <4> DEFINE e == [kind |-> "connected", session |-> lastSession + 1, req |-> Nil]
      <4>1. incoming' = Append(incoming, e) /\ e.req = Nil /\ lastSession + 1 \in Sessions
        BY <3>1, ConstantsAssumption DEF Connect, Post, TypeOfLink, Sessions
      <4>2. e \in Event
        BY <4>1 DEF Event
      <4> HIDE DEF e
      <4> QED BY <4>1, <4>2
    <3>2. CASE ReportDrop
      <4> DEFINE e == [kind |-> "disconnected", session |-> lastSession, req |-> Nil]
      <4>1. incoming' = Append(incoming, e) /\ e.req = Nil /\ lastSession \in Sessions
        BY <3>2, ConstantsAssumption DEF ReportDrop, Post, TypeOfLink, Served, Sessions
      <4>2. e \in Event
        BY <4>1 DEF Event
      <4> HIDE DEF e
      <4> QED BY <4>1, <4>2
    <3> QED BY <1>7, <3>1, <3>2
  <2>3. Queued'
    BY <2>1, <2>2, QueueGrows DEF Verdicts
  <2> QED BY <1>b, <1>d, <2>1, <2>3 DEF Verdicts
<1>8. ASSUME NEW r \in Request, GuiRequest(r) PROVE Verdicts'
  <2>1. UNCHANGED <<answers, openedAs, ipcPendingOpen, loadGeneration, audioPlayer>>
    BY <1>8 DEF GuiRequest, otherVars, linkVars, modelVars, audioVars
  <2>2. PICK kind \in RequestKind : Post(kind, server, r)
    BY <1>8 DEF GuiRequest
  <2> DEFINE e == [kind |-> kind, session |-> server, req |-> r]
  <2>3. e \in Event
    <3>1. server \in Sessions
      BY <1>8, ConstantsAssumption DEF GuiRequest, TypeOfLink, Sessions, NoSession
    <3> QED BY <3>1 DEF Event
  <2>4. /\ incoming' = Append(incoming, e) /\ e.req = r
        /\ answers[r] = <<>> /\ openedAs[r] = Nil
        /\ \A i \in DOMAIN incoming : incoming[i].req # r
    BY <1>8, <2>2 DEF Post, GuiRequest
  <2> HIDE DEF e
  <2>5. Queued'
    BY <2>1, <2>3, <2>4, QueueGrows DEF Verdicts
  <2> QED BY <1>b, <1>d, <2>1, <2>5 DEF Verdicts
<1>9. CASE HandleConnected \/ HandleDisconnected
  <2>1. /\ UNCHANGED <<answers, openedAs, loadGeneration, audioPlayer>>
        /\ ipcPendingOpen' \in {ipcPendingOpen, Nil}
        /\ incoming # <<>> /\ incoming' = Tail(incoming)
    BY <1>9 DEF HandleConnected, HandleDisconnected, NextEvent, otherVars, modelVars, audioVars
  <2>2. Queued'
    BY <2>1, QueueKept DEF Verdicts
  <2> QED BY <1>b, <1>d, <2>1, <2>2 DEF Verdicts
<1>10. CASE HandleOpen
  <2> DEFINE e == Head(incoming)
             request == [id |-> e.req, session |-> ipcSession]
             told == Reply(answers, ipcPendingOpen, "cancelled")
  <2>1. /\ LoadTrack /\ incoming # <<>> /\ incoming' = Tail(incoming) /\ e.kind \in RequestKind
        /\ ipcSession = server /\ ipcSession = e.session
        /\ ipcPendingOpen' = request /\ answers' = Reply(told, request, "accepted")
        /\ openedAs' = [openedAs EXCEPT ![e.req] = loadGeneration + 1]
    BY <1>10 DEF HandleOpen, NextEvent, Current, RequestKind
  <2>2. /\ e.req \in Request /\ e.session \in Sessions /\ answers[e.req] = <<>> /\ openedAs[e.req] = Nil
        /\ \A i \in 1 .. Len(Tail(incoming)) : Tail(incoming)[i].req # e.req
    BY <2>1, HeadOfQueue DEF Verdicts
  <2>3. request \in OpenRequest /\ request # Nil /\ request.id = e.req /\ request.session = server
    BY <2>1, <2>2, ConstantsAssumption DEF OpenRequest, Sessions
  <2> HIDE DEF request
  <2>4. /\ answers \in [Request -> Seq(Status)] /\ ipcPendingOpen \in OpenRequest \cup {Nil}
        /\ "cancelled" \in Status /\ "accepted" \in Status
    BY DEF TypeOfLink, Status
  <2>5. /\ told \in [Request -> Seq(Status)]
        /\ \A r \in Request : /\ told[r] \in {answers[r], Append(answers[r], "cancelled")}
                              /\ ipcPendingOpen = Nil \/ ipcPendingOpen.id # r => told[r] = answers[r]
    BY <2>2, <2>4, ReplyEffect
  <2> HIDE DEF told
  <2>13. \A r \in Request : /\ r = e.req => Reply(told, request, "accepted")[r] = Append(told[r], "accepted")
                            /\ r # e.req => Reply(told, request, "accepted")[r] = told[r]
    <3> SUFFICES ASSUME NEW r \in Request
                 PROVE  /\ r = e.req => Reply(told, request, "accepted")[r] = Append(told[r], "accepted")
                        /\ r # e.req => Reply(told, request, "accepted")[r] = told[r]
      OBVIOUS
    <3>1. told \in [Request -> Seq(Status)] /\ request \in OpenRequest \cup {Nil}
      BY <2>3, <2>5
    <3>2. ASSUME r = e.req PROVE Reply(told, request, "accepted")[r] = Append(told[r], "accepted")
      <4>1. request # Nil /\ request.id = r /\ request.session = server /\ "accepted" \in Status
        BY <2>3, <2>4, <3>2
      <4> QED BY <3>1, <4>1, ReplyEffect

    <3>3. r # e.req => Reply(told, request, "accepted")[r] = told[r]
      BY <2>3, <2>4, <3>1, ReplyEffect
    <3> QED BY <3>2, <3>3

  <2>6. ipcPendingOpen # Nil => ipcPendingOpen.id # e.req
    BY <1>p, <2>2
  <2>7. answers'[e.req] = <<"accepted">>
    <3>1. told[e.req] = <<>>
      BY <2>2, <2>5, <2>6
    <3>2. answers'[e.req] = Append(told[e.req], "accepted")
      BY <2>1, <2>2, <2>13
    <3> QED BY <3>1, <3>2, <2>4, AnswersGrow
  <2>8. \A r \in Request : r # e.req => answers'[r] = told[r] /\ openedAs'[r] = openedAs[r]
    <3>1. \A r \in Request : r # e.req => answers'[r] = told[r]
      BY <2>1, <2>13
    <3>2. \A r \in Request : r # e.req => openedAs'[r] = openedAs[r]
      BY <2>1, <2>2 DEF TypeOfLink
    <3> QED BY <3>1, <3>2
  <2>9. openedAs'[e.req] = loadGeneration' /\ loadGeneration' \in Gens /\ loadGeneration' # Nil
    <3>1. loadGeneration' = loadGeneration + 1
      BY <1>l, <2>1
    <3> QED BY <2>1, <2>2, <3>1, ConstantsAssumption DEF TypeOfLink, TypeOfModel
  <2>10. Told'
    <3> SUFFICES ASSUME NEW r \in Request PROVE Answer(answers[r], openedAs[r])'
      BY DEF Told
    <3>1. CASE r = e.req
      <4>1. loadGeneration' \in 0 .. loadGeneration'
        BY <2>9 DEF Gens
      <4> QED BY <2>7, <2>9, <3>1, <4>1 DEF Answer
    <3>2. CASE r # e.req /\ answers'[r] = answers[r]
      BY <1>a, <2>8, <3>2
    <3>3. CASE r # e.req /\ answers'[r] # answers[r]
      <4>1. ipcPendingOpen # Nil /\ r = ipcPendingOpen.id /\ answers'[r] = Append(answers[r], "cancelled")
        BY <2>5, <2>8, <3>3
      <4>2. answers[r] = <<"accepted">> /\ openedAs'[r] = loadGeneration
        BY <2>8, <3>3, <4>1 DEF Verdicts, Pending
      <4>3. answers'[r] = <<"accepted", "cancelled">>
        BY <2>4, <4>1, <4>2, AnswersGrow
      <4>4. loadGeneration \in 0 .. loadGeneration'
        BY <1>n, <1>l, <2>1 DEF TypeOfModel, Gens
      <4> QED BY <1>l, <1>n, <2>1, <4>1, <4>2, <4>3, <4>4 DEF Answer, GivenUp
    <3> QED BY <3>1, <3>2, <3>3
  <2>11. Queued'
    <3>1. ASSUME NEW i \in 1 .. Len(incoming'), incoming'[i].req # Nil
          PROVE  LET r == incoming'[i].req IN answers'[r] = answers[r] /\ openedAs'[r] = openedAs[r]
      <4> DEFINE r == incoming'[i].req
      <4>1. r \in Request /\ r # e.req
        BY <1>rr, <2>1, <2>2, <3>1
      <4>2. openedAs[r] = Nil
        <5>1. PICK k \in 1 .. Len(incoming) : incoming'[i] = incoming[k]
          <6>1. /\ Len(incoming') = Len(incoming) - 1 /\ incoming'[i] = incoming[i + 1]
                /\ Len(incoming) \in Nat
            BY <2>1, HeadTailProperties DEF TypeOfLink
          <6> DEFINE n == Len(incoming)
                     m == Len(incoming')
          <6>2. n \in Nat /\ m = n - 1 /\ i \in 1 .. m
            BY <6>1
          <6> HIDE DEF n, m
          <6>3. i + 1 \in 1 .. n
            BY <6>2
          <6> QED BY <6>1, <6>3 DEF n
        <5> QED BY <3>1, <5>1 DEF Verdicts, Queued
      <4>3. ipcPendingOpen # Nil => ipcPendingOpen.id # r
        BY <1>p, <4>2
      <4> HIDE DEF r
      <4>4. answers'[r] = answers[r] /\ openedAs'[r] = openedAs[r]
        BY <2>5, <2>8, <4>1, <4>3
      <4> QED BY <4>4 DEF r
    <3> QED BY <2>1, <3>1, QueueKept DEF Verdicts
  <2>12. Pending'
    BY <1>l, <2>1, <2>3, <2>7, <2>9 DEF Pending
  <2> QED BY <2>10, <2>11, <2>12 DEF Verdicts
<1>11. CASE RefuseRequest
  <2> DEFINE e == Head(incoming)
  <2>1. /\ incoming # <<>> /\ incoming' = Tail(incoming) /\ e.kind \in RequestKind
        /\ answers' \in {answers, Reply(answers, [id |-> e.req, session |-> e.session], "failed")}
        /\ UNCHANGED <<openedAs, ipcPendingOpen, loadGeneration, audioPlayer>>
    BY <1>11 DEF RefuseRequest, NextEvent, otherVars, modelVars, audioVars
  <2>2. "failed" \in Status
    BY DEF Status
  <2> QED BY <1>f, <2>1, <2>2
<1>12. CASE HandleQuit
  <2> DEFINE e == Head(incoming)
  <2>1. /\ incoming # <<>> /\ incoming' = Tail(incoming) /\ e.kind \in RequestKind
        /\ answers' \in {answers, Reply(answers, [id |-> e.req, session |-> e.session], "succeeded")}
        /\ UNCHANGED <<openedAs, ipcPendingOpen, loadGeneration>> /\ audioPlayer' \in {audioPlayer, Nil}
    BY <1>12 DEF HandleQuit, Cleanup, NextEvent, RequestKind
  <2>2. "succeeded" \in Status
    BY DEF Status
  <2> QED BY <1>f, <2>1, <2>2
<1> QED BY <1>1, <1>2, <1>3, <1>4, <1>5, <1>6, <1>7, <1>8, <1>9, <1>10, <1>11, <1>12
        DEF Next, HandleLoadMessage, HandleEvent

\* The GUI is answered in number, in order, and about its own request, however loads
\* race with each other, with the user and with the session that asked.
THEOREM AnswersTrue == Spec => []VerdictsHold
<1>1. Init => TypeOfModel /\ TypeOfLink /\ Ownership /\ Verdicts
  <2>1. Init => Verdicts
    BY DEF Init, Verdicts, Told, Answer, Queued, Pending
  <2> QED BY <2>1, InitType, OwnershipInit
<1>2. TypeOfModel /\ TypeOfLink /\ Ownership /\ Verdicts /\ [Next]_vars
        => (TypeOfModel /\ TypeOfLink /\ Ownership /\ Verdicts)'
  BY ModelTypeStep, LinkTypeStep, OwnershipStep, VerdictStep
<1>3. Verdicts => VerdictsHold
  <2> SUFFICES ASSUME Verdicts, NEW r \in Request
               PROVE  /\ IF openedAs[r] = Nil THEN Len(answers[r]) <= 1
                         ELSE /\ Len(answers[r]) \in 0 .. 2
                              /\ Len(answers[r]) >= 1 => answers[r][1] = "accepted"
                              /\ Len(answers[r]) = 2 => answers[r][2] \in Terminal
                      /\ openedAs[r] # Nil /\ Len(answers[r]) = 2 =>
                           LET g == openedAs[r] IN
                           /\ LastAnswer(r) = "succeeded" =>
                                canceled[g] /\ player[g] \in {"playing", "paused", "closed"}
                           /\ LastAnswer(r) \in {"failed", "cancelled"} => audioPlayer # g
    BY DEF VerdictsHold, OneVerdict, VerdictIsTrue
  <2>1. Answer(answers[r], openedAs[r])
    BY DEF Verdicts, Told
  <2>2. CASE openedAs[r] = Nil
    BY <2>1, <2>2 DEF Answer
  <2>3. CASE openedAs[r] # Nil /\ answers[r] = <<"accepted">>
    BY <2>3
  <2>4. CASE openedAs[r] # Nil /\ answers[r] = <<"accepted", "succeeded">> /\ Over(openedAs[r])
    BY <2>4 DEF Over, Heard, LastAnswer, Terminal
  <2>5. CASE /\ openedAs[r] # Nil /\ GivenUp(openedAs[r])
             /\ answers[r] \in {<<"accepted", "failed">>, <<"accepted", "cancelled">>}
    <3>1. PICK s \in {"failed", "cancelled"} : answers[r] = <<"accepted", s>>
      BY <2>5
    <3>2. Len(answers[r]) = 2 /\ answers[r][1] = "accepted" /\ answers[r][2] = s
      BY <3>1
    <3> QED BY <2>5, <3>2 DEF GivenUp, LastAnswer, Terminal

  <2> QED BY <2>1, <2>2, <2>3, <2>4, <2>5 DEF Answer
<1> QED BY <1>1, <1>2, <1>3, PTL DEF Spec
=============================================================================
