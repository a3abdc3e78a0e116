------------------------------ MODULE TrackLoad ------------------------------
(***************************************************************************)
(* How the player UI loads, adopts, replaces and releases tracks           *)
(* (internal/ui: audio_load.go, update_audio.go, update_ipc.go, model.go). *)
(*                                                                         *)
(* The event loop of the UI is one goroutine: a handler is one action.     *)
(* Every load runs in a goroutine of its own that opens a decoder and      *)
(* posts a message back; messages of different goroutines arrive in any    *)
(* order, or never when the program ends first.  The GUI wrapper may ask   *)
(* for a file over IPC, and is owed an answer on the session it asked on.  *)
(* The IPC server is seen here as its users see it: Session() and the      *)
(* Incoming queue (module IpcServer is the server itself).                 *)
(*                                                                         *)
(* A load is named by its generation: startAudioLoad is called once for    *)
(* each value of Model.loadGeneration.                                     *)
(***************************************************************************)
EXTENDS Naturals, Sequences, FiniteSets

CONSTANTS
  MaxGen,      \* bound: tracks loaded after the initial one
  MaxSession,  \* bound: GUI sessions
  Request,     \* GUI requests, each sent at most once
  HasPath,     \* a file was named on the command line
  HasSeek,     \* --seek was given
  Immediate,   \* track_switch_mode = immediate
  Nil

Gens == 0 .. MaxGen
Sessions == 1 .. MaxSession
NoSession == 0

ASSUME ConstantsAssumption ==
  /\ MaxGen \in Nat
  /\ MaxSession \in Nat
  /\ HasPath \in BOOLEAN
  /\ HasSeek \in BOOLEAN
  /\ Immediate \in BOOLEAN
  /\ Nil \notin Gens
  /\ Nil \notin [id : Request, session : Sessions]
  /\ Nil \notin Request

VARIABLES
  \* Model
  exiting, loadGeneration, activeGeneration, pendingLoad, loading, pendingSeek,
  \* AudioState and what is derived from the active track
  audioPlayer, isPlaying, accent,
  \* audioLoad, the goroutine of each load, its player
  task, canceled, owned, player,
  \* messages posted to the event loop, and whether the loop still runs
  inbox, running,
  \* IPC: the UI's view, the server's, the events between them, the answers
  ipcSession, ipcPendingOpen, server, serving, lastSession, incoming, answers,
  \* history: the load an open request started, tracks that --seek moved
  openedAs, sought

modelVars == <<exiting, loadGeneration, activeGeneration, pendingLoad, loading, pendingSeek>>
audioVars == <<audioPlayer, isPlaying, accent>>
loadVars  == <<task, canceled, owned, player>>
loopVars  == <<inbox, running>>
serverVars == <<server, serving, lastSession>>
linkVars  == <<ipcSession, ipcPendingOpen, answers, openedAs>>
vars == <<modelVars, audioVars, loadVars, loopVars, serverVars, incoming, linkVars, sought>>

Live == {"ready", "playing", "paused"}
TaskState == {"idle", "queued", "opening", "opened", "failed", "done"}
PlayerState == {"none", "opening", "closed"} \cup Live
Message == [kind : {"loaded", "failed", "accent"}, gen : Gens]
RequestKind == {"open", "badopen", "quit"}
Event == [kind : {"connected", "disconnected"}, session : Sessions, req : {Nil}]
         \cup [kind : RequestKind, session : Sessions, req : Request]
OpenRequest == [id : Request, session : Sessions]
Status == {"accepted", "succeeded", "failed", "cancelled"}

TypeOK ==
  /\ exiting \in BOOLEAN /\ running \in BOOLEAN
  /\ loading \in BOOLEAN /\ pendingSeek \in BOOLEAN /\ isPlaying \in BOOLEAN
  /\ loadGeneration \in Gens /\ activeGeneration \in Gens
  /\ pendingLoad \in Gens \cup {Nil}
  /\ audioPlayer \in Gens \cup {Nil}
  /\ accent \in Gens \cup {Nil}
  /\ task \in [Gens -> TaskState]
  /\ canceled \in [Gens -> BOOLEAN]
  /\ owned \in [Gens -> BOOLEAN]
  /\ player \in [Gens -> PlayerState]
  /\ inbox \in SUBSET Message
  /\ ipcSession \in 0 .. MaxSession
  /\ ipcPendingOpen \in OpenRequest \cup {Nil}
  /\ server \in 0 .. MaxSession
  /\ serving \in BOOLEAN
  /\ lastSession \in 0 .. MaxSession
  /\ incoming \in Seq(Event)
  /\ answers \in [Request -> Seq(Status)]
  /\ openedAs \in [Request -> Gens \cup {Nil}]
  /\ sought \in SUBSET Gens

\* NewModel and Model.Init: a file named on the command line is load 0.
Init ==
  /\ exiting = FALSE /\ running = TRUE
  /\ loadGeneration = 0 /\ activeGeneration = 0
  /\ pendingLoad = IF HasPath THEN 0 ELSE Nil
  /\ loading = HasPath
  /\ pendingSeek = HasSeek
  /\ audioPlayer = Nil /\ isPlaying = FALSE /\ accent = Nil
  /\ task = [g \in Gens |-> IF g = 0 /\ HasPath THEN "queued" ELSE "idle"]
  /\ canceled = [g \in Gens |-> FALSE]
  /\ owned = [g \in Gens |-> FALSE]
  /\ player = [g \in Gens |-> "none"]
  /\ inbox = {}
  /\ ipcSession = NoSession /\ ipcPendingOpen = Nil
  /\ server = NoSession /\ serving = FALSE /\ lastSession = 0
  /\ incoming = <<>>
  /\ answers = [r \in Request |-> <<>>]
  /\ openedAs = [r \in Request |-> Nil]
  /\ sought = {}

-----------------------------------------------------------------------------
(* The pieces handlers are made of. *)

Closed(pl, S) == [g \in Gens |-> IF g \in S THEN "closed" ELSE pl[g]]

\* audioLoad.cancel, on a load that may be nil: what it marks and what it closes.
Cancel(c, l) == [g \in Gens |-> c[g] \/ g = l]
DisownNone(o, l) == o
Disown(o, l) == [g \in Gens |-> o[g] /\ g # l]
OwnedBy(l) == {g \in Gens : g = l /\ owned[g]}
NoActive == {}
Active == {g \in Gens : g = audioPlayer}

\* Server.SendTo refuses any session but the current one.
Reply(ans, request, status) ==
  IF request # Nil /\ request.session = server
  THEN [ans EXCEPT ![request.id] = Append(@, status)]
  ELSE ans

\* finishIPCOpen.
FinishOpen(status) ==
  /\ answers' = Reply(answers, ipcPendingOpen, status)
  /\ ipcPendingOpen' = Nil

\* finishAudioLoad, for a message whose load has been taken or has failed.
FinishLoad ==
  /\ canceled' = Cancel(canceled, pendingLoad)
  /\ pendingLoad' = Nil
  /\ loading' = FALSE

KeepSeek == UNCHANGED pendingSeek
ForgetSeek == pendingSeek' = FALSE

\* Whether the current track makes way before its replacement is ready.
SwitchAlways == TRUE
SwitchNow == Immediate

\* handleLoadTrack and startAudioLoad, up to finishIPCOpen, which the callers add.
LoadTrack ==
  LET g == loadGeneration + 1
      dropped == IF SwitchNow THEN Active ELSE {} IN
  /\ loadGeneration < MaxGen
  /\ loadGeneration' = g
  /\ ForgetSeek
  /\ loading' = TRUE
  /\ IF SwitchNow
     THEN audioPlayer' = Nil /\ isPlaying' = FALSE /\ accent' = Nil /\ activeGeneration' = g
     ELSE UNCHANGED <<audioPlayer, isPlaying, accent, activeGeneration>>
  /\ canceled' = Cancel(canceled, pendingLoad)
  /\ owned' = Disown(owned, pendingLoad)
  /\ player' = Closed(player, OwnedBy(pendingLoad) \cup dropped)
  /\ pendingLoad' = g
  /\ task' = [task EXCEPT ![g] = "queued"]

\* Model.cleanup, which returns at once when exiting is already set.
Cleanup ==
  /\ ~exiting
  /\ exiting' = TRUE
  /\ canceled' = Cancel(canceled, pendingLoad)
  /\ owned' = Disown(owned, pendingLoad)
  /\ player' = Closed(player, OwnedBy(pendingLoad) \cup Active)
  /\ pendingLoad' = Nil
  /\ audioPlayer' = Nil
  /\ server' = NoSession

-----------------------------------------------------------------------------
(* The goroutine of a load. *)

\* startAudioLoad's closure: a load canceled before it starts opens nothing.
StartTask(g) ==
  /\ task[g] = "queued"
  /\ IF canceled[g]
     THEN task' = [task EXCEPT ![g] = "done"] /\ UNCHANGED player
     ELSE task' = [task EXCEPT ![g] = "opening"] /\ player' = [player EXCEPT ![g] = "opening"]
  /\ UNCHANGED <<modelVars, audioVars, canceled, owned, loopVars, serverVars, incoming, linkVars, sought>>

OpenDecoderLeaky(g) ==
  /\ task[g] = "opening"
  /\ \E ok \in BOOLEAN :
       /\ task' = [task EXCEPT ![g] = IF ok THEN "opened" ELSE "failed"]
       /\ player' = IF ok THEN [player EXCEPT ![g] = "ready"] ELSE player
  /\ UNCHANGED <<modelVars, audioVars, canceled, owned, loopVars, serverVars, incoming, linkVars, sought>>
\* loadAudio: the decoder opens, or the player is closed before the failure is returned.
OpenDecoder(g) ==
  /\ task[g] = "opening"
  /\ \E ok \in BOOLEAN :
       /\ task' = [task EXCEPT ![g] = IF ok THEN "opened" ELSE "failed"]
       /\ player' = [player EXCEPT ![g] = IF ok THEN "ready" ELSE "closed"]
  /\ UNCHANGED <<modelVars, audioVars, canceled, owned, loopVars, serverVars, incoming, linkVars, sought>>

\* audioLoad.deliver: a canceled load closes its player, another keeps it until taken.
Deliver(g) ==
  /\ task[g] \in {"opened", "failed"}
  /\ task' = [task EXCEPT ![g] = "done"]
  /\ IF canceled[g]
     THEN /\ player' = Closed(player, {g})
          /\ UNCHANGED <<owned, inbox>>
     ELSE /\ owned' = [owned EXCEPT ![g] = task[g] = "opened"]
          /\ inbox' = inbox \cup {[kind |-> IF task[g] = "opened" THEN "loaded" ELSE "failed", gen |-> g]}
          /\ UNCHANGED player
  /\ UNCHANGED <<modelVars, audioVars, canceled, running, serverVars, incoming, linkVars, sought>>

-----------------------------------------------------------------------------
(* Handlers of load messages. *)

StaleOnExit(g) == exiting
Stale(g) == exiting \/ g # loadGeneration

\* A message is taken only when its load has not been given up meanwhile.
TakeAny(g) == ~exiting
Take(g) == ~Stale(g) /\ ~canceled[g]

\* handleAudioLoaded: a message nobody waits for releases what it carries.
DiscardLoaded(g) ==
  /\ running /\ [kind |-> "loaded", gen |-> g] \in inbox
  /\ ~Take(g)
  /\ inbox' = inbox \ {[kind |-> "loaded", gen |-> g]}
  /\ canceled' = Cancel(canceled, g)
  /\ owned' = Disown(owned, g)
  /\ player' = Closed(player, OwnedBy(g))
  /\ UNCHANGED <<modelVars, audioVars, task, running, serverVars, incoming, linkVars, sought>>

\* handleAudioLoaded: the new track plays and replaces the current one.
AcceptLoaded(g) ==
  /\ running /\ [kind |-> "loaded", gen |-> g] \in inbox
  /\ Take(g)
  /\ inbox' = (inbox \ {[kind |-> "loaded", gen |-> g]}) \cup {[kind |-> "accent", gen |-> g]}
  /\ owned' = Disown(Disown(owned, g), pendingLoad)
  /\ FinishLoad
  /\ player' = [Closed(player, Active \cup (OwnedBy(pendingLoad) \ {g})) EXCEPT ![g] = "playing"]
  /\ audioPlayer' = g /\ isPlaying' = TRUE /\ accent' = Nil
  /\ activeGeneration' = g
  /\ ForgetSeek
  /\ sought' = IF pendingSeek THEN sought \cup {g} ELSE sought
  /\ FinishOpen("succeeded")
  /\ UNCHANGED <<exiting, loadGeneration, task, running, ipcSession, serverVars, incoming, openedAs>>

\* handleAudioLoaded: the new track opens but does not play; the current one,
\* paused for the attempt, is resumed, which may fail too.
PlayFails(g) ==
  LET was == {h \in Active : player[h] = "playing"} IN
  /\ running /\ [kind |-> "loaded", gen |-> g] \in inbox
  /\ Take(g)
  /\ inbox' = inbox \ {[kind |-> "loaded", gen |-> g]}
  /\ owned' = Disown(Disown(owned, g), pendingLoad)
  /\ FinishLoad
  /\ \E resumed \in BOOLEAN :
       /\ player' = [h \in Gens |->
            IF h = g \/ h \in OwnedBy(pendingLoad) THEN "closed"
            ELSE IF h \in was /\ ~resumed THEN "paused" ELSE player[h]]
       /\ isPlaying' = IF was = {} THEN isPlaying ELSE resumed
  /\ FinishOpen("failed")
  /\ UNCHANGED <<exiting, loadGeneration, activeGeneration, pendingSeek, audioPlayer, accent,
                 task, running, ipcSession, serverVars, incoming, openedAs, sought>>

\* handleAudioLoadFailed.
HandleLoadFailed(g) ==
  /\ running /\ [kind |-> "failed", gen |-> g] \in inbox
  /\ inbox' = inbox \ {[kind |-> "failed", gen |-> g]}
  /\ IF Stale(g)
     THEN UNCHANGED <<canceled, owned, player, pendingLoad, loading, answers, ipcPendingOpen>>
     ELSE /\ FinishLoad
          /\ owned' = Disown(owned, pendingLoad)
          /\ player' = Closed(player, OwnedBy(pendingLoad))
          /\ FinishOpen("failed")
  /\ UNCHANGED <<exiting, loadGeneration, activeGeneration, pendingSeek, audioVars,
                 task, running, ipcSession, serverVars, incoming, openedAs, sought>>

AccentAlways(g) == ~exiting
AccentCurrent(g) == ~exiting /\ g = activeGeneration

\* handleAccentApply.
HandleAccent(g) ==
  /\ running /\ [kind |-> "accent", gen |-> g] \in inbox
  /\ inbox' = inbox \ {[kind |-> "accent", gen |-> g]}
  /\ accent' = IF AccentCurrent(g) THEN g ELSE accent
  /\ UNCHANGED <<modelVars, audioPlayer, isPlaying, loadVars, running, serverVars, incoming, linkVars, sought>>

-----------------------------------------------------------------------------
(* The user, and the end of the program. *)

\* :open, a dropped or piped path, a picked file: handleLoadTrack.
UserOpen ==
  /\ running /\ ~exiting
  /\ LoadTrack
  /\ FinishOpen("cancelled")
  /\ UNCHANGED <<exiting, loopVars, ipcSession, serverVars, incoming, openedAs, sought>>

\* AudioState.SetPlaying from a key, an OS media command or the GUI.
SetPlaying ==
  /\ running /\ audioPlayer # Nil
  /\ \E p \in IF player[audioPlayer] = "playing" THEN {"paused"} ELSE {"playing", "paused"} :
       /\ player' = [player EXCEPT ![audioPlayer] = p]
       /\ isPlaying' = (p = "playing")
  /\ UNCHANGED <<modelVars, audioPlayer, accent, task, canceled, owned, loopVars,
                 serverVars, incoming, linkVars, sought>>

\* A quit key or command: cleanup, then tea.Quit stops the loop some messages later.
UserQuit ==
  /\ running
  /\ Cleanup
  /\ UNCHANGED <<loadGeneration, activeGeneration, loading, pendingSeek, isPlaying, accent, task,
                 loopVars, serving, lastSession, incoming, linkVars, sought>>

\* tea.Quit after cleanup, or an error or signal that ends the program at any time.
LoopEnds ==
  /\ running
  /\ running' = FALSE
  /\ UNCHANGED <<modelVars, audioVars, loadVars, inbox, serverVars, incoming, linkVars, sought>>

\* root.go's deferred model.Close().
HostClose ==
  /\ ~running
  /\ Cleanup
  /\ UNCHANGED <<loadGeneration, activeGeneration, loading, pendingSeek, isPlaying, accent, task,
                 loopVars, serving, lastSession, incoming, linkVars, sought>>

-----------------------------------------------------------------------------
(* The IPC server as the UI sees it, and the handlers of its events. *)

Post(kind, session, r) == incoming' = Append(incoming, [kind |-> kind, session |-> session, req |-> r])
otherVars == <<modelVars, audioVars, loadVars, loopVars, sought>>

\* acceptLoop takes a connection when the previous session has been served.
Connect ==
  /\ ~serving /\ ~exiting /\ lastSession < MaxSession
  /\ lastSession' = lastSession + 1
  /\ server' = lastSession + 1
  /\ serving' = TRUE
  /\ Post("connected", lastSession + 1, Nil)
  /\ UNCHANGED <<otherVars, linkVars>>

\* The GUI asks to open a file (valid or not), or to quit.
GuiRequest(r) ==
  /\ server # NoSession
  /\ answers[r] = <<>> /\ \A i \in DOMAIN incoming : incoming[i].req # r
  /\ openedAs[r] = Nil
  /\ \E kind \in RequestKind : Post(kind, server, r)
  /\ UNCHANGED <<otherVars, serverVars, linkVars>>

\* The connection fails or is closed: Session() is 0 from here on.
Drop ==
  /\ server # NoSession
  /\ server' = NoSession
  /\ UNCHANGED <<otherVars, serving, lastSession, incoming, linkVars>>

\* serve reports the end of the session, then the next one may be accepted.
ReportDrop ==
  /\ serving /\ server = NoSession
  /\ serving' = FALSE
  /\ Post("disconnected", lastSession, Nil)
  /\ UNCHANGED <<otherVars, server, lastSession, linkVars>>

NextEvent(kinds) ==
  /\ running /\ incoming # <<>>
  /\ Head(incoming).kind \in kinds
  /\ incoming' = Tail(incoming)

\* handleIPCEvent, connected.
HandleConnected ==
  /\ NextEvent({"connected"})
  /\ ipcSession' = IF Head(incoming).session = server THEN server ELSE ipcSession
  /\ UNCHANGED <<otherVars, serverVars, ipcPendingOpen, answers, openedAs>>

\* handleIPCEvent, disconnected.
HandleDisconnected ==
  LET s == Head(incoming).session IN
  /\ NextEvent({"disconnected"})
  /\ ipcSession' = IF s = ipcSession THEN NoSession ELSE ipcSession
  /\ ipcPendingOpen' = IF ipcPendingOpen # Nil /\ ipcPendingOpen.session = s THEN Nil ELSE ipcPendingOpen
  /\ UNCHANGED <<otherVars, serverVars, answers, openedAs>>

CurrentAlways(event) == TRUE
Current(event) == event.session = ipcSession /\ event.session = server

\* handleIPCEvent and ipcRequest, open: handleLoadTrack cancels the request
\* before this one, then this one is recorded and accepted.
HandleOpen ==
  LET e == Head(incoming)
      request == [id |-> e.req, session |-> ipcSession] IN
  /\ NextEvent({"open"}) /\ Current(e) /\ ~exiting
  /\ LoadTrack
  /\ ipcPendingOpen' = request
  /\ answers' = Reply(Reply(answers, ipcPendingOpen, "cancelled"), request, "accepted")
  /\ openedAs' = [openedAs EXCEPT ![e.req] = loadGeneration + 1]
  /\ UNCHANGED <<exiting, loopVars, ipcSession, serverVars, sought>>

\* handleIPCEvent, a request that is refused: an invalid path is answered, one
\* from a session that is gone is not.
RefuseRequest ==
  LET e == Head(incoming) IN
  /\ NextEvent(RequestKind)
  /\ ~Current(e) \/ e.kind = "badopen"
  /\ answers' = IF Current(e) THEN Reply(answers, [id |-> e.req, session |-> e.session], "failed") ELSE answers
  /\ UNCHANGED <<otherVars, serverVars, ipcSession, ipcPendingOpen, openedAs>>

\* handleIPCEvent, quit: answered, then cleanup.
HandleQuit ==
  LET e == Head(incoming) IN
  /\ NextEvent({"quit"}) /\ Current(e)
  /\ answers' = Reply(answers, [id |-> e.req, session |-> e.session], "succeeded")
  /\ Cleanup
  /\ UNCHANGED <<loadGeneration, activeGeneration, loading, pendingSeek, isPlaying, accent, task,
                 loopVars, serving, lastSession, ipcSession, ipcPendingOpen, openedAs, sought>>

-----------------------------------------------------------------------------

Task(g) == StartTask(g) \/ OpenDecoder(g) \/ Deliver(g)
HandleLoadMessage(g) == DiscardLoaded(g) \/ AcceptLoaded(g) \/ PlayFails(g) \/ HandleLoadFailed(g)
HandleEvent == HandleConnected \/ HandleDisconnected \/ HandleOpen \/ RefuseRequest \/ HandleQuit

Next ==
  \/ \E g \in Gens : Task(g) \/ HandleLoadMessage(g) \/ HandleAccent(g)
  \/ UserOpen \/ SetPlaying \/ UserQuit \/ LoopEnds \/ HostClose
  \/ Connect \/ Drop \/ ReportDrop \/ \E r \in Request : GuiRequest(r)
  \/ HandleEvent

Spec == Init /\ [][Next]_vars

\* Loads finish, the event loop handles what is posted to it, and a program
\* whose loop has ended runs its deferred Close.
Fairness ==
  /\ \A g \in Gens : WF_vars(Task(g)) /\ WF_vars(HandleLoadMessage(g))
  /\ WF_vars(HostClose)

FairSpec == Spec /\ Fairness
-----------------------------------------------------------------------------
(* Properties. *)

\* Every open player has exactly one owner: the goroutine that has just opened
\* it, the audioLoad that waits for the UI, or AudioState; nothing else holds
\* one, and nothing that is held has been closed (audioLoad's comment: it "owns
\* a prepared player until the UI accepts it").
PlayerOwned ==
  \A g \in Gens :
    /\ player[g] \in Live <=> task[g] = "opened" \/ owned[g] \/ audioPlayer = g
    /\ ~(owned[g] /\ task[g] = "opened")
    /\ audioPlayer = g => ~owned[g] /\ task[g] # "opened"

\* Whatever loads race and fail, only the active track can be heard, and the
\* flag the interface shows says whether it is.
OneVoice ==
  /\ \A g \in Gens : player[g] = "playing" => audioPlayer = g
  /\ audioPlayer # Nil => (isPlaying <=> player[audioPlayer] = "playing")

\* activeGeneration names the active track, so a late accent, lyric or state
\* frame tagged with it is about the track being played, and the accent shown
\* was computed from that track's cover.
GenerationNamesTrack ==
  /\ audioPlayer # Nil => activeGeneration = audioPlayer
  /\ accent # Nil /\ ~exiting => accent = audioPlayer

\* The interface shows a load exactly while the newest one is on its way, and
\* only the newest is pending: no stale message ends it, none leaves it hanging.
Unfinished(g) ==
  \/ task[g] \in {"queued", "opening", "opened", "failed"}
  \/ \E m \in inbox : m.gen = g /\ m.kind # "accent"
LoadingIsNewest ==
  ~exiting => /\ loading <=> Unfinished(loadGeneration)
              /\ pendingLoad = IF loading THEN loadGeneration ELSE Nil

\* --seek moves the file of the command line and no other.
SeekInitialOnly == sought \subseteq {0}

Terminal == {"succeeded", "failed", "cancelled"}
LastAnswer(r) == answers[r][Len(answers[r])]

\* An open request is answered at most twice, with accepted first and one
\* terminal result after it; a refused one only fails (protocol.go: "Opening a
\* track first yields accepted, then one terminal result").
OneVerdict ==
  \A r \in Request :
    IF openedAs[r] = Nil THEN Len(answers[r]) <= 1
    ELSE /\ Len(answers[r]) \in 0 .. 2
         /\ Len(answers[r]) >= 1 => answers[r][1] = "accepted"
         /\ Len(answers[r]) = 2 => answers[r][2] \in Terminal

\* The answer is about the load the request started: succeeded means that track
\* was adopted, failed or cancelled that it never was.
VerdictIsTrue ==
  \A r \in Request :
    openedAs[r] # Nil /\ Len(answers[r]) = 2 =>
      LET g == openedAs[r] IN
      /\ LastAnswer(r) = "succeeded" => canceled[g] /\ player[g] \in {"playing", "paused", "closed"}
      /\ LastAnswer(r) \in {"failed", "cancelled"} => audioPlayer # g

\* A GUI can go by the answers to what it asks to open: in number, in order, and about its
\* own request (protocol.go, update_ipc.go).
VerdictsHold == OneVerdict /\ VerdictIsTrue

\* In deferred mode the current track stays until its replacement plays or the
\* program ends, and a replacement that fails leaves it as it was found.
DeferredKeepsTrack ==
  [][~Immediate /\ audioPlayer # Nil /\ ~exiting' =>
       /\ audioPlayer' # Nil
       /\ audioPlayer' # audioPlayer => player'[audioPlayer'] = "playing"]_vars

\* What becomes of each player, seen from outside: PlayerLifetime.
life == [g \in Gens |-> IF audioPlayer = g THEN "active"
                       ELSE IF player[g] \in Live \cup {"opening"} THEN "prepared"
                       ELSE player[g]]
Lifetime == INSTANCE PlayerLifetime WITH Track <- Gens

\* The loader implements PlayerLifetime: a player is prepared once, becomes the
\* active one at most once, in the order the tracks were asked for, and is closed
\* for good by the step that replaces it or gives it up.
LifetimeSafety == Lifetime!SafeSpec

\* No decoder is left behind: a player that is not the active one is closed in
\* the end, also when its message is never handled because the program stopped.
Released == \A g \in Gens : []<>(player[g] \in {"none", "closed"} \/ audioPlayer = g)

\* An accepted request gets its terminal result, unless its session or the
\* program ends first.
Answered ==
  \A request \in OpenRequest :
    ipcPendingOpen = request ~>
      (Len(answers[request.id]) = 2 \/ server # request.session \/ exiting)

\* Every load comes to its end, for the decoder it opened and for the GUI that asked
\* (audio_load.go: run, release; update_ipc.go).
LoadsEnd == Released /\ Answered
=============================================================================
