-------------------------------- MODULE Startup --------------------------------
\* The program from launch to exit (cmd/root.go, internal/startup): one event loop
\* that first runs the setup form and then the player, the window's session, settings
\* being saved, tracks dropped too early, and the media controller that is ready when
\* it is ready. How a player loads is TrackLoad's; here only whether it still does.
EXTENDS Wizard, Sequences

CONSTANTS
  MaxSession,            \* bound on the sessions of the window
  MaxRequest,            \* bound on what the window sends
  MaxQueue,              \* bound on the events waiting for the loop
  MaxDrop,               \* bound on the tracks dropped on the program
  MaxSave                \* bound on the saves under way at one time

ASSUME StartupAssumption ==
  {MaxSession, MaxRequest, MaxQueue, MaxDrop, MaxSave} \subseteq Nat

VARIABLES
  loop,                  \* the Bubble Tea program: running, quitting (with an exit code
                         \* when it is forced), ended, and exited or killed
  closed,                \* Model.closed
  hint,                  \* started by the window: there is an IPC server
  timer,                 \* the two-second wait for the window is running
  phase,
  session, guiNative, awaitGUI, pickerID,
  lastPhase, told,       \* lastPhase with phaseSession; what was sent, and to whom
  saving, saveError,
  save,                  \* the save commands: idle, running, ok or failed
  path, deferred,        \* there is a track to begin with; one was dropped too early
  player,                \* the embedded player, 0 before there is one
  open,                  \* the players made and not closed
  generation, loading,   \* the player's newest load, and whether it is under way
  results,               \* loads that will report
  mc,                    \* where the media controller is: still starting, held by the
                         \* host, used by the player, dropped with a player that was
                         \* replaced, late for a player that had closed, closed or lost
  server,                \* the server's session
  incoming,              \* its events for the loop
  sessions, requests, drops   \* what the bounds count

loopVars == <<loop, closed>>
windowVars == <<session, guiNative, awaitGUI, pickerID>>
toldVars == <<lastPhase, told>>
saveVars == <<saving, saveError, save>>
playerVars == <<path, deferred, player, open, generation, loading, results>>
serverVars == <<server, incoming>>
boundVars == <<hint, sessions, requests, drops>>
vars == <<wizardVars, loopVars, timer, phase, windowVars, toldVars, saveVars,
          playerVars, mc, serverVars, boundVars>>

Nobody == [phase |-> "none", session |-> 0]
Phases == {"starting", "wizard", "initial_loading", "ready"}
Saves == 1 .. MaxSave
Generation == 0 .. MaxDrop + MaxRequest

\* What a window sends. Left out are a greeting nobody knows, request_quit and the other
\* commands of a player, which are answered and change nothing here.
Requests ==
  [type : {"hello"}, native : BOOLEAN]
    \cup [type : {"picked"}, id : Question, status : {"selected", "cancelled"}]
    \cup [type : {"quit", "get_state", "open"}]

TypeOK ==
  /\ WizardTypeOK
  /\ loop \in {"running", "quitting", "forced", "ended", "failed", "exited", "killed"}
  /\ {closed, hint, timer, guiNative, awaitGUI, saving, saveError, path, deferred,
      loading} \subseteq BOOLEAN
  /\ phase \in Phases
  /\ {session, server, sessions} \subseteq 0 .. MaxSession
  /\ {lastPhase.phase, told.phase} \subseteq Phases \cup {"none"}
  /\ pickerID \in 0 .. MaxPick
  /\ save \in [Saves -> {"idle", "running", "ok", "failed"}]
  /\ open \in SUBSET (1 .. player)
  /\ generation \in Generation /\ results \in SUBSET Generation
  /\ mc \in {"starting", "held", "used", "dropped", "late", "closed", "lost"}
  /\ Len(incoming) <= MaxQueue

\* The program starts with or without settings, a track, and a window. Without
\* settings the form comes first, and in a window it waits for the window.
Init ==
  \E needsWizard \in BOOLEAN :
    /\ hint \in BOOLEAN
    /\ WizardInit(IF needsWizard THEN "icons" ELSE "none", hint)
    /\ loop = "running" /\ closed = FALSE
    /\ path \in BOOLEAN
    /\ awaitGUI = (needsWizard /\ hint) /\ timer = awaitGUI
    /\ phase = IF needsWizard THEN IF hint THEN "starting" ELSE "wizard"
               ELSE IF path THEN "initial_loading" ELSE "ready"
    /\ session = 0 /\ guiNative = FALSE /\ pickerID = 0
    /\ lastPhase = Nobody /\ told = Nobody
    /\ saving = FALSE /\ saveError = FALSE /\ save = [j \in Saves |-> "idle"]
    /\ deferred = FALSE
    /\ player = IF needsWizard THEN 0 ELSE 1
    /\ open = 1 .. player
    /\ generation = 0 /\ loading = (path /\ ~needsWizard)
    /\ results = IF loading THEN {0} ELSE {}
    /\ mc = "starting"
    /\ server = 0 /\ incoming = <<>>
    /\ sessions = 0 /\ requests = 0 /\ drops = 0

-------------------------------------------------------------------------------
Handles == loop \in {"running", "quitting", "forced"}
Gone == loop \in {"exited", "killed"}
Live == Handles /\ ~closed

\* tea.Quit; an exit code that was set stays.
Quitting == loop' = IF loop = "forced" THEN loop ELSE "quitting"
Setup == form # "none"

\* publishPhase: a send reaches the session it names or fails, and then nothing is
\* remembered as told.
Reached == session # 0 /\ session = server

Publish(force, now) ==
  LET news == [phase |-> now, session |-> session] IN
  IF Reached /\ (force \/ lastPhase # news)
    THEN lastPhase' = news /\ told' = news
    ELSE UNCHANGED toldVars

\* The player releases what it owns, the controller it took included (ui.Model.Close).
ClosePlayer ==
  /\ open' = open \ {player}
  /\ mc' = IF mc = "used" /\ player \in open THEN "closed" ELSE mc

\* A bug: Close leaves a controller that came during setup.
CloseAllButController ==
  /\ closed' = TRUE
  /\ open' = open \ {player}
  /\ mc' = IF mc = "used" /\ player \in open THEN "closed" ELSE mc
  /\ server' = 0

\* Model.Close: the current player, a controller not yet handed on, the server.
CloseAll ==
  /\ closed' = TRUE
  /\ open' = open \ {player}
  /\ mc' = IF mc = "held" \/ (mc = "used" /\ player \in open) THEN "closed" ELSE mc
  /\ server' = 0

-------------------------------------------------------------------------------
\* save(): the settings are written by a command of its own.
StartSave ==
  /\ saving' = TRUE
  /\ \E j \in Saves :
       /\ save[j] = "idle" /\ \A i \in 1 .. j - 1 : save[i] # "idle"
       /\ save' = [save EXCEPT ![j] = "running"]

SaveEnds(j) ==
  /\ ~Gone /\ save[j] = "running"
  /\ \E verdict \in {"ok", "failed"} : save' = [save EXCEPT ![j] = verdict]
  /\ UNCHANGED <<wizardVars, loopVars, timer, phase, windowVars, toldVars, saving,
                 saveError, playerVars, mc, serverVars, boundVars>>

\* The host hands on the controller it holds, once; a player that had taken it keeps it
\* when it is replaced, and nothing closes that player any more.
HandedOn == CASE mc = "held" -> "used" [] mc = "used" -> "dropped" [] OTHER -> mc

\* A bug: the player begins as loading whether or not it has a track.
ActivateLoading ==
  /\ Discard
  /\ path' = (path \/ deferred)
  /\ player' = player + 1
  /\ open' = open \cup {player + 1}
  /\ generation' = 0
  /\ loading' = path'
  /\ results' = IF path' THEN results \cup {0} ELSE results
  /\ mc' = HandedOn
  /\ phase' = "initial_loading"

\* activate: the player is made and given the size, the controller and the session the
\* host has. It begins with the track of the command line, else the one dropped.
Activate ==
  LET begins == path \/ deferred IN
  /\ Discard
  /\ path' = begins
  /\ player' = player + 1
  /\ open' = open \cup {player + 1}
  /\ generation' = 0
  /\ loading' = begins
  /\ results' = IF begins THEN results \cup {0} ELSE results
  /\ mc' = HandedOn
  /\ phase' = IF begins THEN "initial_loading" ELSE "ready"

\* settingsSaved: on to the player, or the form waits for another try.
SettingsSaved(j) ==
  /\ Live /\ save[j] \in {"ok", "failed"}
  /\ save' = [save EXCEPT ![j] = "idle"]
  /\ saving' = FALSE
  /\ IF save[j] = "ok"
       THEN Activate /\ Publish(FALSE, phase') /\ UNCHANGED <<saveError, deferred>>
       ELSE saveError' = TRUE /\ UNCHANGED <<wizardVars, phase, playerVars, toldVars, mc>>
  /\ UNCHANGED <<loopVars, timer, windowVars, serverVars, boundVars>>

\* Update's last part: a message goes to the form unless the settings are being saved.
\* A form it completes is saved, a form it cancels ends the program.
ToForm(step) ==
  IF saving
    THEN UNCHANGED <<wizardVars, saveVars, toldVars, loop>>
    ELSE /\ step
         /\ IF form' = "completed"
              THEN StartSave /\ UNCHANGED <<saveError, toldVars, loop>>
              ELSE /\ Publish(FALSE, phase)
                   /\ IF form' = "aborted" THEN Quitting ELSE UNCHANGED loop
                   /\ UNCHANGED saveVars

FormRest == UNCHANGED <<closed, timer, phase, windowVars, playerVars, mc, serverVars,
                        boundVars>>

\* While the window is awaited only Ctrl+C is a key.
PressKey(key) ==
  /\ Live /\ Setup /\ ~saveError
  /\ awaitGUI => key = "ctrl+c"
  /\ ToForm(FormKey(key)) /\ FormRest

\* After the settings could not be saved: Enter tries again, Escape ends the program.
PressRetry ==
  /\ Live /\ Setup /\ saveError
  /\ saveError' = FALSE
  /\ StartSave
  /\ UNCHANGED <<wizardVars, loop, toldVars>> /\ FormRest

PressGiveUp ==
  /\ Live /\ Setup /\ saveError
  /\ Quitting
  /\ UNCHANGED <<wizardVars, saveVars, toldVars>> /\ FormRest

\* A message that is no key goes to the form whatever is shown: a resize, a tick, a
\* command of the media keys. It changes no answer.
OtherMessage ==
  /\ Live /\ Setup
  /\ ToForm(UNCHANGED wizardVars) /\ FormRest

CompleteForm == Live /\ Setup /\ ToForm(FormEnds) /\ FormRest

\* While the settings are saved the message is lost, and a player has no use for it.
SelectionChecked(c) ==
  /\ Live
  /\ IF Setup /\ ~saving
       THEN ToForm(Checked(c))
       ELSE /\ checks' = checks \ {c}
            /\ IF Setup THEN UNCHANGED toldVars ELSE Publish(FALSE, phase)
            /\ UNCHANGED <<form, ending, pending, sequence, native, asks, probe, saveVars, loop>>
  /\ FormRest

\* PickFileMsg: the question goes to the window of this session; when it cannot be
\* sent it is answered here.
PickFile(id) ==
  /\ asks' = asks \ {id}
  /\ IF Setup /\ guiNative /\ session # 0 /\ PendingPicker(id)
       THEN IF Reached THEN pickerID' = id /\ UNCHANGED pending
                       ELSE pickerID' = 0 /\ pending' = 0
       ELSE UNCHANGED <<pickerID, pending>>

PickFileMsg(id) ==
  /\ Live /\ PickFile(id)
  /\ UNCHANGED <<form, ending, sequence, native, checks, probe, session, guiNative,
                 awaitGUI, loopVars, timer, phase, toldVars, saveVars, playerVars, mc,
                 serverVars, boundVars>>

\* A bug: a window that connected is waited for, though it may never say who it is.
WaitForConnected ==
  IF awaitGUI /\ session = 0
    THEN awaitGUI' = FALSE /\ phase' = "wizard"
    ELSE UNCHANGED <<awaitGUI, phase>>

\* guiWaitExpired: the window did not come in time, the form goes on in the terminal.
\* Like any other message it then reaches the form.
GiveUpWaiting ==
  IF awaitGUI THEN awaitGUI' = FALSE /\ phase' = "wizard"
              ELSE UNCHANGED <<awaitGUI, phase>>

WaitExpires ==
  /\ Live /\ timer
  /\ timer' = FALSE
  /\ GiveUpWaiting
  /\ IF Setup /\ form = "completed" /\ ~saving
       THEN StartSave /\ UNCHANGED <<saveError, toldVars>>
       ELSE /\ UNCHANGED saveVars
            /\ IF saving THEN UNCHANGED toldVars ELSE Publish(FALSE, phase')
  /\ UNCHANGED <<wizardVars, loopVars, session, guiNative, pickerID, playerVars,
                 mc, serverVars, boundVars>>

-------------------------------------------------------------------------------
\* The window's events, in order (startup/ipc.go). The phase is published after each.
Connected(s) ==
  IF s # server
    THEN UNCHANGED <<wizardVars, windowVars>> /\ Publish(FALSE, phase)
    ELSE /\ session' = s
         /\ guiNative' = FALSE
         /\ lastPhase' = [phase |-> phase, session |-> s] /\ told' = lastPhase'
         /\ UNCHANGED <<wizardVars, awaitGUI, pickerID>>

Disconnected(s) ==
  IF s # session
    THEN UNCHANGED <<wizardVars, windowVars>> /\ Publish(FALSE, phase)
    ELSE /\ session' = 0
         /\ guiNative' = FALSE
         /\ pickerID' = 0
         /\ IF Setup THEN SetGUI(FALSE) ELSE UNCHANGED wizardVars
         /\ UNCHANGED <<awaitGUI, toldVars>>

\* client_hello: the window says who it is and whether it has a chooser.
Hello(can) ==
  /\ guiNative' = can
  /\ IF Setup THEN awaitGUI' = FALSE /\ phase' = "wizard" /\ SetGUI(can)
              ELSE UNCHANGED <<awaitGUI, phase, wizardVars>>
  /\ UNCHANGED <<session, pickerID>>

\* file_picked: only the answer to the question this session was asked.
FilePicked(msg) ==
  /\ IF Setup /\ guiNative /\ pickerID # 0 /\ msg.id = pickerID
       THEN pickerID' = 0 /\ Answer(msg.id, msg.status)
       ELSE UNCHANGED <<pickerID, wizardVars>>
  /\ UNCHANGED <<session, guiNative, awaitGUI, phase>>

\* Before the player is ready the host ends itself, after that the player does.
Quit ==
  /\ Quitting
  /\ IF phase = "ready" THEN ClosePlayer /\ server' = 0 /\ UNCHANGED closed
                        ELSE CloseAll

\* A request of a session that is over is dropped. Only a ready player opens a track.
Request(s, msg) ==
  LET fresh == s = session /\ s = server IN
  /\ CASE fresh /\ msg.type = "hello" -> Hello(msg.native)
       [] fresh /\ msg.type = "picked" -> FilePicked(msg)
       [] OTHER -> UNCHANGED <<wizardVars, windowVars, phase>>
  /\ IF fresh /\ msg.type = "quit" THEN Quit
                                   ELSE UNCHANGED <<loopVars, open, mc, server>>
  /\ IF fresh /\ msg.type = "open" /\ phase = "ready" /\ player \in open
       THEN /\ generation' = generation + 1
            /\ loading' = TRUE
            /\ results' = results \cup {generation + 1}
       ELSE UNCHANGED <<generation, loading, results>>
  /\ IF fresh /\ msg.type = "quit"
       THEN UNCHANGED toldVars
       ELSE Publish(fresh /\ msg.type = "get_state" /\ phase # "ready", phase')
  /\ UNCHANGED <<path, deferred, player>>

IPCEvent ==
  /\ Live /\ incoming # <<>>
  /\ incoming' = Tail(incoming)
  /\ LET e == Head(incoming) IN
       IF e.kind = "request"
         THEN Request(e.session, e.msg)
         ELSE /\ IF e.kind = "connected" THEN Connected(e.session)
                                         ELSE Disconnected(e.session)
              /\ UNCHANGED <<phase, mc, server, loopVars, playerVars>>
  /\ UNCHANGED <<timer, saveVars, boundVars>>

\* The server, as IpcServer has it: the end of a session is reported before the next.
\* It is closed for good by whatever closes a player, or the host before there is one.
ServerOpen == hint /\ ~closed /\ ~Gone /\ open = 1 .. player

Report(event) ==
  /\ Len(incoming) < MaxQueue
  /\ incoming' = Append(incoming, event)
  /\ UNCHANGED <<wizardVars, loopVars, timer, phase, windowVars, toldVars, saveVars,
                 playerVars, mc, hint, drops>>

Connects ==
  /\ ServerOpen /\ server = 0 /\ sessions < MaxSession
  /\ sessions' = sessions + 1 /\ server' = sessions + 1
  /\ Report([kind |-> "connected", session |-> sessions + 1])
  /\ UNCHANGED requests

Disconnects ==
  /\ server # 0
  /\ server' = 0
  /\ Report([kind |-> "disconnected", session |-> server])
  /\ UNCHANGED <<sessions, requests>>

WindowSends ==
  /\ server # 0 /\ requests < MaxRequest
  /\ requests' = requests + 1
  /\ \E msg \in Requests :
       /\ msg.type = "picked" => msg.id \in {pickerID, sequence}
       /\ Report([kind |-> "request", session |-> server, msg |-> msg])
  /\ UNCHANGED <<server, sessions>>

-------------------------------------------------------------------------------
\* A track dropped on the program (ui.LoadTrackMsg): before there is a player it waits,
\* and the next one dropped takes its place. Closed players load nothing.
LoadTrack ==
  /\ Live /\ drops < MaxDrop
  /\ drops' = drops + 1
  /\ IF player = 0
       THEN deferred' = TRUE /\ UNCHANGED <<generation, loading, results, toldVars>>
       ELSE /\ IF player \in open
                 THEN /\ generation' = generation + 1
                      /\ loading' = TRUE
                      /\ results' = results \cup {generation + 1}
                 ELSE UNCHANGED <<generation, loading, results>>
            /\ Publish(FALSE, phase)
            /\ UNCHANGED deferred
  /\ UNCHANGED <<wizardVars, loopVars, timer, phase, windowVars, saveVars, path, player,
                 open, mc, serverVars, hint, sessions, requests>>

\* A load reports: its own end when it is the newest and the player has not closed,
\* nothing otherwise. With the first one over the player is ready.
PhaseAfter == IF phase = "initial_loading" /\ ~loading' THEN "ready" ELSE phase

LoadReports(g) ==
  /\ Handles /\ g \in results
  /\ results' = results \ {g}
  /\ loading' = (loading /\ (player \in open => g # generation))
  /\ IF closed THEN UNCHANGED <<phase, toldVars>>
               ELSE phase' = PhaseAfter /\ Publish(FALSE, phase')
  /\ UNCHANGED <<wizardVars, loopVars, timer, windowVars, saveVars, path, deferred,
                 player, open, generation, mc, serverVars, boundVars>>

\* The media controller is started beside the program, or could not be, and is sent to
\* the loop, which closes it when it comes after Close, and gives it to a player that
\* has closed as to any other: that one never closes it. Nothing receives it after the
\* loop.
MediaCtlReady ==
  /\ mc = "starting" /\ ~Gone
  /\ \/ mc' = "lost"
     \/ mc' = CASE ~Handles -> "lost"
                [] Handles /\ closed -> "closed"
                [] Live /\ player = 0 -> "held"
                [] Live /\ player \in open -> "used"
                [] OTHER -> "late"
  /\ UNCHANGED <<wizardVars, loopVars, timer, phase, windowVars, toldVars, saveVars,
                 playerVars, serverVars, boundVars>>

\* Keys and commands that end the player: it closes itself, then the loop ends.
PlayerQuits ==
  /\ Live /\ player \in open
  /\ ClosePlayer
  /\ server' = 0
  /\ Quitting
  /\ UNCHANGED <<wizardVars, closed, timer, phase, windowVars, toldVars, saveVars, path,
                 deferred, player, generation, loading, results, incoming, boundVars>>

\* :quit! leaves everything as it is, with an exit code.
ForceQuit ==
  /\ Live /\ player # 0 /\ ~Setup
  /\ loop' = "forced"
  /\ UNCHANGED <<wizardVars, closed, timer, phase, windowVars, toldVars, saveVars,
                 playerVars, mc, serverVars, boundVars>>

\* The loop ends after the quit message, or because the terminal fails.
LoopEnds ==
  /\ Handles
  /\ loop' = IF loop = "forced" THEN "failed" ELSE "ended"
  /\ UNCHANGED <<wizardVars, closed, timer, phase, windowVars, toldVars, saveVars,
                 playerVars, mc, serverVars, boundVars>>

\* runRoot returns: the host closes what is left, unless it has. With an exit code the
\* process ends at once, and the deferred Close with it.
Exit ==
  /\ loop \in {"ended", "failed"}
  /\ IF loop = "failed"
       THEN loop' = "killed" /\ UNCHANGED <<closed, open, mc, server>>
       ELSE /\ loop' = "exited"
            /\ IF closed THEN UNCHANGED <<closed, open, mc, server>> ELSE CloseAll
  /\ UNCHANGED <<wizardVars, timer, phase, windowVars, toldVars, saveVars, path, deferred,
                 player, generation, loading, results, incoming, boundVars>>

Next ==
  \/ \E key \in Keys : PressKey(key)
  \/ PressRetry \/ PressGiveUp \/ OtherMessage \/ CompleteForm
  \/ \E c \in checks : SelectionChecked(c)
  \/ \E id \in asks : PickFileMsg(id)
  \/ WaitExpires
  \/ \E j \in Saves : SaveEnds(j) \/ SettingsSaved(j)
  \/ IPCEvent \/ Connects \/ Disconnects \/ WindowSends
  \/ LoadTrack
  \/ \E g \in results : LoadReports(g)
  \/ MediaCtlReady
  \/ PlayerQuits \/ ForceQuit \/ LoopEnds \/ Exit

Spec == Init /\ [][Next]_vars

\* The clock, the disk and the loop go on, and the loop reads the quit message it was
\* sent; nobody owes a key, and the window owes no answer.
FairSpec ==
  /\ Spec
  /\ WF_vars(WaitExpires) /\ WF_vars(IPCEvent)
  /\ WF_vars(loop # "running" /\ LoopEnds)
  /\ \A j \in Saves : WF_vars(SaveEnds(j)) /\ WF_vars(SettingsSaved(j))
  /\ \A g \in Generation : WF_vars(LoadReports(g))
  /\ \A id \in Question : WF_vars(id \in asks /\ PickFileMsg(id))

-------------------------------------------------------------------------------
\* The window knows where the program is: the last phase its session was sent is the
\* phase, and it is the truth: a form or a player, and a first load that will report.
PhaseTold ==
  /\ Live /\ Reached => told = [phase |-> phase, session |-> session]
  /\ Setup <=> phase \in {"starting", "wizard"}
  /\ awaitGUI => phase = "starting"
  /\ phase = "initial_loading" /\ player \in open =>
       loading /\ generation \in results

\* A question that stops the keys of the form can still be answered: it is on its way
\* to the host, or with the window of this session, or its file is being looked at, or
\* the end of the session that has it is.
PendingAnswerable ==
  Live /\ form \in Fields /\ pending # 0 =>
    \/ pending \in asks
    \/ pending = pickerID /\ session # 0
    \/ \E c \in checks : c.id = pending

\* Window and form wait for each other only while there is something to wait for (ipc.go,
\* wizard/model.go). Every variable keeps its type meanwhile.
WindowInStep == TypeOK /\ PhaseTold /\ PendingAnswerable

\* On every way out the controller goes with its owner: one that the host holds, or that
\* the player took while it was open, is closed when the program is over, unless that
\* player was replaced ("dropped", as in PlayersReleased) or had cleaned up before it
\* came ("late"): those nobody closes.
ControllerReleased == loop = "exited" => mc \notin {"held", "used"}

\* Startup never hangs on the machine: the window is awaited for a time, and the first
\* load ends in a player that is ready, or the program is over.
StartupMoves ==
  phase \in {"starting", "initial_loading"} ~> (phase \in {"wizard", "ready"} \/ ~Live)

\* "Close releases owned playback resources on every host exit path." (ui/model.go)
PlayersReleased == loop = "exited" => open = {}
=============================================================================
