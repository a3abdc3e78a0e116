------------------------------ MODULE Playback ------------------------------
(***************************************************************************)
(* What the program says about playback: internal/ui keeps AudioState, and *)
(* tells it to the GUI (pushIPCState), to the overlay of desktop lyrics    *)
(* (handleTick) and to the desktop (internal/mediactl, MPRIS over D-Bus),  *)
(* each with its own idea of what is new; the user, the GUI and the        *)
(* desktop play, pause and seek.                                           *)
(*                                                                         *)
(* A message the event loop handles is one action and ends, as Update      *)
(* does, with a call of pushIPCState.  The player and the D-Bus connection *)
(* move on their own.  Time is in positions of a track: one step of Sound. *)
(***************************************************************************)
EXTENDS Integers, Sequences

CONSTANTS
  Length,      \* the last position of every track
  MaxTrack,    \* bound: tracks adopted
  Title,       \* the title and artist of each track; several may share them
  QueueCap,    \* bound: commands of D-Bus calls on the way to the loop
  MaxSession,  \* bound: sessions of the GUI
  MaxInput     \* bound: what the user, the GUI and the desktop ask for, together

ASSUME PlaybackAssumption ==
  /\ Length \in Nat \ {0} /\ MaxTrack \in Nat /\ QueueCap \in Nat \ {0}
  /\ MaxSession \in Nat /\ MaxInput \in Nat
  /\ DOMAIN Title = 0 .. MaxTrack

VARIABLES
  track,        \* the generation of the player, 0 without one
  generation,   \* tracks adopted so far
  pos, sounding, \* the player's position, and what its IsPlaying reports
  elapsed, isPlaying, \* AudioState.Elapsed and IsPlaying
  server,       \* the session the IPC server serves, 0 for none
  sessions,     \* sessions so far
  events,       \* its lifecycle events on the way to the loop
  session,      \* Model.ipcSession
  lastState,    \* ipcLastState
  sought,       \* seekRevision is not ipcLastSeekRevision
  recent,       \* the last push is less than 250 ms ago
  gui,          \* the last state frame sent to the session served
  desktop,      \* DesktopLyricsEnabled
  sentSig, sentElapsed, \* LastSentLyricSig and LastSentLyricElapsed
  lyricRecent,  \* the last lyrics frame is less than 33 ms ago
  overlay,      \* the last lyrics frame sent to the session served
  bus,          \* linuxController.conn and its reconnector
  os, trackSeq, \* linuxController.state and the number in trackID
  client,       \* what a client that follows the signals knows
  queue,        \* the commands of D-Bus calls on the way to the loop
  inputs

playerVars == <<track, generation, pos, sounding, elapsed, isPlaying>>
guiVars == <<lastState, sought, recent, gui>>
ipcVars == <<server, sessions, events, session>>
overlayVars == <<sentSig, sentElapsed, lyricRecent, overlay>>
osVars == <<os, trackSeq, client>>
busVars == <<bus, queue>>
vars == <<playerVars, guiVars, ipcVars, overlayVars, desktop, osVars, busVars, inputs>>

Position == 0 .. Length
Nothing == [track |-> -1, playing |-> FALSE, pos |-> 0]
Unsent == -1                       \* LastSentLyricSig = ""

\* buildPlayState, and the state frame: what there is to tell.
Told == [track |-> track, playing |-> isPlaying, pos |-> elapsed]

\* playbackStatus
Status(state) ==
  IF state.track = 0 THEN "Stopped" ELSE IF state.playing THEN "Playing" ELSE "Paused"

\* lyricSig: the lines around a position, whoever's they are; a line lasts two positions.
Sig(t, e) == IF t = 0 THEN 0 ELSE 1 + e \div 2

TypeOK ==
  LET State == [track : -1 .. MaxTrack, playing : BOOLEAN, pos : Position]
      Command == [type : {"setposition", "seek", "skip", "stop", "playpause"},
                  at : Position] IN
  /\ generation \in 0 .. MaxTrack /\ track \in {0, generation} /\ pos \in Position /\ elapsed \in Position
  /\ {sounding, isPlaying, sought, recent, desktop, lyricRecent} \subseteq BOOLEAN
  /\ sessions \in 0 .. MaxSession /\ server \in {0, sessions} /\ session \in 0 .. sessions
  /\ events \in Seq({"connected", "disconnected"} \X (1 .. MaxSession))
  /\ {lastState, gui, overlay, os} \subseteq State
  /\ sentSig \in -1 .. 1 + Length /\ sentElapsed \in Position
  /\ bus \in {"up", "down"} /\ trackSeq \in 0 .. 2 * MaxTrack
  /\ client \in [id : 0 .. 2 * MaxTrack, meta : -1 .. MaxTrack,
                 status : {"Stopped", "Playing", "Paused"}, pos : Position]
  /\ queue \in Seq(Command) /\ Len(queue) <= QueueCap
  /\ inputs \in 0 .. MaxInput

Init ==
  /\ track = 0 /\ generation = 0 /\ pos = 0 /\ sounding = FALSE /\ elapsed = 0 /\ isPlaying = FALSE
  /\ server = 0 /\ sessions = 0 /\ events = <<>> /\ session = 0
  /\ lastState = Nothing /\ sought = FALSE /\ recent = FALSE /\ gui = Nothing
  /\ desktop \in BOOLEAN
  /\ sentSig = Unsent /\ sentElapsed = 0 /\ lyricRecent = FALSE /\ overlay = Nothing
  /\ bus = "up" /\ os = [Nothing EXCEPT !.track = 0] /\ trackSeq = 0
  /\ client = [id |-> 0, meta |-> 0, status |-> "Stopped", pos |-> 0]
  /\ queue = <<>>
  /\ inputs = 0

-----------------------------------------------------------------------------
(* Telling the GUI and the desktop. *)

PushForgetsSeeks(s, force, seek) ==
  LET new == Told'
      discrete == [new EXCEPT !.pos = lastState.pos] = lastState IN
  IF \/ s = 0 \/ server # s
     \/ (~force /\ (new = lastState \/ (discrete /\ recent)))
  THEN sought' = seek /\ UNCHANGED <<lastState, recent, gui>>
  ELSE lastState' = new /\ gui' = new /\ recent' = TRUE /\ sought' = FALSE
PushRemembersUnsent(s, force, seek) ==
  LET new == Told'
      discrete == [new EXCEPT !.pos = lastState.pos] = lastState IN
  IF s = 0 \/ server # s
  THEN sought' = seek /\ UNCHANGED <<lastState, recent, gui>>
  ELSE IF ~force /\ ~seek /\ (new = lastState \/ (discrete /\ recent))
  THEN sought' = seek /\ lastState' = new /\ UNCHANGED <<recent, gui>>
  ELSE lastState' = new /\ gui' = new /\ recent' = TRUE /\ sought' = FALSE
\* pushIPCState: nothing new is not sent, and a new position alone waits for 250 ms
\* unless a seek made it.  SendTo refuses a session that is not served any more, and
\* then nothing is remembered.
PushTo(s, force, seek) ==
  LET new == Told'
      discrete == [new EXCEPT !.pos = lastState.pos] = lastState IN
  IF \/ s = 0 \/ server # s
     \/ (~force /\ ~seek /\ (new = lastState \/ (discrete /\ recent)))
  THEN sought' = seek /\ UNCHANGED <<lastState, recent, gui>>
  ELSE lastState' = new /\ gui' = new /\ recent' = TRUE /\ sought' = FALSE

PushState(force, seek) == PushTo(session, force, seek)

\* linuxController.Update: signals what differs from the state before, and a track
\* differs if its title or artist does.  Nothing happens without a connection.
Publish ==
  LET same == Title[os.track] = Title[track'] IN
  IF bus # "up" THEN UNCHANGED osVars
  ELSE /\ os' = Told'
       /\ trackSeq' = IF same THEN trackSeq ELSE trackSeq + 1
       /\ client' = [id |-> IF same THEN client.id ELSE trackSeq',
                     meta |-> IF same THEN client.meta ELSE track',
                     status |-> IF same /\ Status(os') = Status(os) THEN client.status ELSE Status(os'),
                     pos |-> IF elapsed' = os.pos THEN client.pos ELSE elapsed']

-----------------------------------------------------------------------------
(* The player, on its own. *)

Sound ==
  /\ sounding /\ pos < Length
  /\ pos' = pos + 1
  /\ UNCHANGED <<track, generation, sounding, elapsed, isPlaying, guiVars, ipcVars, overlayVars, desktop, osVars,
                 busVars, inputs>>

-----------------------------------------------------------------------------
(* Operations on AudioState. *)

Ask == inputs < MaxInput /\ inputs' = inputs + 1
\* The first track is free.
AskTrack == generation < MaxTrack /\ IF generation = 0 THEN UNCHANGED inputs ELSE Ask

\* SetPlaying: the flag is what the player reports; Play may fail.
SetPlaying(playing) ==
  /\ sounding' \in IF playing /\ ~sounding THEN BOOLEAN ELSE {playing}
  /\ isPlaying' = sounding'
  /\ UNCHANGED <<track, generation, pos, elapsed>>

\* SeekPlayer, after the caller has clamped the position.
SeekPlayer(to) ==
  /\ pos' = to /\ elapsed' = to
  /\ UNCHANGED <<track, generation, sounding, isPlaying>>
Clamped(p) == IF p < 0 THEN 0 ELSE IF p > Length THEN Length ELSE p

-----------------------------------------------------------------------------
(* The event loop: what the user and the GUI ask for. *)

\* The play key, :p, and the requests play, pause and play_pause.
Toggle ==
  /\ Ask /\ track # 0
  /\ SetPlaying(~sounding)
  /\ PushState(FALSE, sought)
  /\ UNCHANGED <<ipcVars, overlayVars, desktop, osVars, busVars>>

\* The seek keys, :seek, SeekMsg and the request seek; a decoder may refuse.
Seek(to) ==
  /\ Ask /\ track # 0
  /\ \/ SeekPlayer(to) /\ PushState(FALSE, TRUE)
     \/ UNCHANGED playerVars /\ PushState(FALSE, sought)
  /\ UNCHANGED <<ipcVars, overlayVars, desktop, osVars, busVars>>

\* handleLoadTrack in immediate mode: the track is closed before its successor opens.
Unload ==
  /\ track # 0 /\ AskTrack
  /\ track' = 0 /\ UNCHANGED generation /\ pos' = 0 /\ sounding' = FALSE /\ elapsed' = 0 /\ isPlaying' = FALSE
  /\ Publish
  /\ PushState(FALSE, sought)
  /\ UNCHANGED <<ipcVars, overlayVars, desktop, busVars>>

\* The first track may begin elsewhere (--seek): a seek of its own, unless it is refused.
Begins == IF generation = 0 THEN Position ELSE {0}
Start(from) ==
  /\ generation' = generation + 1 /\ track' = generation' /\ sounding' = TRUE /\ isPlaying' = TRUE
  /\ pos' = from /\ elapsed' = from
  /\ Publish
  /\ PushState(FALSE, sought \/ from > 0)

AdoptKeepingSig ==
  /\ AskTrack
  /\ \E from \in Begins : Start(from)
  /\ UNCHANGED <<ipcVars, overlayVars, desktop, busVars>>
\* handleAudioLoaded, for a track that plays.
Adopt ==
  /\ AskTrack
  /\ \E from \in Begins : Start(from)
  /\ sentSig' = Unsent
  /\ UNCHANGED <<sentElapsed, lyricRecent, overlay, ipcVars, desktop, busVars>>


\* The request get_state.
GetState ==
  /\ Ask /\ session # 0 /\ server = session
  /\ UNCHANGED playerVars
  /\ PushState(TRUE, sought)
  /\ UNCHANGED <<ipcVars, overlayVars, desktop, osVars, busVars>>

\* setDesktopLyricsEnabled: a new subscription needs a snapshot.
SetDesktopLyrics(enabled) ==
  /\ Ask
  /\ desktop' = enabled
  /\ sentSig' = IF enabled THEN Unsent ELSE sentSig
  /\ UNCHANGED playerVars
  /\ PushState(FALSE, sought)
  /\ UNCHANGED <<sentElapsed, lyricRecent, overlay, ipcVars, osVars, busVars>>

-----------------------------------------------------------------------------
(* The event loop: ticks and sessions. *)

\* handleTick sends the lyrics when the lines changed, and progress at most every
\* 33 ms; SendJSON has no one to send to without a session, and nobody minds.
PushLyrics ==
  LET sig == Sig(track, elapsed') IN
  IF desktop /\ (sig # sentSig \/ (elapsed' # sentElapsed /\ ~lyricRecent))
  THEN /\ sentSig' = sig /\ sentElapsed' = elapsed' /\ lyricRecent' = TRUE
       /\ overlay' = IF server = 0 THEN overlay ELSE Told'
  ELSE UNCHANGED overlayVars

\* UpdatePosition, MediaCtl.Update, the lyrics.
HandleTick ==
  /\ elapsed' = IF track = 0 THEN elapsed ELSE pos
  /\ UNCHANGED <<track, generation, pos, sounding, isPlaying>>
  /\ Publish
  /\ PushLyrics
  /\ PushState(FALSE, sought)
  /\ UNCHANGED <<ipcVars, desktop, busVars, inputs>>

\* Time passes since the last frames.
LyricTime ==
  /\ lyricRecent /\ lyricRecent' = FALSE
  /\ UNCHANGED <<playerVars, guiVars, ipcVars, sentSig, sentElapsed, overlay, desktop, osVars, busVars, inputs>>
StateTime ==
  /\ recent /\ recent' = FALSE
  /\ UNCHANGED <<playerVars, lastState, sought, gui, ipcVars, overlayVars, desktop, osVars, busVars, inputs>>

\* The IPC server serves a session after another; frames to the one before are gone.
Connect ==
  /\ server = 0
  /\ sessions < MaxSession
  /\ sessions' = sessions + 1 /\ server' = sessions'
  /\ events' = Append(events, <<"connected", sessions'>>)
  /\ UNCHANGED <<playerVars, guiVars, session, overlayVars, desktop, osVars, busVars, inputs>>
Disconnect ==
  /\ server # 0
  /\ events' = Append(events, <<"disconnected", server>>)
  /\ server' = 0 /\ gui' = Nothing /\ overlay' = Nothing
  /\ UNCHANGED <<playerVars, lastState, sought, recent, sessions, session, sentSig, sentElapsed, lyricRecent, desktop, osVars,
                 busVars, inputs>>

\* handleIPCEvent: a session that ended meanwhile is not taken up.
HandleEvent ==
  /\ events # <<>>
  /\ events' = Tail(events)
  /\ LET kind == Head(events)[1]  s == Head(events)[2]
         taken == kind = "connected" /\ s = server IN
     /\ session' = IF taken THEN s
                   ELSE IF kind = "disconnected" /\ s = session THEN 0 ELSE session
     /\ sentSig' = IF taken THEN Unsent ELSE sentSig
     /\ UNCHANGED <<playerVars, server, sessions>>
     /\ PushTo(session', taken, sought)
  /\ UNCHANGED <<sentElapsed, lyricRecent, overlay, desktop, osVars, busVars, inputs>>

-----------------------------------------------------------------------------
(* The desktop: D-Bus calls, the connection, and the commands in the loop. *)

\* A method of mprisPlayerObj, called by a client of what it knows: its command waits
\* in the call, in cmdChan or in the bridge to the loop.
Call(command) ==
  /\ Ask /\ bus = "up" /\ Len(queue) < QueueCap
  /\ queue' = Append(queue, command)
  /\ UNCHANGED <<playerVars, guiVars, ipcVars, overlayVars, desktop, osVars, bus>>
CallMethod ==
  \E type \in {"seek", "skip", "stop", "playpause"} : Call([type |-> type, at |-> 0])

\* SetPosition: ignored unless it names the track (validSetPosition).
CallSetPosition(p) ==
  client.id = trackSeq /\ Call([type |-> "setposition", at |-> p])

\* handleMediaCtlCmd.  Only the seeks publish at once; a stop seeks the player itself
\* and leaves the position shown to the next tick.
HandleMediaCtlCmd ==
  /\ queue # <<>>
  /\ queue' = Tail(queue)
  /\ LET command == Head(queue) IN
     IF track = 0
     THEN UNCHANGED <<playerVars, osVars>> /\ PushState(FALSE, sought)
     ELSE CASE command.type = "playpause" ->
                 SetPlaying(~sounding) /\ PushState(FALSE, sought) /\ UNCHANGED osVars
            [] command.type = "stop" ->
                 /\ sounding' = FALSE /\ isPlaying' = FALSE /\ pos' \in {0, pos}
                 /\ UNCHANGED <<track, generation, elapsed, osVars>>
                 /\ PushState(FALSE, sought)
            [] command.type \in {"seek", "skip"} ->
                 /\ \/ /\ \E delta \in {-1, 1} : SeekPlayer(Clamped(pos + delta))
                       /\ PushState(FALSE, TRUE)
                    \/ UNCHANGED playerVars /\ PushState(FALSE, sought)
                 /\ IF command.type = "seek" THEN Publish ELSE UNCHANGED osVars
            [] OTHER ->
                 /\ \/ SeekPlayer(command.at) /\ PushState(FALSE, TRUE)
                    \/ UNCHANGED playerVars /\ PushState(FALSE, sought)
                 /\ Publish
  /\ UNCHANGED <<ipcVars, overlayVars, desktop, bus, inputs>>

\* The session bus goes away; reconnectLoop dials until it is
\* back.  A client starts over with what GetAll answers.
BusLost ==
  /\ bus = "up" /\ bus' = "down"
  /\ UNCHANGED <<playerVars, guiVars, ipcVars, overlayVars, desktop, osVars, queue, inputs>>
Reconnect ==
  /\ bus = "down" /\ bus' = "up"
  /\ client' = [id |-> trackSeq, meta |-> os.track, status |-> Status(os), pos |-> os.pos]
  /\ UNCHANGED <<playerVars, guiVars, ipcVars, overlayVars, desktop, os, trackSeq, queue, inputs>>

Next ==
  \/ Sound \/ Toggle \/ Unload \/ Adopt \/ GetState \/ HandleTick \/ LyricTime \/ StateTime
  \/ \E p \in Position : Seek(p) \/ CallSetPosition(p)
  \/ \E enabled \in BOOLEAN : SetDesktopLyrics(enabled)
  \/ Connect \/ Disconnect \/ HandleEvent
  \/ CallMethod \/ HandleMediaCtlCmd \/ BusLost \/ Reconnect

Spec == Init /\ [][Next]_vars

\* The loop ticks and handles what it is sent, and time passes.
Fairness ==
  WF_vars(HandleTick) /\ WF_vars(HandleEvent) /\ WF_vars(HandleMediaCtlCmd) /\ WF_vars(StateTime)

FairSpec == Spec /\ Fairness

-----------------------------------------------------------------------------
(* Properties. *)

Served == session # 0 /\ server = session

\* The GUI that is served and was taken up has been told, after every message the
\* loop handled, of the track and of whether it sounds, and of every seek: no press
\* of a key waits for a timer.
GuiTold == Served => gui.track = track /\ gui.playing = sounding /\ ~sought

\* A client of the desktop that follows the signals, and reads everything again when
\* the bus comes back, knows what the controller would answer if it asked: the status,
\* the position, the identifier, and the title.
ClientHears ==
  bus = "up" => /\ client.id = trackSeq /\ client.status = Status(os) /\ client.pos = os.pos
                /\ Title[client.meta] = Title[os.track]

\* Everybody who follows the player has heard of what it does (ipc_state.go,
\* controller_linux.go). Every variable keeps its type meanwhile.
ListenersTold == TypeOK /\ GuiTold /\ ClientHears

\* After every tick the overlay of a GUI that asked for lyrics shows the line and the
\* track of the moment, although frames go out only when something changed: a new
\* session, a new subscription and a new track each start over.
OverlayFollows ==
  [][HandleTick /\ Served /\ desktop =>
       /\ overlay'.track = track
       /\ Sig(overlay'.track, overlay'.pos) = Sig(track, elapsed')
       /\ (overlay'.pos = elapsed' \/ lyricRecent)]_vars

\* Throttling delays a position and never swallows one: the GUI, and the desktop while
\* there is a bus, catch up with the program, also when it is paused at once.
CatchUp ==
  /\ (Served /\ gui.pos # elapsed) ~> (~Served \/ gui.pos = elapsed)
  /\ (bus = "up" /\ os # Told) ~> (bus # "up" \/ os = Told)
=============================================================================
