--------------------------- MODULE PlaybackProofs ---------------------------
(***************************************************************************)
(* Theorems about Playback, for tracks of any length and any titles, any   *)
(* number of sessions, inputs and commands in the queue.                   *)
(***************************************************************************)
EXTENDS Playback, TLAPS

State == [track : -1 .. MaxTrack, playing : BOOLEAN, pos : Position]
Command == [type : {"setposition", "seek", "skip", "stop", "playpause"}, at : Position]
Client == [id : 0 .. 2 * MaxTrack, meta : -1 .. MaxTrack,
           status : {"Stopped", "Playing", "Paused"}, pos : Position]
Event == {"connected", "disconnected"} \X (1 .. MaxSession)

-----------------------------------------------------------------------------
(* The inductive invariant, of one conjunct per party that follows the     *)
(* player.                                                                 *)

\* AudioState's flag is what the player reports.
PlayerSide ==
  /\ generation \in 0 .. MaxTrack /\ track \in {0, generation}
  /\ pos \in Position /\ elapsed \in Position
  /\ sounding \in BOOLEAN /\ isPlaying = sounding

SessionSide ==
  /\ sessions \in 0 .. MaxSession /\ server \in {0, sessions} /\ session \in 0 .. sessions
  /\ events \in Seq(Event)

\* What pushIPCState remembers having sent is what the session served was sent, and only
\* the position in it may be old.
GuiSide ==
  /\ lastState \in State /\ gui \in State /\ sought \in BOOLEAN /\ recent \in BOOLEAN
  /\ Served => /\ gui = lastState /\ ~sought
               /\ lastState.track = track /\ lastState.playing = isPlaying

\* The signature kept is the one of the frame the overlay shows. A frame of another
\* track than the one that plays may be kept only while one of the two is none.
OverlaySide ==
  /\ overlay \in State /\ sentSig \in -1 .. 1 + Length /\ sentElapsed \in Position
  /\ lyricRecent \in BOOLEAN /\ desktop \in BOOLEAN
  /\ Served /\ sentSig # Unsent =>
       /\ overlay.pos = sentElapsed /\ Sig(overlay.track, overlay.pos) = sentSig
       /\ overlay.track # 0 /\ track # 0 => overlay.track = track

\* A track is counted when it comes and when it goes: what the controller has not been
\* told yet is still ahead of its counter.
DesktopSide ==
  /\ os \in State /\ client \in Client /\ bus \in {"up", "down"}
  /\ trackSeq \in Nat
  /\ trackSeq + (IF os.track = track THEN 0 ELSE 1) <= 2 * generation - (IF track = 0 THEN 0 ELSE 1)
  /\ ClientHears

InputSide ==
  /\ queue \in Seq(Command) /\ Len(queue) <= QueueCap
  /\ inputs \in 0 .. MaxInput

IInv == PlayerSide /\ SessionSide /\ GuiSide /\ OverlaySide /\ DesktopSide /\ InputSide

LEMMA TypesHold ==
  ASSUME IInv
  PROVE  TypeOK
<1>1. trackSeq \in 0 .. 2 * MaxTrack
  BY PlaybackAssumption DEF IInv, DesktopSide, PlayerSide
<1>2. {sounding, isPlaying, sought, recent, desktop, lyricRecent} \subseteq BOOLEAN
  BY DEF IInv, PlayerSide, GuiSide, OverlaySide
<1>3. {lastState, gui, overlay, os} \subseteq State
  BY DEF IInv, GuiSide, OverlaySide, DesktopSide
<1>4. events \in Seq({"connected", "disconnected"} \X (1 .. MaxSession))
  BY DEF IInv, SessionSide, Event
<1>5. queue \in Seq([type : {"setposition", "seek", "skip", "stop", "playpause"}, at : Position])
  BY DEF IInv, InputSide, Command
<1>6. client \in [id : 0 .. 2 * MaxTrack, meta : -1 .. MaxTrack,
                  status : {"Stopped", "Playing", "Paused"}, pos : Position]
  BY DEF IInv, DesktopSide, Client
<1>7. /\ generation \in 0 .. MaxTrack /\ track \in {0, generation}
      /\ pos \in Position /\ elapsed \in Position
      /\ sessions \in 0 .. MaxSession /\ server \in {0, sessions} /\ session \in 0 .. sessions
      /\ sentSig \in -1 .. 1 + Length /\ sentElapsed \in Position
      /\ bus \in {"up", "down"} /\ Len(queue) <= QueueCap /\ inputs \in 0 .. MaxInput
  BY DEF IInv, PlayerSide, SessionSide, OverlaySide, DesktopSide, InputSide
<1> QED BY <1>1, <1>2, <1>3, <1>4, <1>5, <1>6, <1>7 DEF TypeOK, State

-----------------------------------------------------------------------------
(* The operations that tell somebody. *)

\* What there is to tell is a state, whatever the message did to the player.
LEMMA ToldType == PlayerSide => Told \in State
BY PlaybackAssumption DEF PlayerSide, Told, State

\* A line has the number of a line, and only no track has none.
LEMMA SigType ==
  ASSUME NEW t \in -1 .. MaxTrack, NEW e \in Position
  PROVE  Sig(t, e) \in 0 .. 1 + Length /\ (Sig(t, e) = 0 <=> t = 0)
BY PlaybackAssumption DEF Sig, Position

LEMMA StatusType == \A s \in State : Status(s) \in {"Stopped", "Playing", "Paused"}
BY DEF Status

\* pushIPCState leaves a session that is served with nothing to hear but a position,
\* if it was so before or if the push is forced.
LEMMA PushTells ==
  ASSUME NEW s, NEW force \in BOOLEAN, NEW seek \in BOOLEAN,
         lastState \in State, gui \in State, recent \in BOOLEAN, PlayerSide',
         PushTo(s, force, seek), server' = server, session' = s,
         s # 0 /\ server = s => force \/ gui = lastState
  PROVE  GuiSide'
<1> DEFINE same == [Told' EXCEPT !.pos = lastState.pos] = lastState
           kept == \/ s = 0 \/ server # s
                   \/ ~force /\ ~seek /\ (Told' = lastState \/ (same /\ recent))
<1>1. (Told \in State)'
  BY ToldType, PTL
<1>2. Told'.track = track' /\ Told'.playing = isPlaying'
  BY DEF Told
<1>3. same => lastState.track = track' /\ lastState.playing = isPlaying'
  BY <1>1, <1>2 DEF State
<1>4. CASE kept
  <2>1. sought' = seek /\ UNCHANGED <<lastState, recent, gui>>
    BY <1>4 DEF PushTo
  <2>2. Served' => lastState.track = track' /\ lastState.playing = isPlaying' /\ ~seek /\ ~force
    BY <1>2, <1>3, <1>4 DEF Served
  <2> QED BY <2>1, <2>2 DEF GuiSide, Served
<1>5. CASE ~kept
  <2>1. lastState' = Told' /\ gui' = Told' /\ recent' = TRUE /\ sought' = FALSE
    BY <1>5 DEF PushTo
  <2> QED BY <1>1, <1>2, <2>1 DEF GuiSide
<1> QED BY <1>4, <1>5

\* The usual push, at the end of an Update that leaves the sessions alone.
LEMMA PushStateTells ==
  ASSUME IInv, PlayerSide', UNCHANGED ipcVars,
         \/ PushState(FALSE, sought) \/ PushState(FALSE, TRUE) \/ PushState(TRUE, sought)
  PROVE  GuiSide'
<1>1. /\ lastState \in State /\ gui \in State /\ recent \in BOOLEAN /\ sought \in BOOLEAN
      /\ server' = server /\ session' = session
      /\ session # 0 /\ server = session => gui = lastState
  BY DEF IInv, GuiSide, Served, ipcVars
<1>2. CASE PushState(FALSE, sought)
  BY <1>1, <1>2, PushTells DEF PushState
<1>3. CASE PushState(FALSE, TRUE)
  BY <1>1, <1>3, PushTells DEF PushState
<1>4. CASE PushState(TRUE, sought)
  BY <1>1, <1>4, PushTells DEF PushState
<1> QED BY <1>2, <1>3, <1>4

\* A track that stays, one that goes and one that comes.
Turn ==
  \/ UNCHANGED <<track, generation>>
  \/ track # 0 /\ track' = 0 /\ generation' = generation
  \/ generation' = generation + 1 /\ track' = generation'

LEMMA CountUp ==
  ASSUME NEW n \in Nat, NEW g \in Nat, NEW d \in {0, 1}, NEW e \in {0, 1},
         n + d <= 2 * g - e, NEW m \in {n, n + d}
  PROVE  m \in Nat /\ m <= 2 * g - e /\ m + 0 <= 2 * g - e /\ (g <= MaxTrack => m <= 2 * MaxTrack)
BY PlaybackAssumption

\* What linuxController.Update signals is enough for a client that knew the state before,
\* and its counter of tracks does not overtake theirs.
LEMMA PublishTells ==
  ASSUME IInv, PlayerSide', Turn, Publish \/ UNCHANGED osVars, bus' = bus
  PROVE  DesktopSide'
<1>0. /\ os \in State /\ client \in Client /\ bus \in {"up", "down"} /\ trackSeq \in Nat
      /\ trackSeq + (IF os.track = track THEN 0 ELSE 1)
           <= 2 * generation - (IF track = 0 THEN 0 ELSE 1)
      /\ generation \in Nat /\ generation <= MaxTrack /\ track \in {0, generation}
      /\ generation' \in Nat /\ generation' <= MaxTrack /\ MaxTrack \in Nat /\ ClientHears
  BY PlaybackAssumption DEF IInv, DesktopSide, PlayerSide
<1> DEFINE due == IF track = 0 THEN 0 ELSE 1
           ahead(t) == IF os.track = t THEN 0 ELSE 1
<1>a. /\ ahead(track) \in {0, 1} /\ ahead(track') \in {0, 1}
      /\ due \in {0, 1} /\ due' \in {0, 1}
      /\ trackSeq + ahead(track) <= 2 * generation - due
  BY <1>0
<1>b. \/ track' = track /\ generation' = generation
      \/ due = 1 /\ due' = 0 /\ generation' = generation
      \/ generation' = generation + 1 /\ due' = 1
  BY <1>0 DEF Turn
<1>c. track' = track => due' = due /\ ahead(track') = ahead(track)
  OBVIOUS
<1>d. trackSeq + ahead(track') <= 2 * generation' - due'
  <2> HIDE DEF due, ahead
  <2> QED BY <1>0, <1>a, <1>b, <1>c
<1>1. CASE UNCHANGED osVars
  <2>1. trackSeq + (IF os.track = track' THEN 0 ELSE 1)
          <= 2 * generation' - (IF track' = 0 THEN 0 ELSE 1)
    BY <1>d
  <2> QED BY <1>0, <1>1, <2>1 DEF DesktopSide, ClientHears, osVars
<1>2. CASE Publish /\ bus # "up"
  <2>1. UNCHANGED osVars
    BY <1>2 DEF Publish
  <2> QED BY <1>1, <2>1
<1>3. CASE Publish /\ bus = "up"
  <2> DEFINE same == Title[os.track] = Title[track']
  <2>1. /\ os' = Told'
        /\ trackSeq' = IF same THEN trackSeq ELSE trackSeq + 1
        /\ client' = [id |-> IF same THEN client.id ELSE trackSeq',
                      meta |-> IF same THEN client.meta ELSE track',
                      status |-> IF same /\ Status(os') = Status(os) THEN client.status
                                 ELSE Status(os'),
                      pos |-> IF elapsed' = os.pos THEN client.pos ELSE elapsed']
    BY <1>3 DEF Publish
  <2>2. os' \in State /\ os'.track = track' /\ os'.pos = elapsed'
    <3>1. (Told \in State)'
      BY ToldType, PTL
    <3> QED BY <2>1, <3>1 DEF Told
  <2>3. trackSeq' \in {trackSeq, trackSeq + ahead(track')}
    <3>1. CASE same
      BY <2>1, <3>1
    <3>2. CASE ~same
      <4>1. ahead(track') = 1
        BY <3>2
      <4>2. trackSeq' = trackSeq + 1
        BY <2>1, <3>2
      <4> QED BY <4>1, <4>2
    <3> QED BY <3>1, <3>2
  <2>4. /\ trackSeq' \in Nat
        /\ trackSeq' + 0 <= 2 * generation' - due'
        /\ trackSeq' <= 2 * MaxTrack
    <3>1. trackSeq \in Nat /\ generation' \in Nat /\ generation' <= MaxTrack
      BY <1>0
    <3> HIDE DEF due, ahead
    <3> QED BY <1>a, <1>d, <2>3, <3>1, CountUp
  <2>5. trackSeq' \in 0 .. 2 * MaxTrack
    BY <1>0, <2>4
  <2>6. Status(os') \in {"Stopped", "Playing", "Paused"}
    BY <2>2, StatusType
  <2>7. elapsed' \in Position /\ track' \in -1 .. MaxTrack
    BY <1>0 DEF PlayerSide
  <2>8. client' \in Client
    BY <1>0, <2>1, <2>5, <2>6, <2>7 DEF Client
  <2>9. ClientHears'
    BY <1>0, <1>3, <2>1, <2>2 DEF ClientHears
  <2>10. trackSeq' + (IF os'.track = track' THEN 0 ELSE 1) <= 2 * generation' - due'
    BY <2>2, <2>4
  <2> QED BY <1>0, <2>2, <2>4, <2>8, <2>9, <2>10 DEF DesktopSide
<1> QED BY <1>1, <1>2, <1>3

\* What a signature says survives a track that goes, and a tick brings it up to date.
LEMMA LyricsTell ==
  ASSUME IInv, PlayerSide', UNCHANGED ipcVars, UNCHANGED desktop,
         \/ UNCHANGED overlayVars /\ track' \in {0, track}
         \/ sentSig' = Unsent /\ UNCHANGED <<sentElapsed, lyricRecent, overlay>>
         \/ PushLyrics /\ track' = track
  PROVE  OverlaySide'
<1>0. /\ overlay \in State /\ sentSig \in -1 .. 1 + Length /\ sentElapsed \in Position
      /\ lyricRecent \in BOOLEAN /\ desktop' \in BOOLEAN
      /\ Served' <=> Served
      /\ elapsed' \in Position /\ track' \in -1 .. MaxTrack
  BY PlaybackAssumption DEF IInv, OverlaySide, PlayerSide, Served, ipcVars
<1>1. CASE UNCHANGED overlayVars /\ track' \in {0, track}
  BY <1>0, <1>1 DEF IInv, OverlaySide, overlayVars
<1>2. CASE sentSig' = Unsent /\ UNCHANGED <<sentElapsed, lyricRecent, overlay>>
  BY <1>0, <1>2, PlaybackAssumption DEF OverlaySide, Unsent
<1>3. CASE PushLyrics /\ track' = track
  <2>1. CASE UNCHANGED overlayVars
    BY <1>1, <1>3, <2>1
  <2>2. CASE ~ UNCHANGED overlayVars
    <3>1. /\ sentSig' = Sig(track, elapsed') /\ sentElapsed' = elapsed' /\ lyricRecent' = TRUE
          /\ overlay' = IF server = 0 THEN overlay ELSE Told'
      BY <1>3, <2>2 DEF PushLyrics
    <3>2. (Told \in State)'
      BY ToldType, PTL
    <3>3. sentSig' \in -1 .. 1 + Length
      <4>1. Sig(track, elapsed') \in 0 .. 1 + Length
        BY <1>0, <1>3, SigType
      <4> QED BY <3>1, <4>1, PlaybackAssumption
    <3>4. Served => server # 0
      BY DEF Served
    <3>5. Served => overlay'.pos = elapsed' /\ overlay'.track = track'
      BY <3>1, <3>4 DEF Told
    <3>6. overlay' \in State
      BY <1>0, <3>1, <3>2
    <3> QED BY <1>0, <1>3, <3>1, <3>3, <3>5, <3>6 DEF OverlaySide
  <2> QED BY <2>1, <2>2
<1> QED BY <1>1, <1>2, <1>3

\* Who is not touched keeps what is said of it.
LEMMA Untouched ==
  ASSUME IInv
  PROVE  /\ UNCHANGED playerVars => PlayerSide'
         /\ UNCHANGED ipcVars => SessionSide'
         /\ UNCHANGED <<guiVars, ipcVars, track, isPlaying>> => GuiSide'
         /\ UNCHANGED <<osVars, bus, track, generation>> => DesktopSide'
         /\ UNCHANGED <<queue, inputs>> => InputSide'
<1>1. UNCHANGED playerVars => PlayerSide'
  BY DEF IInv, PlayerSide, playerVars
<1>2. UNCHANGED ipcVars => SessionSide'
  BY DEF IInv, SessionSide, ipcVars
<1>3. UNCHANGED <<guiVars, ipcVars, track, isPlaying>> => GuiSide'
  BY DEF IInv, GuiSide, Served, guiVars, ipcVars
<1>4. UNCHANGED <<osVars, bus, track, generation>> => DesktopSide'
  BY DEF IInv, DesktopSide, ClientHears, osVars
<1>5. UNCHANGED <<queue, inputs>> => InputSide'
  BY DEF IInv, InputSide
<1> QED BY <1>1, <1>2, <1>3, <1>4, <1>5

\* The operations on the player leave its flag true.
LEMMA PlayerKeeps ==
  ASSUME IInv,
         \/ SetPlaying(~sounding) \/ (\E to \in Position : SeekPlayer(to))
         \/ UNCHANGED playerVars
  PROVE  PlayerSide' /\ UNCHANGED <<track, generation>>
<1>1. CASE SetPlaying(~sounding)
  BY <1>1 DEF IInv, PlayerSide, SetPlaying
<1>2. CASE \E to \in Position : SeekPlayer(to)
  BY <1>2 DEF IInv, PlayerSide, SeekPlayer
<1>3. CASE UNCHANGED playerVars
  BY <1>3, Untouched DEF playerVars
<1> QED BY <1>1, <1>2, <1>3

-----------------------------------------------------------------------------
(* One step per action. *)

LEMMA InitInv == Init => IInv
<1> SUFFICES ASSUME Init PROVE IInv
  OBVIOUS
<1>0. /\ 0 \in Position /\ 0 \in 0 .. MaxTrack /\ 0 \in -1 .. MaxTrack /\ -1 \in -1 .. MaxTrack
      /\ -1 \in -1 .. 1 + Length
  BY PlaybackAssumption DEF Position
<1>1. PlayerSide /\ InputSide
  <2>1. PlayerSide
    BY <1>0 DEF Init, PlayerSide
  <2>2. queue \in Seq(Command) /\ Len(queue) = 0
    BY DEF Init
  <2>3. inputs \in 0 .. MaxInput /\ 0 <= QueueCap
    BY PlaybackAssumption DEF Init
  <2> QED BY <2>1, <2>2, <2>3 DEF InputSide
<1>2. SessionSide
  BY PlaybackAssumption DEF Init, SessionSide
<1>3. Nothing \in State /\ [Nothing EXCEPT !.track = 0] \in State
  BY <1>0 DEF Nothing, State
<1>4. GuiSide
  BY <1>3 DEF Init, GuiSide, Served
<1>5. OverlaySide
  BY <1>0, <1>3 DEF Init, OverlaySide, Served, Unsent
<1>6. DesktopSide
  <2>1. os.track = 0 /\ os.playing = FALSE /\ os.pos = 0
    BY DEF Init, Nothing
  <2>2. client \in Client
    BY PlaybackAssumption DEF Init, Client, Position
  <2>3. ClientHears
    BY <2>1 DEF Init, ClientHears, Status
  <2> QED BY <1>3, <2>1, <2>2, <2>3 DEF Init, DesktopSide
<1> QED BY <1>1, <1>2, <1>4, <1>5, <1>6 DEF IInv

LEMMA Asked == ASSUME IInv, Ask PROVE inputs' \in 0 .. MaxInput
BY PlaybackAssumption DEF IInv, InputSide, Ask

\* The loop handles an input that leaves tracks, sessions and the queue alone.
LEMMA InputStep ==
  ASSUME IInv, Ask, UNCHANGED <<ipcVars, osVars, busVars>>,
         \/ SetPlaying(~sounding) \/ (\E to \in Position : SeekPlayer(to))
         \/ UNCHANGED playerVars,
         \/ UNCHANGED overlayVars
         \/ sentSig' = Unsent /\ UNCHANGED <<sentElapsed, lyricRecent, overlay>>,
         \/ PushState(FALSE, sought) \/ PushState(FALSE, TRUE) \/ PushState(TRUE, sought),
         UNCHANGED desktop
  PROVE  IInv'
<1>1. PlayerSide' /\ UNCHANGED <<track, generation>>
  BY PlayerKeeps
<1>2. SessionSide' /\ DesktopSide'
  BY <1>1, Untouched DEF busVars
<1>3. GuiSide'
  BY <1>1, PushStateTells
<1>4. OverlaySide'
  BY <1>1, LyricsTell
<1>5. InputSide'
  BY Asked DEF IInv, InputSide, busVars
<1> QED BY <1>1, <1>2, <1>3, <1>4, <1>5 DEF IInv

LEMMA SetDesktopLyricsStep ==
  ASSUME IInv, NEW enabled \in BOOLEAN, SetDesktopLyrics(enabled)
  PROVE  IInv'
<1>0. /\ Ask /\ UNCHANGED <<playerVars, ipcVars, osVars, busVars>>
      /\ PushState(FALSE, sought)
  BY DEF SetDesktopLyrics
<1>1. PlayerSide' /\ SessionSide' /\ DesktopSide' /\ UNCHANGED <<track, generation>>
  BY <1>0, Untouched DEF busVars, playerVars
<1>2. GuiSide'
  BY <1>0, <1>1, PushStateTells
<1>3. OverlaySide'
  BY <1>0, <1>1, PlaybackAssumption
     DEF IInv, OverlaySide, SetDesktopLyrics, Served, Unsent, ipcVars
<1>4. InputSide'
  BY <1>0, Asked DEF IInv, InputSide, busVars
<1> QED BY <1>1, <1>2, <1>3, <1>4 DEF IInv

\* A track goes, or comes in the place of the one before.
LEMMA TurnStep ==
  ASSUME IInv, Unload \/ Adopt
  PROVE  IInv'
<1>0. /\ Publish /\ UNCHANGED <<ipcVars, desktop, busVars>>
      /\ PushState(FALSE, sought) \/ PushState(FALSE, TRUE)
      /\ inputs' = inputs \/ Ask
  <2>1. CASE Unload
    BY <2>1 DEF Unload, AskTrack
  <2>2. CASE Adopt
    <3>1. PICK from \in Begins : Start(from)
      BY <2>2 DEF Adopt
    <3>2. sought \in BOOLEAN
      BY DEF IInv, GuiSide
    <3>3. (sought \/ from > 0) = sought \/ (sought \/ from > 0) = TRUE
      BY <3>2

    <3>4. PushState(FALSE, sought) \/ PushState(FALSE, TRUE)
      BY <3>1, <3>3 DEF Start
    <3> QED BY <2>2, <3>1, <3>4 DEF Adopt, AskTrack, Start
  <2> QED BY <2>1, <2>2
<1>1. PlayerSide' /\ Turn
  <2>1. 0 \in Position
    BY PlaybackAssumption DEF Position
  <2>2. generation \in Nat /\ MaxTrack \in Nat /\ generation <= MaxTrack
    BY PlaybackAssumption DEF IInv, PlayerSide
  <2>3. CASE Unload
    BY <2>1, <2>2, <2>3 DEF Unload, PlayerSide, IInv, Turn
  <2>4. CASE Adopt
    <3>1. PICK from \in Begins : Start(from)
      BY <2>4 DEF Adopt
    <3>2. from \in Position
      BY <2>1 DEF Begins
    <3> QED BY <2>2, <2>4, <3>1, <3>2 DEF Adopt, AskTrack, Start, PlayerSide, Turn

  <2> QED BY <2>3, <2>4
<1>2. SessionSide'
  BY <1>0, Untouched
<1>3. GuiSide'
  BY <1>0, <1>1, PushStateTells
<1>4. OverlaySide'
  BY <1>0, <1>1, LyricsTell DEF Unload, Adopt
<1>5. DesktopSide'
  BY <1>0, <1>1, PublishTells DEF busVars
<1>6. InputSide'
  BY <1>0, Asked DEF IInv, InputSide, busVars
<1> QED BY <1>1, <1>2, <1>3, <1>4, <1>5, <1>6 DEF IInv

LEMMA HandleTickStep ==
  ASSUME IInv, HandleTick
  PROVE  IInv'
<1>0. /\ Publish /\ PushLyrics /\ PushState(FALSE, sought)
      /\ UNCHANGED <<track, generation, ipcVars, desktop, busVars, inputs>>
  BY DEF HandleTick
<1>1. PlayerSide'
  BY DEF IInv, PlayerSide, HandleTick
<1>2. SessionSide' /\ InputSide'
  BY <1>0, Untouched DEF busVars
<1>3. GuiSide'
  BY <1>0, <1>1, PushStateTells
<1>4. OverlaySide'
  BY <1>0, <1>1, LyricsTell
<1>5. DesktopSide'
  BY <1>0, <1>1, PublishTells DEF busVars, Turn
<1> QED BY <1>1, <1>2, <1>3, <1>4, <1>5 DEF IInv

\* Sessions come and go at the server.
LEMMA ConnectStep ==
  ASSUME IInv, Connect \/ Disconnect
  PROVE  IInv'
<1>0. /\ UNCHANGED <<playerVars, lastState, sought, recent, session, sentSig, sentElapsed,
                      lyricRecent, desktop, osVars, busVars, inputs>>
      /\ gui' \in {gui, Nothing} /\ overlay' \in {overlay, Nothing}
  BY DEF Connect, Disconnect, guiVars, overlayVars
<1>1. PlayerSide' /\ DesktopSide' /\ InputSide' /\ UNCHANGED <<track, generation, isPlaying>>
  BY <1>0, Untouched DEF busVars, playerVars
<1>2. /\ sessions \in 0 .. MaxSession /\ server \in {0, sessions} /\ session \in 0 .. sessions
      /\ events \in Seq(Event) /\ MaxSession \in Nat
  BY PlaybackAssumption DEF IInv, SessionSide
<1>3. SessionSide' /\ ~Served'
  <2>1. CASE Connect
    <3>1. <<"connected", sessions'>> \in Event /\ sessions' = sessions + 1 /\ server' = sessions'
      BY <1>2, <2>1 DEF Connect, Event
    <3>2. events' \in Seq(Event)
      BY <1>2, <2>1, <3>1 DEF Connect
    <3>3. sessions' \in 0 .. MaxSession
      BY <1>2, <2>1 DEF Connect
    <3> QED BY <1>0, <1>2, <3>1, <3>2, <3>3 DEF SessionSide, Served
  <2>2. CASE Disconnect
    <3>1. <<"disconnected", server>> \in Event
      BY <1>2, <2>2 DEF Disconnect, Event
    <3>2. events' \in Seq(Event) /\ server' = 0 /\ sessions' = sessions
      BY <1>2, <2>2, <3>1 DEF Disconnect
    <3> QED BY <1>0, <1>2, <3>2 DEF SessionSide, Served
  <2> QED BY <2>1, <2>2
<1>4. Nothing \in State
  BY PlaybackAssumption DEF Nothing, State, Position
<1>5. GuiSide' /\ OverlaySide'
  BY <1>0, <1>3, <1>4 DEF IInv, GuiSide, OverlaySide
<1> QED BY <1>1, <1>3, <1>5 DEF IInv

\* The loop hears of a session: one it takes up is told everything again.
LEMMA HandleEventStep ==
  ASSUME IInv, HandleEvent
  PROVE  IInv'
<1> DEFINE kind == Head(events)[1]
           s == Head(events)[2]
           taken == kind = "connected" /\ s = server
<1>0. /\ events # <<>> /\ events' = Tail(events)
      /\ session' = IF taken THEN s ELSE IF kind = "disconnected" /\ s = session THEN 0 ELSE session
      /\ sentSig' = IF taken THEN Unsent ELSE sentSig
      /\ UNCHANGED <<playerVars, server, sessions>>
      /\ PushTo(session', taken, sought)
      /\ UNCHANGED <<sentElapsed, lyricRecent, overlay, desktop, osVars, busVars, inputs>>
  BY DEF HandleEvent
<1>1. PlayerSide' /\ DesktopSide' /\ InputSide' /\ UNCHANGED <<track, generation, isPlaying>>
  BY <1>0, Untouched DEF busVars, playerVars
<1>2. /\ sessions \in 0 .. MaxSession /\ server \in {0, sessions} /\ session \in 0 .. sessions
      /\ events \in Seq(Event)
  BY PlaybackAssumption DEF IInv, SessionSide
<1>3. s \in 1 .. MaxSession /\ events' \in Seq(Event)
  <2>1. Head(events) \in Event /\ Tail(events) \in Seq(Event)
    BY <1>0, <1>2
  <2> QED BY <1>0, <2>1 DEF Event
<1>4. session' \in 0 .. sessions
  BY <1>0, <1>2, <1>3
<1>5. SessionSide'
  BY <1>0, <1>2, <1>3, <1>4 DEF SessionSide
<1>6. Served' => taken \/ (Served /\ session' = session)
  BY <1>0 DEF Served
<1>7. GuiSide'
  <2>1. session' # 0 /\ server = session' => taken \/ gui = lastState
    BY <1>0, <1>6 DEF IInv, GuiSide, Served
  <2>2. taken \in BOOLEAN
    OBVIOUS
  <2>3. lastState \in State /\ gui \in State /\ recent \in BOOLEAN /\ sought \in BOOLEAN
    BY DEF IInv, GuiSide
  <2>4. \A f \in BOOLEAN :
          /\ PushTo(session', f, sought)
          /\ session' # 0 /\ server = session' => f \/ gui = lastState
          => GuiSide'
    BY <1>0, <1>1, <2>3, PushTells
  <2> HIDE DEF taken
  <2> QED BY <1>0, <2>1, <2>2, <2>4
<1>8. OverlaySide'
  <2>1. sentSig' \in -1 .. 1 + Length
    <3>1. -1 \in -1 .. 1 + Length /\ sentSig \in -1 .. 1 + Length
      BY PlaybackAssumption DEF IInv, OverlaySide
    <3>2. sentSig' \in {Unsent, sentSig}
      BY <1>0
    <3> QED BY <3>1, <3>2 DEF Unsent
  <2> QED BY <1>0, <1>1, <1>6, <2>1 DEF IInv, OverlaySide
<1> QED BY <1>1, <1>5, <1>7, <1>8 DEF IInv

LEMMA CallStep ==
  ASSUME IInv, CallMethod \/ \E p \in Position : CallSetPosition(p)
  PROVE  IInv'
<1>1. PICK command \in Command : Call(command)
  <2>1. 0 \in Position
    BY PlaybackAssumption DEF Position
  <2>2. /\ \A t \in {"seek", "skip", "stop", "playpause"} : [type |-> t, at |-> 0] \in Command
        /\ \A p \in Position : [type |-> "setposition", at |-> p] \in Command
    BY <2>1 DEF Command
  <2> QED BY <2>2 DEF CallMethod, CallSetPosition
<1>2. /\ UNCHANGED <<playerVars, guiVars, ipcVars, overlayVars, desktop, osVars, bus>>
      /\ Len(queue) < QueueCap /\ queue' = Append(queue, command) /\ Ask
  BY <1>1 DEF Call
<1>3. UNCHANGED <<track, generation, isPlaying>>
  BY <1>2 DEF playerVars
<1>4. PlayerSide' /\ SessionSide' /\ GuiSide' /\ DesktopSide'
  BY <1>2, <1>3, Untouched
<1>5. OverlaySide'
  BY <1>2, <1>3, <1>4, LyricsTell
<1>6. InputSide'
  BY <1>2, Asked, PlaybackAssumption DEF IInv, InputSide
<1> QED BY <1>4, <1>5, <1>6 DEF IInv

LEMMA HandleMediaCtlCmdStep ==
  ASSUME IInv, HandleMediaCtlCmd
  PROVE  IInv'
<1>0. /\ queue # <<>> /\ queue' = Tail(queue)
      /\ UNCHANGED <<ipcVars, overlayVars, desktop, bus, inputs>>
  BY DEF HandleMediaCtlCmd
<1>1. Head(queue) \in Command /\ InputSide'
  <2>1. /\ queue \in Seq(Command) /\ Len(queue) <= QueueCap /\ QueueCap \in Nat
        /\ inputs \in 0 .. MaxInput
    BY PlaybackAssumption DEF IInv, InputSide
  <2>2. Head(queue) \in Command /\ queue' \in Seq(Command) /\ Len(queue') = Len(queue) - 1
    BY <1>0, <2>1
  <2>3. Len(queue') <= QueueCap
    BY <2>1, <2>2
  <2> QED BY <1>0, <2>1, <2>2, <2>3 DEF InputSide
<1>2. /\ \/ SetPlaying(~sounding) \/ (\E to \in Position : SeekPlayer(to))
         \/ UNCHANGED playerVars
         \/ /\ sounding' = FALSE /\ isPlaying' = FALSE /\ pos' \in {0, pos}
            /\ UNCHANGED <<track, generation, elapsed>>
      /\ PushState(FALSE, sought) \/ PushState(FALSE, TRUE)
      /\ Publish \/ UNCHANGED osVars
  <2> DEFINE command == Head(queue)
  <2>1. \A p \in Int : Clamped(p) \in Position
    BY PlaybackAssumption DEF Clamped, Position
  <2>2. \A d \in {-1, 1} : Clamped(pos + d) \in Position
    BY <2>1, PlaybackAssumption DEF IInv, PlayerSide, Position
  <2>3. /\ command.at \in Position
        /\ command.type \in {"setposition", "seek", "skip", "stop", "playpause"}
    BY <1>1 DEF Command
  <2>4. CASE track = 0
    BY <2>4 DEF HandleMediaCtlCmd
  <2>5. CASE track # 0 /\ command.type = "playpause"
    BY <2>5 DEF HandleMediaCtlCmd
  <2>6. CASE track # 0 /\ command.type = "stop"
    BY <2>6 DEF HandleMediaCtlCmd
  <2>7. CASE track # 0 /\ command.type \in {"seek", "skip"}
    BY <2>2, <2>7 DEF HandleMediaCtlCmd
  <2>8. CASE track # 0 /\ command.type = "setposition"
    BY <2>3, <2>8 DEF HandleMediaCtlCmd
  <2> QED BY <2>3, <2>4, <2>5, <2>6, <2>7, <2>8
<1>3. PlayerSide' /\ UNCHANGED <<track, generation>>
  <2>1. ASSUME sounding' = FALSE, isPlaying' = FALSE, pos' \in {0, pos},
               UNCHANGED <<track, generation, elapsed>>
        PROVE  PlayerSide'
    <3>1. 0 \in Position
      BY PlaybackAssumption DEF Position
    <3> QED BY <2>1, <3>1 DEF IInv, PlayerSide
  <2> QED BY <1>2, <2>1, PlayerKeeps
<1>4. SessionSide'
  BY <1>0, Untouched
<1>5. GuiSide'
  BY <1>0, <1>2, <1>3, PushStateTells
<1>6. OverlaySide'
  BY <1>0, <1>3, LyricsTell
<1>7. DesktopSide'
  BY <1>0, <1>2, <1>3, PublishTells DEF Turn
<1> QED BY <1>1, <1>3, <1>4, <1>5, <1>6, <1>7 DEF IInv

\* Time, sound and the bus touch nobody's memory, except that a client who finds the bus
\* again reads everything anew.
LEMMA WorldStep ==
  ASSUME IInv, Sound \/ LyricTime \/ StateTime \/ BusLost \/ Reconnect \/ UNCHANGED vars
  PROVE  IInv'
<1>0. /\ UNCHANGED <<track, generation, sounding, elapsed, isPlaying, lastState, sought, gui,
                      ipcVars, sentSig, sentElapsed, overlay, desktop, os, trackSeq, queue, inputs>>
      /\ recent' \in {recent, FALSE} /\ lyricRecent' \in {lyricRecent, FALSE}
      /\ pos' = pos \/ (pos < Length /\ pos' = pos + 1)
      /\ \/ UNCHANGED <<bus, client>>
         \/ bus' = "down" /\ client' = client
         \/ bus' = "up" /\ client' = [id |-> trackSeq, meta |-> os.track, status |-> Status(os),
                                      pos |-> os.pos]
  <2>1. CASE Sound
    BY <2>1 DEF Sound, guiVars, overlayVars, osVars, busVars
  <2>2. CASE LyricTime
    BY <2>2 DEF LyricTime, playerVars, guiVars, osVars, busVars
  <2>3. CASE StateTime
    BY <2>3 DEF StateTime, playerVars, overlayVars, osVars, busVars
  <2>4. CASE BusLost \/ Reconnect
    BY <2>4 DEF BusLost, Reconnect, playerVars, guiVars, overlayVars, osVars
  <2>5. CASE UNCHANGED vars
    BY <2>5 DEF vars, playerVars, guiVars, overlayVars, osVars, busVars
  <2> QED BY <2>1, <2>2, <2>3, <2>4, <2>5
<1>1. PlayerSide'
  BY <1>0, PlaybackAssumption DEF IInv, PlayerSide, Position
<1>2. SessionSide' /\ InputSide'
  BY <1>0, Untouched
<1>3. GuiSide' /\ OverlaySide'
  BY <1>0 DEF IInv, GuiSide, OverlaySide, Served, ipcVars
<1>4. DesktopSide'
  <2>1. Status(os) \in {"Stopped", "Playing", "Paused"} /\ os \in State /\ client \in Client
    BY StatusType DEF IInv, DesktopSide
  <2>2. trackSeq \in 0 .. 2 * MaxTrack
    BY TypesHold DEF TypeOK
  <2>3. client' \in Client
    <3>1. [id |-> trackSeq, meta |-> os.track, status |-> Status(os), pos |-> os.pos] \in Client
      BY <2>1, <2>2 DEF Client, State
    <3> QED BY <1>0, <2>1, <3>1
  <2>4. ClientHears'
    BY <1>0 DEF IInv, DesktopSide, ClientHears
  <2> QED BY <1>0, <2>3, <2>4 DEF IInv, DesktopSide
<1> QED BY <1>1, <1>2, <1>3, <1>4 DEF IInv

LEMMA InvStep ==
  ASSUME IInv, [Next]_vars
  PROVE  IInv'
<1>1. CASE Toggle
  BY <1>1, InputStep DEF Toggle
<1>2. CASE \E p \in Position : Seek(p)
  BY <1>2, InputStep DEF Seek
<1>3. CASE GetState
  BY <1>3, InputStep DEF GetState
<1>4. CASE \E enabled \in BOOLEAN : SetDesktopLyrics(enabled)
  BY <1>4, SetDesktopLyricsStep
<1>5. CASE Unload \/ Adopt
  BY <1>5, TurnStep
<1>6. CASE HandleTick
  BY <1>6, HandleTickStep
<1>7. CASE Connect \/ Disconnect
  BY <1>7, ConnectStep
<1>8. CASE HandleEvent
  BY <1>8, HandleEventStep
<1>9. CASE CallMethod \/ \E p \in Position : CallSetPosition(p)
  BY <1>9, CallStep
<1>10. CASE HandleMediaCtlCmd
  BY <1>10, HandleMediaCtlCmdStep
<1>11. CASE Sound \/ LyricTime \/ StateTime \/ BusLost \/ Reconnect \/ UNCHANGED vars
  BY <1>11, WorldStep
<1> QED BY <1>1, <1>2, <1>3, <1>4, <1>5, <1>6, <1>7, <1>8, <1>9, <1>10, <1>11 DEF Next

\* The invariant holds of every state of every run.
LEMMA Invariance == Spec => []IInv
<1>1. IInv /\ [Next]_vars => IInv'
  BY InvStep
<1> QED BY <1>1, InitInv, PTL DEF Spec

\* The GUI that was taken up has been told of the track, of whether it sounds and of every
\* seek when a message has been handled, and a client of the desktop what it would be
\* answered: whatever throttles, sessions, reconnections and failed calls come between.
THEOREM ListenersAreTold == Spec => []ListenersTold
<1>1. IInv => GuiTold
  BY DEF IInv, PlayerSide, GuiSide, GuiTold
<1>2. IInv => ListenersTold
  BY <1>1, TypesHold DEF IInv, DesktopSide, ListenersTold
<1> QED BY <1>2, Invariance, PTL

\* After a tick the overlay of a GUI that asked for lyrics shows the line of the moment, be
\* it because a frame was just sent or because the last one said as much.
THEOREM OverlayIsFresh == Spec => OverlayFollows
<1> DEFINE fresh == /\ overlay'.track = track
                   /\ Sig(overlay'.track, overlay'.pos) = Sig(track, elapsed')
                   /\ (overlay'.pos = elapsed' \/ lyricRecent)
<1>1. ASSUME IInv, HandleTick, Served, desktop
      PROVE  fresh
  <2>1. /\ PushLyrics /\ UNCHANGED track /\ server # 0
        /\ elapsed' \in Position /\ track \in -1 .. MaxTrack
    BY <1>1, PlaybackAssumption DEF HandleTick, Served, IInv, PlayerSide
  <2>2. CASE sentSig' = Sig(track, elapsed') /\ overlay' = Told'
    BY <2>1, <2>2 DEF Told
  <2>3. CASE /\ UNCHANGED overlayVars /\ Sig(track, elapsed') = sentSig
             /\ elapsed' = sentElapsed \/ lyricRecent
    <3>1. sentSig # Unsent /\ (sentSig = 0 <=> track = 0)
      BY <2>1, <2>3, SigType DEF Unsent
    <3>2. /\ overlay.pos = sentElapsed /\ Sig(overlay.track, overlay.pos) = sentSig
          /\ overlay.track # 0 /\ track # 0 => overlay.track = track
          /\ overlay.track \in -1 .. MaxTrack /\ overlay.pos \in Position
      BY <1>1, <3>1 DEF IInv, OverlaySide, State
    <3>3. sentSig = 0 <=> overlay.track = 0
      BY <3>2, SigType
    <3>4. overlay' = overlay
      BY <2>3 DEF overlayVars
    <3> QED BY <2>3, <3>1, <3>2, <3>3, <3>4
  <2> QED BY <1>1, <2>1, <2>2, <2>3 DEF PushLyrics
<1>2. IInv /\ [Next]_vars => [HandleTick /\ Served /\ desktop => fresh]_vars
  BY <1>1
<1> QED BY <1>2, Invariance, PTL DEF OverlayFollows, Spec
=============================================================================
